-------------------------- MODULE DenormSaveProofs --------------------------
(***************************************************************************)
(* Saves leave a column stale and unmarked, or a wrong value in the cache, *)
(* only for a cause that the model names, for any number of sessions,      *)
(* values, edits, failures and keys.                                       *)
(***************************************************************************)
EXTENDS DenormSave, TLAPS

Columns == {"name", "upper", "letter", "data"}

LEMMA NoInstanceType == NoInstance \in Instance
<1>1. NoInstance.memo = [upper |-> None, letter |-> None, key |-> None]
  BY DEF NoInstance, Computed
<1> QED BY <1>1 DEF NoInstance, Memos, Instance

LEMMA InitTypes == Init => Types
<1> SUFFICES ASSUME Init
             PROVE  Types
  OBVIOUS
<1> USE SaveAssumption
<1>1. /\ val \in [Columns -> Value] /\ keys \in 1 .. MaxKeys /\ key \in Drawn
      /\ markers \subseteq {"upper", "letter"}
  BY DEF Init, Columns, Drawn
<1>2. /\ store \in [1 .. MaxKeys -> Value \cup {None}]
      /\ \A k \in 1 .. MaxKeys : store[k] # None => k \in Drawn
  BY DEF Init
<1>4. /\ pc \in [Sessions -> {"out", "filling", "have", "pre", "post"}]
      /\ fields \in [Sessions -> SUBSET Fields]
      /\ todo \in [Sessions -> SUBSET Computed]
      /\ mode \in [Sessions -> Modes \cup {None}]
      /\ differs \in [Sessions -> SUBSET {"name", "data"}]
      /\ kept \in [Sessions -> SUBSET Computed]
      /\ slipped \subseteq {"upper", "letter"} /\ badKeys \subseteq Drawn
  BY DEF Init
<1>5. /\ steps \in 0 .. MaxSteps /\ failures \in 0 .. MaxFailures
      /\ writes \in 0 .. MaxWrites
  BY DEF Init
<1>6. inst \in [Sessions -> Instance]
  BY NoInstanceType DEF Init
<1> QED BY <1>1, <1>2, <1>4, <1>5, <1>6 DEF Types, Columns

(* Changes of one part of an instance, and of one memo.                    *)
LEMMA InstanceWith ==
  ASSUME NEW i \in Instance
  PROVE  /\ \A v \in Value \cup {None} : [i EXCEPT !.name = v] \in Instance
         /\ \A v \in Value \cup {None} : [i EXCEPT !.b = v] \in Instance
         /\ \A k \in Drawn \cup {None} : [i EXCEPT !.key = k] \in Instance
         /\ \A m \in Memos : [i EXCEPT !.memo = m] \in Instance
BY DEF Instance

LEMMA MemosWith ==
  ASSUME NEW m \in Memos
  PROVE  /\ \A v \in Value \cup {None} :
              [m EXCEPT !["upper"] = v] \in Memos /\ [m EXCEPT !["letter"] = v] \in Memos
         /\ \A k \in Drawn \cup {None} : [m EXCEPT !["key"] = k] \in Memos
BY DEF Memos

LEMMA InstanceParts ==
  ASSUME NEW i \in Instance
  PROVE  /\ i.name \in Value \cup {None} /\ i.b \in Value \cup {None}
         /\ i.key \in Drawn \cup {None}
         /\ i.memo \in Memos
         /\ i.memo["upper"] \in Value \cup {None}
         /\ i.memo["letter"] \in Value \cup {None}
         /\ i.memo["key"] \in Drawn \cup {None}
BY DEF Instance, Memos

(* Keys that have been drawn stay drawn.                                   *)
LEMMA DrawnGrows ==
  ASSUME keys \in 1 .. MaxKeys, keys' = keys + 1
  PROVE  /\ Drawn \subseteq Drawn' /\ keys' \in Drawn' /\ keys' \notin Drawn
         /\ Memos \subseteq Memos' /\ Instance \subseteq Instance'
<1>1. Drawn \subseteq Drawn' /\ keys' \in Drawn' /\ keys' \notin Drawn
  BY SaveAssumption DEF Drawn
<1>2. Memos \subseteq Memos'
  BY <1>1 DEF Memos
<1>3. Instance \subseteq Instance'
  BY <1>1, <1>2 DEF Instance
<1> QED BY <1>1, <1>2, <1>3

-----------------------------------------------------------------------------
(* What a step leaves to a session that does not take it *)

Calm(t) ==
    /\ pc'[t] = pc[t] /\ inst'[t] = inst[t] /\ fields'[t] = fields[t]
    /\ todo'[t] = todo[t] /\ kept'[t] = kept[t]
    /\ differs[t] \subseteq differs'[t]
    /\ val'["name"] = val["name"] \/ inst[t].name = None \/ "name" \in differs'[t]
    /\ val'["data"] = val["data"] \/ inst[t].b = None \/ "data" \in differs'[t]
    /\ \A k \in Drawn : store[k] # None => store'[k] = store[k]
    /\ Stale("upper")' => \/ Stale("upper") \/ "upper" \in slipped'
                          \/ val'["name"] # val["name"]
    /\ "upper" \in slipped => "upper" \in slipped' \/ ~Stale("upper")'

LEMMA CalmKeeps ==
  ASSUME Types, NEW t \in Sessions, Sound(t), Calm(t)
  PROVE  Sound(t)'
<1>1. inst[t].memo["key"] \in Drawn \cup {None} /\ inst[t].b \in Value \cup {None}
  BY InstanceParts DEF Types
<1>2. Loaded(t)'
  BY DEF Calm, Sound, Loaded
<1>3. Agrees(t)'
  BY DEF Calm, Sound, Agrees
<1>4. MemoOf(t)'
  BY <1>1 DEF Calm, Sound, MemoOf
<1>5. AwaitsPost(t)'
  <2> SUFFICES ASSUME pc'[t] = "post", "upper" \in fields'[t], Stale("upper")',
                      "name" \notin differs'[t], "upper" \notin slipped'
               PROVE  FALSE
    BY DEF AwaitsPost
  <2>1. inst[t].name # None
    BY DEF Calm, Sound, Loaded
  <2>2. val'["name"] = val["name"]
    BY <2>1 DEF Calm
  <2>3. Stale("upper") /\ "upper" \notin slipped
    BY <2>2 DEF Calm
  <2>4. "name" \in differs[t]
    BY <2>3 DEF Calm, Sound, AwaitsPost
  <2> QED BY <2>4 DEF Calm
<1> QED BY <1>2, <1>3, <1>4, <1>5 DEF Sound

-----------------------------------------------------------------------------
(* Statements that bypass the ORM, and flushes *)

LEMMA FiredByIsLocal ==
  ASSUME NEW changed
  PROVE  FiredBy(changed) \subseteq {"upper", "letter"}
BY DEF FiredBy

LEMMA NameFires == FiredBy({"name"}) = {"upper", "letter"}
<1>1. {"name"} \ {"letter"} # {} /\ "name" \in {"name"}
  OBVIOUS
<1> QED BY <1>1 DEF FiredBy

LEMMA UpdateNameStep ==
  ASSUME IInv, NEW v \in Value, UpdateName(v)
  PROVE  IInv'
<1>t. Types
  BY DEF IInv
<1>1. /\ val' = [val EXCEPT !["name"] = v] /\ v # val["name"]
      /\ markers' = markers \cup FiredBy({"name"})
      /\ UNCHANGED <<key, keys, store, pc, inst, fields, mode, todo, steps,
                     failures, kept, slipped, badKeys>>
      /\ writes < MaxWrites /\ writes' = writes + 1
  BY DEF UpdateName, sessionVars
<1>2. /\ val' \in [Columns -> Value] /\ val'["name"] # val["name"]
      /\ \A c \in Columns \ {"name"} : val'[c] = val[c]
  BY <1>t, <1>1 DEF Types, Columns
<1>3. markers' = {"upper", "letter"}
  BY <1>t, <1>1, NameFires DEF Types
<1>4. differs' \in [Sessions -> SUBSET {"name", "data"}]
  BY <1>t DEF UpdateName, FallBehind, Types
<1>5. writes' \in 0 .. MaxWrites
  BY <1>t, <1>1, SaveAssumption DEF Types
<1>6. Types'
  BY <1>t, <1>1, <1>2, <1>3, <1>4, <1>5
  DEF Types, Columns, Drawn, Instance, Memos
<1>7. ASSUME NEW t \in Sessions
      PROVE  Sound(t)'
  <2>1. val'["name"] # val["name"] /\ val'["data"] = val["data"]
    BY <1>2 DEF Columns
  <2>2. differs[t] \subseteq differs'[t] /\ (inst[t].name = None \/ "name" \in differs'[t])
    BY DEF UpdateName, FallBehind
  <2>3. Calm(t)
    BY <1>1, <2>1, <2>2 DEF Calm
  <2> QED BY <1>t, <2>3, CalmKeeps DEF IInv, SessionInv
<1>8. StaleForCause' /\ CachedForCause'
  BY <1>1, <1>2, <1>3 DEF IInv, StaleForCause, CachedForCause, Columns
<1> QED BY <1>6, <1>7, <1>8 DEF IInv, SessionInv

LEMMA UpdateDataStep ==
  ASSUME IInv, NEW v \in Value, UpdateData(v)
  PROVE  IInv'
<1>t. Types
  BY DEF IInv
<1>1. /\ val' = [val EXCEPT !["data"] = v]
      /\ keys < MaxKeys /\ keys' = keys + 1 /\ key' = keys'
      /\ markers' = markers \cup {"letter"} \cup FiredBy({"key"})
      /\ UNCHANGED <<store, pc, inst, fields, mode, todo, steps,
                     failures, kept, slipped, badKeys>>
      /\ writes < MaxWrites /\ writes' = writes + 1
  BY DEF UpdateData, sessionVars
<1>2. /\ val' \in [Columns -> Value]
      /\ \A c \in Columns \ {"data"} : val'[c] = val[c]
  BY <1>t, <1>1 DEF Types, Columns
<1>3. markers' \subseteq {"upper", "letter"} /\ "letter" \in markers'
      /\ markers \subseteq markers'
  BY <1>t, <1>1, FiredByIsLocal DEF Types
<1>4. differs' \in [Sessions -> SUBSET {"name", "data"}]
  BY <1>t DEF UpdateData, FallBehind, Types
<1>5. writes' \in 0 .. MaxWrites /\ keys' \in 1 .. MaxKeys
  BY <1>t, <1>1, SaveAssumption DEF Types
<1>d. /\ Drawn \subseteq Drawn' /\ keys' \in Drawn' /\ keys' \notin Drawn
      /\ Instance \subseteq Instance'
  BY <1>t, <1>1, DrawnGrows DEF Types
<1>6. Types'
  <2>1. inst' \in [Sessions -> Instance']
    BY <1>t, <1>1, <1>d DEF Types
  <2>2. badKeys' \subseteq Drawn' /\ key' \in Drawn'
        /\ \A k \in 1 .. MaxKeys : store'[k] # None => k \in Drawn'
    BY <1>t, <1>1, <1>d DEF Types
  <2> QED BY <1>t, <1>1, <1>2, <1>3, <1>4, <1>5, <2>1, <2>2 DEF Types, Columns
<1>7. ASSUME NEW t \in Sessions
      PROVE  Sound(t)'
  <2>1. Stale("upper")' = Stale("upper")
    BY <1>2 DEF Stale, Source, Columns
  <2>2. val'["name"] = val["name"]
    BY <1>2 DEF Columns
  <2>3. differs[t] \subseteq differs'[t] /\ (inst[t].b = None \/ "data" \in differs'[t])
    BY DEF UpdateData, FallBehind
  <2>4. Calm(t)
    BY <1>1, <2>1, <2>2, <2>3 DEF Calm
  <2> QED BY <1>t, <2>4, CalmKeeps DEF IInv, SessionInv
<1>8. StaleForCause'
  <2>1. Stale("upper")' = Stale("upper")
    BY <1>2 DEF Stale, Source, Columns
  <2> QED BY <1>1, <1>3, <2>1 DEF IInv, StaleForCause
<1>9. CachedForCause'
  <2>1. store[keys'] = None
    BY <1>t, <1>5, <1>d DEF Types
  <2> QED BY <1>1, <2>1 DEF CachedForCause
<1> QED BY <1>6, <1>7, <1>8, <1>9 DEF IInv, SessionInv

LEMMA FlushStep ==
  ASSUME IInv, Flush
  PROVE  IInv'
<1>t. Types
  BY DEF IInv
<1> DEFINE claimed == markers \cup FiredBy({d \in markers : Stale(d)})
<1>1. /\ val' = [c \in DOMAIN val |-> IF c \in claimed THEN val[Source[c]] ELSE val[c]]
      /\ slipped' = slipped \ claimed
      /\ markers' = {}
      /\ store' = [store EXCEPT ![key] = IF @ = None THEN val["data"] ELSE @]
      /\ UNCHANGED <<key, keys, pc, inst, fields, mode, todo, steps, failures,
                     writes, differs, kept, badKeys>>
  BY DEF Flush, sessionVars
<1>2. claimed \subseteq {"upper", "letter"} /\ markers \subseteq claimed
  BY <1>t, FiredByIsLocal DEF Types
<1> HIDE DEF claimed
<1>3. /\ val' \in [Columns -> Value]
      /\ val'["name"] = val["name"] /\ val'["data"] = val["data"]
      /\ val'["upper"] = IF "upper" \in claimed THEN val["name"] ELSE val["upper"]
      /\ val'["letter"] = IF "letter" \in claimed THEN val["data"] ELSE val["letter"]
  BY <1>t, <1>1, <1>2 DEF Types, Columns, Source
<1>4. \A d \in {"upper", "letter"} : Stale(d)' => Stale(d) /\ d \notin claimed
  BY <1>3 DEF Stale, Source
<1>5. /\ key \in 1 .. MaxKeys
      /\ store' \in [1 .. MaxKeys -> Value \cup {None}]
      /\ \A k \in 1 .. MaxKeys : store'[k] = store[k] \/ k = key
      /\ store'[key] = IF store[key] = None THEN val["data"] ELSE store[key]
  BY <1>t, <1>1, SaveAssumption DEF Types, Drawn
<1>6. Types'
  <2>1. /\ inst' \in [Sessions -> Instance'] /\ badKeys' \subseteq Drawn'
        /\ key' \in Drawn' /\ keys' \in 1 .. MaxKeys
    BY <1>t, <1>1 DEF Types, Drawn, Instance, Memos
  <2>2. \A k \in 1 .. MaxKeys : store'[k] # None => k \in Drawn'
    BY <1>t, <1>1, <1>5 DEF Types, Drawn
  <2>3. markers' \subseteq {"upper", "letter"} /\ slipped' \subseteq {"upper", "letter"}
    BY <1>t, <1>1 DEF Types
  <2> QED BY <1>t, <1>1, <1>3, <1>5, <2>1, <2>2, <2>3 DEF Types, Columns
<1>7. ASSUME NEW t \in Sessions
      PROVE  Sound(t)'
  <2>1. \A k \in Drawn : store[k] # None => store'[k] = store[k]
    BY <1>t, <1>5, SaveAssumption DEF Types, Drawn
  <2>2. Stale("upper")' => Stale("upper")
    BY <1>4
  <2>3. "upper" \in slipped => "upper" \in slipped' \/ ~Stale("upper")'
    BY <1>1, <1>4
  <2>4. Calm(t)
    BY <1>1, <1>3, <2>1, <2>2, <2>3 DEF Calm
  <2> QED BY <1>t, <2>4, CalmKeeps DEF IInv, SessionInv
<1>8. StaleForCause'
  BY <1>1, <1>2, <1>4 DEF IInv, StaleForCause
<1>9. CachedForCause'
  BY <1>1, <1>3, <1>5 DEF IInv, CachedForCause
<1> QED BY <1>6, <1>7, <1>8, <1>9 DEF IInv, SessionInv

-----------------------------------------------------------------------------
(* Steps of a session that leave the database alone *)

SitsOut(t) ==
    /\ pc'[t] = pc[t] /\ inst'[t] = inst[t] /\ fields'[t] = fields[t]
    /\ todo'[t] = todo[t] /\ kept'[t] = kept[t] /\ differs'[t] = differs[t]

LEMMA SessionStep ==
  ASSUME IInv, NEW s \in Sessions,
         UNCHANGED <<val, key, markers, slipped, badKeys>>,
         \A k \in Drawn : store[k] # None => store'[k] = store[k],
         store'[key] \in {store[key], val["data"]},
         \A t \in Sessions \ {s} : SitsOut(t),
         Types', Sound(s)'
  PROVE  IInv'
<1>1. ASSUME NEW t \in Sessions \ {s}
      PROVE  Sound(t)'
  <2>1. SitsOut(t)
    OBVIOUS
  <2>2. Stale("upper")' = Stale("upper")
    BY DEF Stale
  <2>3. Calm(t)
    BY <2>1, <2>2 DEF Calm, SitsOut
  <2> QED BY <2>3, CalmKeeps DEF IInv, SessionInv
<1>2. StaleForCause'
  BY DEF IInv, StaleForCause, Stale
<1>3. CachedForCause'
  BY DEF IInv, CachedForCause
<1> QED BY <1>1, <1>2, <1>3 DEF IInv, SessionInv

LEMMA LoadStep ==
  ASSUME IInv, NEW s \in Sessions, Load(s)
  PROVE  IInv'
<1>t. Types
  BY DEF IInv
<1>s. Sound(s)
  BY DEF IInv, SessionInv
<1>1. /\ UNCHANGED <<val, key, markers, keys, store, fields, mode, todo, failures,
                     writes, differs, kept, slipped, badKeys>>
      /\ pc[s] = "out" /\ pc' = [pc EXCEPT ![s] = "filling"]
      /\ steps < MaxSteps /\ steps' = steps + 1
      /\ inst' = [inst EXCEPT ![s] = [inst[s] EXCEPT !.name = val["name"], !.key = key]]
  BY DEF Load, Advance, dbVars, historyVars
<1>2. Types'
  <2>0. inst[s] \in Instance /\ val["name"] \in Value /\ key \in Drawn
    BY <1>t DEF Types
  <2>1. [inst[s] EXCEPT !.name = val["name"], !.key = key] \in Instance
    BY <2>0 DEF Instance
  <2>2. inst' \in [Sessions -> Instance']
    BY <1>t, <1>1, <2>1 DEF Types, Instance, Memos, Drawn
  <2>3. steps' \in 0 .. MaxSteps
    BY <1>t, <1>1, SaveAssumption DEF Types
  <2> QED BY <1>t, <1>1, <2>2, <2>3 DEF Types, Drawn
<1>3. \A t \in Sessions \ {s} : SitsOut(t)
  BY <1>t, <1>1 DEF SitsOut, Types
<1>4. /\ inst'[s].name = val["name"] /\ inst'[s].key = key /\ inst'[s].b = inst[s].b
      /\ inst'[s].memo = inst[s].memo /\ pc'[s] = "filling"
  BY <1>t, <1>1 DEF Types, Instance
<1>5. val["name"] # None /\ key # None
  BY <1>t, SaveAssumption DEF Types, Drawn
<1>6. Loaded(s)'
  BY <1>1, <1>4, <1>5, <1>s DEF Sound, Loaded
<1>7. Agrees(s)'
  BY <1>1, <1>4, <1>s DEF Sound, Loaded, Agrees
<1>8. MemoOf(s)'
  <2>1. \A f \in Computed \ kept[s] : inst[s].memo[f] = None
    BY <1>1, <1>s DEF Sound, MemoOf
  <2>2. {"upper", "letter", "key"} \subseteq Computed
    BY DEF Computed
  <2> QED BY <1>1, <1>4, <2>1, <2>2 DEF MemoOf
<1>9. AwaitsPost(s)'
  BY <1>4 DEF AwaitsPost
<1> QED BY <1>1, <1>2, <1>3, <1>6, <1>7, <1>8, <1>9, SessionStep DEF Sound

(* Nothing that a failed save has not left remains on an instance outside  *)
(* a save.                                                                 *)
LEMMA NoMemo ==
  ASSUME NEW s \in Sessions, MemoOf(s), pc[s] \notin {"pre", "post"}
  PROVE  /\ inst[s].memo["upper"] = None \/ "upper" \in kept[s]
         /\ inst[s].memo["letter"] = None \/ "letter" \in kept[s]
         /\ inst[s].memo["key"] = None \/ "key" \in kept[s]
BY DEF MemoOf, Computed

LEMMA FillStep ==
  ASSUME IInv, NEW s \in Sessions, Fill(s)
  PROVE  IInv'
<1>t. Types
  BY DEF IInv
<1>s. Sound(s)
  BY DEF IInv, SessionInv
<1> DEFINE k == inst[s].key
<1>k. k \in Drawn /\ k \in 1 .. MaxKeys /\ inst[s].b = None /\ pc[s] = "filling"
  <2>1. inst[s].key \in Drawn \cup {None}
    BY <1>t, InstanceParts DEF Types
  <2>2. pc[s] = "filling" /\ inst[s].b = None /\ inst[s].key # None
    BY <1>s DEF Fill, Sound, Loaded
  <2> QED BY <1>t, <2>1, <2>2, SaveAssumption DEF Types, Drawn
<1>1. /\ UNCHANGED <<val, key, markers, keys, fields, mode, todo, steps, failures,
                     writes, differs, kept, slipped, badKeys>>
      /\ pc' = [pc EXCEPT ![s] = "have"]
  BY DEF Fill, dbVars, historyVars
<1>2. \/ /\ store[k] = None
         /\ store' = [store EXCEPT ![k] = val["data"]]
         /\ inst' = [inst EXCEPT ![s] = [inst[s] EXCEPT !.b = val["data"], !.key = None]]
      \/ /\ store' = store
         /\ inst' = [inst EXCEPT ![s] = [inst[s] EXCEPT !.key = None]]
  <2>1. ReadB(s) = val["data"]
    BY <1>k DEF ReadB
  <2>2. CASE store[k] = None
    BY <2>1, <2>2 DEF Fill
  <2>3. CASE store[k] # None
    BY <2>3 DEF Fill
  <2> QED BY <2>2, <2>3
<1> HIDE DEF k
<1>v. val["data"] \in Value /\ inst[s] \in Instance /\ val["data"] # None
  BY <1>t, SaveAssumption DEF Types
<1>3. /\ store' \in [1 .. MaxKeys -> Value \cup {None}]
      /\ \A j \in 1 .. MaxKeys : store'[j] # None => j \in Drawn
      /\ \A j \in Drawn : store[j] # None => store'[j] = store[j]
      /\ store'[key] \in {store[key], val["data"]}
  <2>1. /\ store \in [1 .. MaxKeys -> Value \cup {None}]
        /\ \A j \in 1 .. MaxKeys : store[j] # None => j \in Drawn
        /\ key \in 1 .. MaxKeys /\ Drawn \subseteq 1 .. MaxKeys
    BY <1>t, SaveAssumption DEF Types, Drawn
  <2>2. CASE store' = store
    BY <2>1, <2>2
  <2>3. CASE store[k] = None /\ store' = [store EXCEPT ![k] = val["data"]]
    BY <1>k, <1>v, <2>1, <2>3
  <2> QED BY <1>2, <2>2, <2>3
<1>4. /\ inst'[s] \in Instance
      /\ inst'[s].name = inst[s].name /\ inst'[s].b \in {None, val["data"]}
      /\ inst'[s].memo = inst[s].memo
      /\ \A t \in Sessions \ {s} : inst'[t] = inst[t]
      /\ inst' \in [Sessions -> Instance]
  <2>1. [inst[s] EXCEPT !.key = None] \in Instance
    BY <1>v DEF Instance
  <2>2. [inst[s] EXCEPT !.b = val["data"], !.key = None] \in Instance
    BY <1>v DEF Instance
  <2>3. inst \in [Sessions -> Instance]
    BY <1>t DEF Types
  <2>4. CASE inst' = [inst EXCEPT ![s] = [inst[s] EXCEPT !.key = None]]
    <3>1. inst'[s] = [inst[s] EXCEPT !.key = None]
      BY <2>3, <2>4
    <3>2. inst'[s].name = inst[s].name /\ inst'[s].b = inst[s].b /\ inst'[s].memo = inst[s].memo
      BY <1>v, <3>1 DEF Instance
    <3> QED BY <1>k, <2>1, <2>3, <2>4, <3>1, <3>2
  <2>5. CASE inst' = [inst EXCEPT ![s] = [inst[s] EXCEPT !.b = val["data"], !.key = None]]
    <3>1. inst'[s] = [inst[s] EXCEPT !.b = val["data"], !.key = None]
      BY <2>3, <2>5
    <3>2. inst'[s].name = inst[s].name /\ inst'[s].b = val["data"] /\ inst'[s].memo = inst[s].memo
      BY <1>v, <3>1 DEF Instance
    <3> QED BY <2>2, <2>3, <2>5, <3>1, <3>2
  <2> QED BY <1>2, <2>4, <2>5
<1>5. Types'
  <2>1. inst' \in [Sessions -> Instance'] /\ Drawn' = Drawn
    BY <1>1, <1>4 DEF Instance, Memos, Drawn
  <2> QED BY <1>t, <1>1, <1>3, <2>1 DEF Types
<1>6. \A t \in Sessions \ {s} : SitsOut(t)
  BY <1>t, <1>1, <1>4 DEF SitsOut, Types
<1>7. pc'[s] = "have"
  BY <1>t, <1>1 DEF Types
<1>8. Loaded(s)'
  BY <1>4, <1>7, <1>k, <1>s DEF Sound, Loaded
<1>9. Agrees(s)'
  BY <1>1, <1>4, <1>s DEF Sound, Agrees
<1>10. MemoOf(s)'
  BY <1>1, <1>4, <1>7, <1>k, <1>s, NoMemo DEF Sound, MemoOf
<1>11. AwaitsPost(s)'
  BY <1>7 DEF AwaitsPost
<1> QED BY <1>1, <1>3, <1>5, <1>6, <1>8, <1>9, <1>10, <1>11, SessionStep DEF Sound

LEMMA FollowStep ==
  ASSUME IInv, NEW s \in Sessions, Follow(s)
  PROVE  IInv'
<1>t. Types
  BY DEF IInv
<1>s. Sound(s)
  BY DEF IInv, SessionInv
<1>1. /\ UNCHANGED <<val, key, markers, keys, store, fields, mode, todo, failures,
                     writes, differs, kept, slipped, badKeys>>
      /\ pc[s] = "have" /\ pc' = [pc EXCEPT ![s] = "have"]
      /\ steps < MaxSteps /\ steps' = steps + 1
      /\ inst' = [inst EXCEPT ![s] = [inst[s] EXCEPT !.b = val["data"]]]
  BY DEF Follow, Advance, ReadB, dbVars, historyVars
<1>2. inst[s] \in Instance /\ val["data"] \in Value /\ val["data"] # None
  BY <1>t, SaveAssumption DEF Types
<1>3. /\ inst'[s].name = inst[s].name /\ inst'[s].b = val["data"]
      /\ inst'[s].memo = inst[s].memo
  BY <1>t, <1>1, <1>2 DEF Types, Instance
<1>4. Types'
  <2>1. [inst[s] EXCEPT !.b = val["data"]] \in Instance
    BY <1>2, InstanceWith
  <2>2. inst' \in [Sessions -> Instance']
    BY <1>t, <1>1, <2>1 DEF Types, Instance, Memos, Drawn
  <2>3. steps' \in 0 .. MaxSteps
    BY <1>t, <1>1, SaveAssumption DEF Types
  <2> QED BY <1>t, <1>1, <2>2, <2>3 DEF Types, Drawn
<1>5. \A t \in Sessions \ {s} : SitsOut(t)
  BY <1>t, <1>1 DEF SitsOut, Types
<1>6. pc'[s] = "have"
  BY <1>t, <1>1 DEF Types
<1>7. Loaded(s)' /\ Agrees(s)' /\ AwaitsPost(s)'
  BY <1>1, <1>3, <1>6, <1>s DEF Sound, Loaded, Agrees, AwaitsPost
<1>8. MemoOf(s)'
  BY <1>1, <1>3, <1>6, <1>s, NoMemo DEF Sound, MemoOf
<1> QED BY <1>1, <1>4, <1>5, <1>7, <1>8, SessionStep DEF Sound

LEMMA EditStep ==
  ASSUME IInv, NEW s \in Sessions, NEW v \in Value, Edit(s, v)
  PROVE  IInv'
<1>t. Types
  BY DEF IInv
<1>s. Sound(s)
  BY DEF IInv, SessionInv
<1>1. /\ UNCHANGED <<val, key, markers, keys, store, fields, mode, todo, failures,
                     writes, kept, slipped, badKeys>>
      /\ pc[s] = "have" /\ pc' = [pc EXCEPT ![s] = "have"]
      /\ steps < MaxSteps /\ steps' = steps + 1
      /\ inst' = [inst EXCEPT ![s] = [inst[s] EXCEPT !.name = v]]
      /\ differs' = [differs EXCEPT ![s] = @ \cup {"name"}]
  BY DEF Edit, Advance, dbVars
<1>2. inst[s] \in Instance /\ v # None
  BY <1>t, SaveAssumption DEF Types
<1>3. /\ inst'[s].name = v /\ inst'[s].b = inst[s].b
      /\ inst'[s].memo = inst[s].memo
  BY <1>t, <1>1, <1>2 DEF Types, Instance
<1>4. Types'
  <2>1. [inst[s] EXCEPT !.name = v] \in Instance
    BY <1>2, InstanceWith
  <2>2. inst' \in [Sessions -> Instance']
    BY <1>t, <1>1, <2>1 DEF Types, Instance, Memos, Drawn
  <2>3. steps' \in 0 .. MaxSteps
    BY <1>t, <1>1, SaveAssumption DEF Types
  <2>4. differs' \in [Sessions -> SUBSET {"name", "data"}]
    BY <1>t, <1>1 DEF Types
  <2> QED BY <1>t, <1>1, <2>2, <2>3, <2>4 DEF Types, Drawn
<1>5. \A t \in Sessions \ {s} : SitsOut(t)
  BY <1>t, <1>1 DEF SitsOut, Types
<1>6. pc'[s] = "have" /\ differs'[s] = differs[s] \cup {"name"}
  BY <1>t, <1>1 DEF Types
<1>7. Loaded(s)' /\ Agrees(s)' /\ AwaitsPost(s)'
  BY <1>1, <1>2, <1>3, <1>6, <1>s DEF Sound, Loaded, Agrees, AwaitsPost
<1>8. MemoOf(s)'
  BY <1>1, <1>3, <1>6, <1>s, NoMemo DEF Sound, MemoOf
<1> QED BY <1>1, <1>4, <1>5, <1>7, <1>8, SessionStep DEF Sound

LEMMA ForgetStep ==
  ASSUME IInv, NEW s \in Sessions, Forget(s)
  PROVE  IInv'
<1>t. Types
  BY DEF IInv
<1>1. /\ UNCHANGED <<val, key, markers, keys, store, fields, mode, todo, steps,
                     failures, writes, slipped, badKeys>>
      /\ pc' = [pc EXCEPT ![s] = "out"]
      /\ inst' = [inst EXCEPT ![s] = NoInstance]
      /\ differs' = [differs EXCEPT ![s] = {}]
      /\ kept' = [kept EXCEPT ![s] = {}]
  BY DEF Forget, dbVars
<1>2. /\ pc'[s] = "out" /\ inst'[s] = NoInstance
      /\ NoInstance.name = None /\ NoInstance.b = None
      /\ \A f \in Computed : NoInstance.memo[f] = None
  BY <1>t, <1>1 DEF Types, NoInstance
<1>3. Types'
  <2>1. inst' \in [Sessions -> Instance']
    BY <1>t, <1>1, NoInstanceType DEF Types, Instance, Memos, Drawn
  <2>2. /\ differs' \in [Sessions -> SUBSET {"name", "data"}]
        /\ kept' \in [Sessions -> SUBSET Computed]
        /\ pc' \in [Sessions -> {"out", "filling", "have", "pre", "post"}]
    BY <1>t, <1>1 DEF Types
  <2> QED BY <1>t, <1>1, <2>1, <2>2 DEF Types, Drawn
<1>4. \A t \in Sessions \ {s} : SitsOut(t)
  BY <1>t, <1>1 DEF SitsOut, Types
<1>5. Loaded(s)' /\ Agrees(s)' /\ AwaitsPost(s)'
  BY <1>2 DEF Loaded, Agrees, AwaitsPost
<1>6. MemoOf(s)'
  <2>1. {"upper", "letter", "key"} \subseteq Computed
    BY DEF Computed
  <2> QED BY <1>2, <2>1 DEF MemoOf
<1> QED BY <1>1, <1>3, <1>4, <1>5, <1>6, SessionStep DEF Sound

LEMMA SaveStep ==
  ASSUME IInv, NEW s \in Sessions, NEW F \in SUBSET Fields, NEW m \in Modes,
         Save(s, F, m)
  PROVE  IInv'
<1>t. Types
  BY DEF IInv
<1>s. Sound(s)
  BY DEF IInv, SessionInv
<1>1. /\ UNCHANGED <<val, key, markers, keys, store, inst, failures,
                     writes, differs, kept, slipped, badKeys>>
      /\ pc[s] = "have" /\ pc' = [pc EXCEPT ![s] = "pre"]
      /\ steps < MaxSteps /\ steps' = steps + 1
      /\ fields' = [fields EXCEPT ![s] = F]
      /\ mode' = [mode EXCEPT ![s] = m]
      /\ todo' = [todo EXCEPT ![s] = F \cap Computed]
  BY DEF Save, Advance, dbVars, historyVars
<1>2. Types'
  <2>1. inst' \in [Sessions -> Instance'] /\ Drawn' = Drawn
    BY <1>t, <1>1 DEF Types, Instance, Memos, Drawn
  <2>2. steps' \in 0 .. MaxSteps
    BY <1>t, <1>1, SaveAssumption DEF Types
  <2>3. /\ fields' \in [Sessions -> SUBSET Fields]
        /\ mode' \in [Sessions -> Modes \cup {None}]
        /\ todo' \in [Sessions -> SUBSET Computed]
        /\ pc' \in [Sessions -> {"out", "filling", "have", "pre", "post"}]
    BY <1>t, <1>1 DEF Types
  <2> QED BY <1>t, <1>1, <2>1, <2>2, <2>3 DEF Types
<1>3. \A t \in Sessions \ {s} : SitsOut(t)
  BY <1>t, <1>1 DEF SitsOut, Types
<1>4. /\ pc'[s] = "pre" /\ fields'[s] = F /\ todo'[s] = F \cap Computed
  BY <1>t, <1>1 DEF Types
<1>5. Loaded(s)' /\ Agrees(s)' /\ AwaitsPost(s)'
  BY <1>1, <1>4, <1>s DEF Sound, Loaded, Agrees, AwaitsPost
<1>6. MemoOf(s)'
  <2>1. \A f \in Computed \ kept[s] : inst[s].memo[f] = None
    BY <1>1, <1>s DEF Sound, MemoOf
  <2>2. {"upper", "letter", "key"} \subseteq Computed
    BY DEF Computed
  <2> QED BY <1>1, <1>4, <2>1, <2>2 DEF MemoOf
<1> QED BY <1>1, <1>2, <1>3, <1>5, <1>6, SessionStep DEF Sound

LEMMA SaveFailsStep ==
  ASSUME IInv, NEW s \in Sessions, SaveFails(s)
  PROVE  IInv'
<1>t. Types
  BY DEF IInv
<1>s. Sound(s)
  BY DEF IInv, SessionInv
<1>1. /\ UNCHANGED <<val, key, markers, keys, store, inst, fields, mode, todo, steps,
                     writes, differs, slipped, badKeys>>
      /\ pc[s] = "pre" /\ pc' = [pc EXCEPT ![s] = "have"]
      /\ failures < MaxFailures /\ failures' = failures + 1
      /\ kept' = [kept EXCEPT ![s] = @ \cup (fields[s] \cap Computed)]
  BY DEF SaveFails, dbVars
<1>2. Types'
  <2>1. inst' \in [Sessions -> Instance'] /\ Drawn' = Drawn
    BY <1>t, <1>1 DEF Types, Instance, Memos, Drawn
  <2>2. failures' \in 0 .. MaxFailures
    BY <1>t, <1>1, SaveAssumption DEF Types
  <2>3. /\ kept' \in [Sessions -> SUBSET Computed]
        /\ pc' \in [Sessions -> {"out", "filling", "have", "pre", "post"}]
    BY <1>t, <1>1 DEF Types
  <2> QED BY <1>t, <1>1, <2>1, <2>2, <2>3 DEF Types
<1>3. \A t \in Sessions \ {s} : SitsOut(t)
  BY <1>t, <1>1 DEF SitsOut, Types
<1>4. pc'[s] = "have" /\ kept'[s] = kept[s] \cup (fields[s] \cap Computed)
  BY <1>t, <1>1 DEF Types
<1>5. Loaded(s)' /\ Agrees(s)' /\ AwaitsPost(s)'
  BY <1>1, <1>4, <1>s DEF Sound, Loaded, Agrees, AwaitsPost
<1>6. MemoOf(s)'
  <2>1. \A f \in Computed \ kept'[s] : inst[s].memo[f] = None
    BY <1>4, <1>s DEF Sound, MemoOf
  <2>2. {"upper", "letter", "key"} \subseteq Computed
    BY DEF Computed
  <2> QED BY <1>1, <1>4, <2>1, <2>2 DEF MemoOf
<1> QED BY <1>1, <1>2, <1>3, <1>5, <1>6, SessionStep DEF Sound

(* pre_save of one field remembers what the function returns for the       *)
(* instance, or keeps what is there.                                       *)
LEMMA PreSaveSound ==
  ASSUME IInv, NEW s \in Sessions, pc[s] = "pre", NEW f \in todo[s],
         UNCHANGED <<val, pc[s], fields[s], kept[s], differs[s], slipped>>,
         todo'[s] = todo[s] \ {f},
         inst'[s].name = inst[s].name,
         inst'[s].b \in {inst[s].b, ReadB(s)}, inst[s].b # None => inst'[s].b = inst[s].b,
         \A k \in Drawn : store[k] # None => store'[k] = store[k],
         \A g \in Computed \ {f} : inst'[s].memo[g] = inst[s].memo[g],
         inst'[s].memo[f] # None,
         \/ inst'[s].memo[f] = inst[s].memo[f]
         \/ f = "upper" /\ inst'[s].memo[f] = inst[s].name
         \/ f = "letter" /\ inst'[s].memo[f] = inst'[s].b
         \/ f = "key" /\ inst'[s].b # None /\ store'[inst'[s].memo[f]] = inst'[s].b
  PROVE  Sound(s)'
<1>t. Types
  BY DEF IInv
<1>s. Sound(s)
  BY DEF IInv, SessionInv
<1>1. /\ inst[s].name # None /\ inst[s].b \in Value \cup {None}
      /\ inst[s].memo["key"] \in Drawn \cup {None}
      /\ {"upper", "letter", "key"} = Computed
  BY <1>t, <1>s, InstanceParts DEF Types, Sound, Loaded, Computed
<1>2. Loaded(s)' /\ AwaitsPost(s)'
  BY <1>1, <1>s DEF Sound, Loaded, AwaitsPost
<1>3. Agrees(s)'
  BY <1>s DEF Sound, Agrees, ReadB
<1>4. ASSUME NEW g \in Computed, inst'[s].memo[g] # None, g \notin kept[s]
      PROVE  g \in fields'[s] \ todo'[s]
  BY <1>4, <1>s, <1>t DEF Sound, MemoOf, Types
<1>5. \A g \in fields'[s] \cap Computed : g \in todo'[s] \/ inst'[s].memo[g] # None
  BY <1>s DEF Sound, MemoOf
<1>6. inst'[s].memo["upper"] \in {None, inst'[s].name} \/ "upper" \in kept'[s]
  BY <1>1, <1>s DEF Sound, MemoOf
<1>7. inst'[s].memo["letter"] \in {None, inst'[s].b} \/ "letter" \in kept'[s]
  BY <1>1, <1>s DEF Sound, MemoOf
<1>8. \/ inst'[s].memo["key"] = None \/ "key" \in kept'[s]
      \/ inst'[s].b # None /\ store'[inst'[s].memo["key"]] = inst'[s].b
  <2>1. CASE f = "key" /\ inst'[s].memo[f] # inst[s].memo[f]
    BY <2>1
  <2>2. CASE inst'[s].memo["key"] = inst[s].memo["key"]
    BY <1>1, <1>s, <2>2 DEF Sound, MemoOf
  <2> QED BY <1>1, <2>1, <2>2
<1>9. todo'[s] \subseteq fields'[s]
  BY <1>s DEF Sound, MemoOf
<1>10. MemoOf(s)'
  BY <1>4, <1>5, <1>6, <1>7, <1>8, <1>9 DEF MemoOf
<1> QED BY <1>2, <1>3, <1>10 DEF Sound

LEMMA PreSaveStep ==
  ASSUME IInv, NEW s \in Sessions, PreSave(s)
  PROVE  IInv'
<1>t. Types
  BY DEF IInv
<1>s. Sound(s)
  BY DEF IInv, SessionInv
<1>1. PICK f \in todo[s] :
        /\ todo' = [todo EXCEPT ![s] = @ \ {f}]
        /\ \/ inst[s].memo[f] # None /\ UNCHANGED <<inst, keys, store>>
           \/ inst[s].memo[f] = None /\ f = "upper" /\ PreSaveUpper(s)
           \/ inst[s].memo[f] = None /\ f = "letter" /\ PreSaveLetter(s)
           \/ inst[s].memo[f] = None /\ f = "key" /\ PreSaveKey(s)
  BY DEF PreSave
<1>2. /\ pc[s] = "pre"
      /\ UNCHANGED <<val, key, markers, pc, fields, mode, steps, failures, writes,
                     differs, kept, slipped, badKeys>>
  BY DEF PreSave, dbVars, historyVars
<1>3. /\ todo'[s] = todo[s] \ {f} /\ todo' \in [Sessions -> SUBSET Computed]
      /\ f \in Computed
  BY <1>t, <1>1 DEF Types
<1>4. /\ inst[s] \in Instance /\ inst[s].memo \in Memos
      /\ inst[s].name \in Value /\ inst[s].b \in Value \cup {None}
      /\ ReadB(s) \in Value /\ None \notin Value
      /\ inst[s].b # None => ReadB(s) = inst[s].b
      /\ "upper" \in Computed /\ "letter" \in Computed /\ "key" \in Computed
  <2>1. inst[s] \in Instance /\ val["data"] \in Value
    BY <1>t DEF Types
  <2>2. inst[s].name # None
    BY <1>2, <1>s DEF Sound, Loaded
  <2> QED BY <2>1, <2>2, InstanceParts, SaveAssumption DEF ReadB, Computed
<1>p. inst[s].memo \in [Computed -> UNION {Value, Drawn, {None}}]
  BY <1>4 DEF Memos, Computed
(* The instance has the memo m for f, and b; the keys may have grown.      *)
<1>g. ASSUME NEW m, NEW b \in {inst[s].b, ReadB(s)}, inst[s].b # None => b = inst[s].b,
             m # None,
             \/ m = inst[s].memo[f]
             \/ f = "upper" /\ m = inst[s].name
             \/ f = "letter" /\ m = b
             \/ f = "key" /\ b # None /\ store'[m] = b,
             inst' = [inst EXCEPT ![s] =
                        [inst[s] EXCEPT !.memo = [inst[s].memo EXCEPT ![f] = m], !.b = b]],
             \A k \in Drawn : store[k] # None => store'[k] = store[k],
             store'[key] = store[key],
             Types'
      PROVE  IInv'
  <2>1. /\ inst'[s].name = inst[s].name /\ inst'[s].b = b
        /\ inst'[s].memo = [inst[s].memo EXCEPT ![f] = m]
    BY <1>t, <1>4, <1>g DEF Types, Instance
  <2>2. /\ inst'[s].memo[f] = m
        /\ \A g \in Computed \ {f} : inst'[s].memo[g] = inst[s].memo[g]
    BY <1>3, <1>p, <2>1
  <2>3. Sound(s)'
    BY <1>2, <1>3, <1>g, <2>1, <2>2, PreSaveSound
  <2>4. \A t \in Sessions \ {s} : SitsOut(t)
    BY <1>t, <1>1, <1>2, <1>g DEF SitsOut, Types
  <2> QED BY <1>2, <1>g, <2>3, <2>4, SessionStep
(* Types when no key is drawn.                                             *)
<1>u. ASSUME UNCHANGED <<keys, store>>, inst' \in [Sessions -> Instance]
      PROVE  Types'
  <2>1. Instance' = Instance /\ Drawn' = Drawn
    BY <1>u DEF Instance, Memos, Drawn
  <2> QED BY <1>t, <1>2, <1>3, <1>u, <2>1 DEF Types
<1>5. CASE inst[s].memo[f] # None /\ UNCHANGED <<inst, keys, store>>
  <2>1. Types'
    BY <1>t, <1>5, <1>u DEF Types
  <2>2. Sound(s)'
    BY <1>2, <1>3, <1>5, PreSaveSound
  <2>3. \A t \in Sessions \ {s} : SitsOut(t)
    BY <1>t, <1>1, <1>2, <1>5 DEF SitsOut, Types
  <2> QED BY <1>2, <1>5, <2>1, <2>2, <2>3, SessionStep
<1>6. CASE f = "upper" /\ PreSaveUpper(s)
  <2>1. /\ inst' = [inst EXCEPT ![s] =
                        [inst[s] EXCEPT !.memo = [inst[s].memo EXCEPT ![f] = inst[s].name],
                                        !.b = inst[s].b]]
        /\ UNCHANGED <<keys, store>>
    <3>1. inst' = [inst EXCEPT ![s] =
                    [inst[s] EXCEPT !.memo = [inst[s].memo EXCEPT ![f] = inst[s].name]]]
      BY <1>6 DEF PreSaveUpper, Remember
    <3>2. [inst[s] EXCEPT !.memo = [inst[s].memo EXCEPT ![f] = inst[s].name]]
           = [inst[s] EXCEPT !.memo = [inst[s].memo EXCEPT ![f] = inst[s].name],
                             !.b = inst[s].b]
      BY <1>4 DEF Instance
    <3> QED BY <1>6, <3>1, <3>2 DEF PreSaveUpper
  <2>2. [inst[s] EXCEPT !.memo = [inst[s].memo EXCEPT ![f] = inst[s].name],
                        !.b = inst[s].b] \in Instance
    <3>1. [inst[s].memo EXCEPT ![f] = inst[s].name] \in Memos
      BY <1>4, <1>6, MemosWith
    <3> QED BY <1>4, <3>1 DEF Instance
  <2>3. Types'
    BY <1>t, <1>u, <2>1, <2>2 DEF Types
  <2> QED BY <1>4, <1>6, <1>g, <2>1, <2>3
<1>7. CASE f = "letter" /\ PreSaveLetter(s)
  <2>1. /\ inst' = [inst EXCEPT ![s] =
                        [inst[s] EXCEPT !.memo = [inst[s].memo EXCEPT ![f] = ReadB(s)],
                                        !.b = ReadB(s)]]
        /\ UNCHANGED <<keys, store>>
    BY <1>t, <1>7 DEF PreSaveLetter, Remember, Types
  <2>2. [inst[s] EXCEPT !.memo = [inst[s].memo EXCEPT ![f] = ReadB(s)],
                        !.b = ReadB(s)] \in Instance
    <3>1. [inst[s].memo EXCEPT ![f] = ReadB(s)] \in Memos
      BY <1>4, <1>7, MemosWith
    <3> QED BY <1>4, <3>1 DEF Instance
  <2>3. Types'
    BY <1>t, <1>u, <2>1, <2>2 DEF Types
  <2> QED BY <1>4, <1>7, <1>g, <2>1, <2>3
<1>8. CASE f = "key" /\ PreSaveKey(s)
  <2>1. /\ inst' = [inst EXCEPT ![s] =
                        [inst[s] EXCEPT !.memo = [inst[s].memo EXCEPT ![f] = keys'],
                                        !.b = ReadB(s)]]
        /\ keys < MaxKeys /\ keys' = keys + 1
        /\ store' = [store EXCEPT ![keys'] = ReadB(s)]
    BY <1>t, <1>8 DEF PreSaveKey, Remember, Types
  <2>k. /\ Drawn \subseteq Drawn' /\ keys' \in Drawn' /\ keys' \notin Drawn
        /\ Instance \subseteq Instance' /\ Memos \subseteq Memos'
        /\ keys' \in 1 .. MaxKeys /\ Drawn' \subseteq 1 .. MaxKeys /\ keys' # None
    BY <1>t, <2>1, DrawnGrows, SaveAssumption DEF Types, Drawn
  <2>2. [inst[s] EXCEPT !.memo = [inst[s].memo EXCEPT ![f] = keys'],
                        !.b = ReadB(s)] \in Instance'
    <3>1. [inst[s].memo EXCEPT ![f] = keys'] \in Memos'
      BY <1>4, <1>8, <2>k DEF Memos
    <3>2. inst[s] \in Instance'
      BY <1>4, <2>k
    <3> QED BY <1>4, <3>1, <3>2 DEF Instance
  <2>3. /\ store' \in [1 .. MaxKeys -> Value \cup {None}]
        /\ store'[keys'] = ReadB(s)
        /\ \A k \in Drawn : store'[k] = store[k]
        /\ \A k \in 1 .. MaxKeys : store'[k] # None => k \in Drawn'
    BY <1>t, <1>4, <2>1, <2>k DEF Types
  <2>4. Types'
    <3>1. inst' \in [Sessions -> Instance']
      BY <1>t, <2>1, <2>2, <2>k DEF Types
    <3>2. badKeys' \subseteq Drawn' /\ key' \in Drawn'
      BY <1>t, <1>2, <2>k DEF Types
    <3> QED BY <1>t, <1>2, <1>3, <2>k, <2>3, <3>1, <3>2 DEF Types
  <2>5. store'[key] = store[key] /\ ReadB(s) # None
    BY <1>t, <1>4, <2>3 DEF Types
  <2> QED BY <1>4, <1>8, <1>g, <2>1, <2>3, <2>4, <2>5, <2>k
<1> QED BY <1>1, <1>5, <1>6, <1>7, <1>8

-----------------------------------------------------------------------------
(* The UPDATE and its post_save *)

LEMMA MemosCleared ==
  ASSUME Types, NEW s \in Sessions, NEW i, i = ClearMemo(s, inst)
  PROVE  /\ i \in [Sessions -> Instance]
         /\ i[s].name = inst[s].name /\ i[s].b = inst[s].b /\ i[s].key = inst[s].key
         /\ \A f \in Computed : i[s].memo[f] = None
         /\ \A t \in Sessions \ {s} : i[t] = inst[t]
<1>1. inst \in [Sessions -> Instance] /\ inst[s] \in Instance
  BY DEF Types
<1>2. NoInstance.memo \in Memos /\ \A f \in Computed : NoInstance.memo[f] = None
  BY NoInstanceType, InstanceParts DEF NoInstance
<1>3. i = [inst EXCEPT ![s] = [inst[s] EXCEPT !.memo = NoInstance.memo]]
  BY DEF ClearMemo
<1>4. [inst[s] EXCEPT !.memo = NoInstance.memo] \in Instance
  BY <1>1, <1>2, InstanceWith
<1>5. i[s] = [inst[s] EXCEPT !.memo = NoInstance.memo]
  BY <1>1, <1>3
<1>6. /\ i[s].name = inst[s].name /\ i[s].b = inst[s].b /\ i[s].key = inst[s].key
      /\ i[s].memo = NoInstance.memo
  BY <1>1, <1>5 DEF Instance
<1> QED BY <1>1, <1>2, <1>3, <1>4, <1>6

LEMMA PostSaveStep ==
  ASSUME IInv, NEW s \in Sessions, PostSave(s)
  PROVE  IInv'
<1>t. Types
  BY DEF IInv
<1>s. Sound(s)
  BY DEF IInv, SessionInv
<1>1. /\ UNCHANGED <<val, key, keys, store, fields, mode, todo, steps, failures,
                     writes, differs, badKeys>>
      /\ pc[s] = "post" /\ pc' = [pc EXCEPT ![s] = "have"]
      /\ inst' = ClearMemo(s, inst)
      /\ markers' = markers \ Droppable(fields[s])
      /\ slipped' = slipped \cup {f \in Safe \cap fields[s] : Source[f] \in differs[s]}
      /\ kept' = [kept EXCEPT ![s] = {}]
  BY DEF PostSave
<1>2. /\ inst' \in [Sessions -> Instance]
      /\ inst'[s].name = inst[s].name /\ inst'[s].b = inst[s].b
      /\ \A f \in Computed : inst'[s].memo[f] = None
      /\ \A t \in Sessions \ {s} : inst'[t] = inst[t]
  BY <1>t, <1>1, MemosCleared
<1>3. Types'
  <2>1. Instance' = Instance /\ Drawn' = Drawn
    BY <1>1 DEF Instance, Memos, Drawn
  <2>2. /\ kept' \in [Sessions -> SUBSET Computed]
        /\ pc' \in [Sessions -> {"out", "filling", "have", "pre", "post"}]
        /\ markers' \subseteq {"upper", "letter"}
        /\ slipped' \subseteq {"upper", "letter"}
    BY <1>t, <1>1 DEF Types, Safe
  <2> QED BY <1>t, <1>1, <1>2, <2>1, <2>2 DEF Types
<1>4. pc'[s] = "have" /\ kept'[s] = {}
  BY <1>t, <1>1 DEF Types
<1>5. Stale("upper")' = Stale("upper") /\ Stale("letter")' = Stale("letter")
  BY <1>1 DEF Stale
<1>6. Sound(s)'
  <2>1. Loaded(s)' /\ Agrees(s)' /\ AwaitsPost(s)'
    BY <1>1, <1>2, <1>4, <1>s DEF Sound, Loaded, Agrees, AwaitsPost
  <2>2. MemoOf(s)'
    <3>1. {"upper", "letter", "key"} \subseteq Computed
      BY DEF Computed
    <3> QED BY <1>2, <1>4, <3>1 DEF MemoOf
  <2> QED BY <2>1, <2>2 DEF Sound
<1>7. ASSUME NEW t \in Sessions \ {s}
      PROVE  Sound(t)'
  <2>1. /\ pc'[t] = pc[t] /\ inst'[t] = inst[t] /\ kept'[t] = kept[t]
    BY <1>t, <1>1, <1>2 DEF Types
  <2>2. Calm(t)
    BY <1>1, <1>5, <2>1 DEF Calm
  <2> QED BY <1>t, <2>2, CalmKeeps DEF IInv, SessionInv
<1>8. StaleForCause'
  <2>1. ASSUME Stale("upper")
        PROVE  "upper" \in markers' \/ "upper" \in slipped'
    <3>1. CASE "upper" \in fields[s]
      <4>1. "name" \in differs[s] \/ "upper" \in slipped
        BY <1>1, <1>s, <2>1, <3>1 DEF Sound, AwaitsPost
      <4>2. Source["upper"] = "name"
        BY DEF Source
      <4> QED BY <1>1, <3>1, <4>1, <4>2 DEF Safe
    <3>2. CASE "upper" \notin fields[s]
      BY <1>1, <2>1, <3>2 DEF IInv, StaleForCause, Droppable
    <3> QED BY <3>1, <3>2
  <2>2. ASSUME Stale("letter")
        PROVE  "letter" \in markers' \/ "letter" \in slipped'
    BY <1>1, <2>2 DEF IInv, StaleForCause, Droppable, Safe
  <2> QED BY <1>5, <2>1, <2>2 DEF StaleForCause
<1>9. CachedForCause'
  BY <1>1 DEF IInv, CachedForCause
<1> QED BY <1>3, <1>6, <1>7, <1>8, <1>9 DEF IInv, SessionInv

(* What the UPDATE writes into the columns.                                *)
LEMMA WrittenColumns ==
  ASSUME IInv, NEW s \in Sessions, pc[s] = "pre", todo[s] = {},
         NEW new, new = Written(s)
  PROVE  /\ new \in [Columns -> Value]
         /\ new["name"] = IF "name" \in fields[s] THEN inst[s].name ELSE val["name"]
         /\ new["upper"] = IF "upper" \in fields[s] THEN inst[s].memo["upper"]
                                                    ELSE val["upper"]
         /\ new["letter"] = IF "letter" \in fields[s] THEN inst[s].memo["letter"]
                                                      ELSE val["letter"]
         /\ new["data"] = val["data"]
         /\ \A f \in fields[s] \cap Computed : inst[s].memo[f] # None
<1>t. Types
  BY DEF IInv
<1>s. Loaded(s) /\ MemoOf(s)
  BY DEF IInv, SessionInv, Sound
<1>1. \A f \in fields[s] \cap Computed : inst[s].memo[f] # None
  BY <1>s DEF MemoOf
<1>2. inst[s].name \in Value
  BY <1>t, <1>s, InstanceParts DEF Types, Loaded
<1>3. /\ "upper" \in fields[s] => inst[s].memo["upper"] \in Value
      /\ "letter" \in fields[s] => inst[s].memo["letter"] \in Value
  <2>1. "upper" \in Computed /\ "letter" \in Computed
    BY DEF Computed
  <2> QED BY <1>t, <1>1, <2>1, InstanceParts DEF Types
<1>4. DOMAIN val = Columns /\ val \in [Columns -> Value] /\ "data" \notin fields[s]
  BY <1>t DEF Types, Columns, Fields, Computed
<1>5. new = [c \in Columns |->
               IF c \notin fields[s] THEN val[c]
               ELSE IF c = "name" THEN inst[s].name ELSE inst[s].memo[c]]
  BY <1>4 DEF Written
<1>6. /\ DOMAIN new = Columns
      /\ new["name"] = IF "name" \in fields[s] THEN inst[s].name ELSE val["name"]
      /\ new["upper"] = IF "upper" \in fields[s] THEN inst[s].memo["upper"]
                                                 ELSE val["upper"]
      /\ new["letter"] = IF "letter" \in fields[s] THEN inst[s].memo["letter"]
                                                   ELSE val["letter"]
      /\ new["data"] = val["data"]
  BY <1>4, <1>5 DEF Columns
<1>7. \A c \in Columns : new[c] \in Value
  BY <1>2, <1>3, <1>4, <1>6 DEF Columns
<1>8. new \in [Columns -> Value]
  BY <1>5, <1>7
<1> QED BY <1>1, <1>6, <1>8

LEMMA UpdateStep ==
  ASSUME IInv, NEW s \in Sessions, Update(s)
  PROVE  IInv'
<1>t. Types
  BY DEF IInv
<1>s. Loaded(s) /\ Agrees(s) /\ MemoOf(s)
  BY DEF IInv, SessionInv, Sound
<1> DEFINE changed == {c \in DOMAIN val : val'[c] # val[c]} \cup (fields[s] \cap {"key"})
           outdated(f) == Source[f] \in differs[s] \ fields[s] \/ f \in kept[s]
           written == fields[s] \cap Computed
           bad == {f \in written : outdated(f)}
           marked == markers \cup FiredBy(changed)
           others(t) == IF inst[t].name # None THEN changed \cap {"name"} ELSE {}
<1>1. /\ pc[s] = "pre" /\ todo[s] = {}
      /\ val' = Written(s)
      /\ key' = IF "key" \in fields[s] THEN inst[s].memo["key"] ELSE key
      /\ slipped' = (slipped \ written) \cup ((bad \ {"key"}) \ (marked \ (Safe \cap written)))
      /\ badKeys' = badKeys \cup {inst[s].memo["key"] : f \in bad \cap {"key"}}
      /\ \/ /\ markers' = marked \ Droppable(fields[s])
            /\ inst' = ClearMemo(s, inst)
            /\ kept' = [kept EXCEPT ![s] = {}]
            /\ pc' = [pc EXCEPT ![s] = "have"]
         \/ /\ markers' = marked
            /\ pc' = [pc EXCEPT ![s] = "post"]
            /\ UNCHANGED <<inst, kept>>
      /\ differs' = [t \in Sessions |->
              IF t = s THEN differs[s] \ fields[s] ELSE differs[t] \cup others(t)]
      /\ UNCHANGED <<keys, store, fields, mode, todo, steps, failures, writes>>
  BY DEF Update
<1>2. /\ val' \in [Columns -> Value]
      /\ val'["name"] = IF "name" \in fields[s] THEN inst[s].name ELSE val["name"]
      /\ val'["upper"] = IF "upper" \in fields[s] THEN inst[s].memo["upper"]
                                                   ELSE val["upper"]
      /\ val'["letter"] = IF "letter" \in fields[s] THEN inst[s].memo["letter"]
                                                     ELSE val["letter"]
      /\ val'["data"] = val["data"]
      /\ \A f \in fields[s] \cap Computed : inst[s].memo[f] # None
  BY <1>1, WrittenColumns
<1>3. /\ Source["upper"] = "name" /\ Source["letter"] = "data" /\ Source["key"] = "data"
      /\ "upper" \in Computed /\ "letter" \in Computed /\ "key" \in Computed
      /\ "data" \notin fields[s]
      /\ inst[s] \in Instance /\ inst[s].name # None
  BY <1>t, <1>s, <1>1 DEF Source, Computed, Fields, Types, Loaded
<1>4. /\ marked \subseteq {"upper", "letter"} /\ markers \subseteq marked
      /\ val'["name"] # val["name"] => "name" \in changed /\ "upper" \in marked
  <2>1. DOMAIN val = Columns /\ "name" \in Columns
    BY <1>t DEF Types, Columns
  <2>2. val'["name"] # val["name"] => "name" \in changed
    BY <2>1
  <2> HIDE DEF changed
  <2>3. "name" \in changed => "upper" \in FiredBy(changed)
    BY DEF FiredBy
  <2> QED BY <1>t, <2>2, <2>3, FiredByIsLocal DEF Types
<1> HIDE DEF marked
(* What an instance that agrees with the database writes is fresh.         *)
<1>5. ASSUME "upper" \in fields[s], Stale("upper")'
      PROVE  "upper" \in slipped'
  <2>1. inst[s].memo["upper"] # inst[s].name \/ val'["name"] # inst[s].name
    BY <1>2, <1>5, <1>3 DEF Stale
  <2>2. outdated("upper")
    BY <1>2, <1>3, <1>s, <1>5, <2>1 DEF MemoOf, Agrees
  <2>3. "upper" \in bad
    BY <1>3, <1>5, <2>2
  <2> QED BY <1>1, <1>3, <1>5, <2>3 DEF Safe
<1>6. ASSUME "letter" \in fields[s], Stale("letter")'
      PROVE  "letter" \in slipped' \/ "letter" \in marked
  <2>1. inst[s].memo["letter"] # val["data"] /\ inst[s].memo["letter"] # None
    BY <1>2, <1>5, <1>3, <1>6 DEF Stale
  <2>2. outdated("letter")
    BY <1>3, <1>s, <2>1 DEF MemoOf, Agrees
  <2>3. "letter" \in bad
    BY <1>3, <1>6, <2>2
  <2> QED BY <1>1, <2>3
<1>7. StaleForCause'
  <2>1. \A d \in {"letter"} \cup ({"upper"} \ fields[s]) : d \in marked => d \in markers'
    BY <1>1 DEF Droppable, Safe
  <2>2. ASSUME Stale("upper")'
        PROVE  "upper" \in markers' \/ "upper" \in slipped'
    <3>1. CASE "upper" \in fields[s]
      BY <1>5, <2>2, <3>1
    <3>2. CASE "upper" \notin fields[s] /\ val'["name"] = val["name"]
      <4>1. Stale("upper")
        BY <1>2, <1>3, <2>2, <3>2 DEF Stale
      <4>2. "upper" \in markers \/ "upper" \in slipped
        BY <4>1 DEF IInv, StaleForCause
      <4> QED BY <1>1, <1>4, <2>1, <3>2, <4>2
    <3>3. CASE "upper" \notin fields[s] /\ val'["name"] # val["name"]
      BY <1>4, <2>1, <3>3
    <3> QED BY <3>1, <3>2, <3>3
  <2>3. ASSUME Stale("letter")'
        PROVE  "letter" \in markers' \/ "letter" \in slipped'
    <3>1. CASE "letter" \in fields[s]
      BY <1>6, <2>1, <2>3, <3>1
    <3>2. CASE "letter" \notin fields[s]
      <4>1. Stale("letter")
        BY <1>2, <1>3, <2>3, <3>2 DEF Stale
      <4>2. "letter" \in markers \/ "letter" \in slipped
        BY <4>1 DEF IInv, StaleForCause
      <4> QED BY <1>1, <1>4, <2>1, <3>2, <4>2
    <3> QED BY <3>1, <3>2
  <2> QED BY <2>2, <2>3 DEF StaleForCause
<1>8. CachedForCause'
  <2>1. CASE "key" \notin fields[s]
    BY <1>1, <1>2, <2>1 DEF IInv, CachedForCause
  <2>2. CASE "key" \in fields[s] /\ outdated("key")
    <3>1. "key" \in bad
      BY <1>3, <2>2
    <3> QED BY <1>1, <2>2, <3>1 DEF CachedForCause
  <2>3. CASE "key" \in fields[s] /\ ~outdated("key")
    <3>1. inst[s].memo["key"] # None /\ "key" \notin kept[s] /\ "data" \notin differs[s]
      BY <1>2, <1>3, <2>3
    <3>2. store[inst[s].memo["key"]] = val["data"]
      BY <1>s, <3>1 DEF MemoOf, Agrees
    <3> QED BY <1>1, <1>2, <2>3, <3>2 DEF CachedForCause
  <2> QED BY <2>1, <2>2, <2>3
<1>9. Types'
  <2>1. inst' \in [Sessions -> Instance]
    BY <1>t, <1>1, MemosCleared DEF Types
  <2>2. Instance' = Instance /\ Drawn' = Drawn
    BY <1>1 DEF Instance, Memos, Drawn
  <2>3. "key" \in fields[s] => inst[s].memo["key"] \in Drawn
    BY <1>2, <1>3, InstanceParts
  <2>4. key' \in Drawn /\ badKeys' \subseteq Drawn
    BY <1>t, <1>1, <2>3 DEF Types
  <2>5. markers' \subseteq {"upper", "letter"} /\ slipped' \subseteq {"upper", "letter"}
    BY <1>t, <1>1, <1>4 DEF Types, Computed
  <2>6. /\ kept' \in [Sessions -> SUBSET Computed]
        /\ pc' \in [Sessions -> {"out", "filling", "have", "pre", "post"}]
    BY <1>t, <1>1 DEF Types
  <2>7. differs' \in [Sessions -> SUBSET {"name", "data"}]
    <3>1. \A t \in Sessions : others(t) \subseteq {"name", "data"}
      OBVIOUS
    <3> QED BY <1>t, <1>1, <3>1 DEF Types
  <2> QED BY <1>t, <1>1, <1>2, <2>1, <2>2, <2>4, <2>5, <2>6, <2>7 DEF Types, Columns
<1>10. Sound(s)'
  <2>0. differs'[s] = differs[s] \ fields[s]
    BY <1>1
  <2>1. CASE pc' = [pc EXCEPT ![s] = "have"] /\ inst' = ClearMemo(s, inst)
             /\ kept' = [kept EXCEPT ![s] = {}]
    <3>1. /\ inst'[s].name = inst[s].name /\ inst'[s].b = inst[s].b
          /\ \A f \in Computed : inst'[s].memo[f] = None
      BY <1>t, <2>1, MemosCleared
    <3>2. pc'[s] = "have" /\ kept'[s] = {}
      BY <1>t, <2>1 DEF Types
    <3>3. Loaded(s)' /\ AwaitsPost(s)'
      BY <1>3, <3>1, <3>2 DEF Loaded, AwaitsPost
    <3>4. Agrees(s)'
      BY <1>2, <1>3, <1>s, <2>0, <3>1 DEF Agrees
    <3>5. MemoOf(s)'
      BY <1>3, <3>1, <3>2 DEF MemoOf
    <3> QED BY <3>3, <3>4, <3>5 DEF Sound
  <2>2. CASE pc' = [pc EXCEPT ![s] = "post"] /\ UNCHANGED <<inst, kept>>
    <3>2. pc'[s] = "post"
      BY <1>t, <2>2 DEF Types
    <3>3. Loaded(s)'
      BY <1>1, <1>3, <2>2, <3>2 DEF Loaded
    <3>4. Agrees(s)'
      BY <1>2, <1>3, <1>s, <2>0, <2>2 DEF Agrees
    <3>5. MemoOf(s)'
      BY <1>1, <1>s, <2>2, <3>2 DEF MemoOf
    <3>6. AwaitsPost(s)'
      BY <1>1, <1>5 DEF AwaitsPost
    <3> QED BY <3>3, <3>4, <3>5, <3>6 DEF Sound
  <2> QED BY <1>1, <2>1, <2>2
<1>11. ASSUME NEW t \in Sessions \ {s}
       PROVE  Sound(t)'
  <2>1. /\ pc'[t] = pc[t] /\ kept'[t] = kept[t] /\ fields'[t] = fields[t]
        /\ todo'[t] = todo[t]
    BY <1>t, <1>1 DEF Types
  <2>2. inst'[t] = inst[t]
    BY <1>t, <1>1, MemosCleared
  <2>3. differs'[t] = differs[t] \cup others(t)
    BY <1>1
  <2>4. val'["name"] = val["name"] \/ inst[t].name = None \/ "name" \in differs'[t]
    BY <1>4, <2>3
  <2>5. Stale("upper")' => \/ Stale("upper") \/ "upper" \in slipped'
                           \/ val'["name"] # val["name"]
    <3>1. CASE "upper" \in fields[s]
      BY <1>5, <3>1
    <3>2. CASE "upper" \notin fields[s]
      BY <1>2, <1>3, <3>2 DEF Stale
    <3> QED BY <3>1, <3>2
  <2>6. "upper" \in slipped => "upper" \in slipped' \/ ~Stale("upper")'
    <3>1. CASE "upper" \in fields[s]
      BY <1>5, <3>1
    <3>2. CASE "upper" \notin fields[s]
      BY <1>1, <3>2
    <3> QED BY <3>1, <3>2
  <2>7. Calm(t)
    BY <1>1, <1>2, <2>1, <2>2, <2>3, <2>4, <2>5, <2>6 DEF Calm
  <2> QED BY <1>t, <2>7, CalmKeeps DEF IInv, SessionInv
<1> QED BY <1>7, <1>8, <1>9, <1>10, <1>11 DEF IInv, SessionInv

-----------------------------------------------------------------------------

LEMMA InitHolds == Init => IInv
<1> SUFFICES ASSUME Init
             PROVE  IInv
  OBVIOUS
<1>1. ASSUME NEW s \in Sessions
      PROVE  Sound(s)
  <2>1. /\ pc[s] = "out" /\ inst[s] = NoInstance
        /\ NoInstance.name = None /\ NoInstance.b = None
        /\ \A f \in Computed : NoInstance.memo[f] = None
        /\ {"upper", "letter", "key"} \subseteq Computed
    BY DEF Init, NoInstance, Computed
  <2>2. Loaded(s) /\ Agrees(s) /\ AwaitsPost(s)
    BY <2>1 DEF Loaded, Agrees, AwaitsPost
  <2>3. MemoOf(s)
    BY <2>1 DEF MemoOf
  <2> QED BY <2>2, <2>3 DEF Sound
<1>2. StaleForCause
  BY DEF Init, StaleForCause, Stale, Source
<1>3. CachedForCause
  BY SaveAssumption DEF Init, CachedForCause
<1> QED BY InitTypes, <1>1, <1>2, <1>3 DEF IInv, SessionInv

LEMMA StutterKeeps ==
  ASSUME IInv, UNCHANGED vars
  PROVE  IInv'
<1>1. /\ UNCHANGED <<val, key, markers, keys, store, pc, inst, fields, mode, todo>>
      /\ UNCHANGED <<steps, failures, writes, differs, kept, slipped, badKeys>>
  BY DEF vars, dbVars, sessionVars, historyVars
<1>2. Types'
  BY <1>1 DEF IInv, Types, Instance, Memos, Drawn
<1>3. SessionInv'
  BY <1>1 DEF IInv, SessionInv, Sound, Loaded, Agrees, MemoOf, AwaitsPost, Stale
<1>4. StaleForCause' /\ CachedForCause'
  BY <1>1 DEF IInv, StaleForCause, CachedForCause, Stale
<1> QED BY <1>2, <1>3, <1>4 DEF IInv

LEMMA StepHolds ==
  ASSUME IInv, [Next]_vars
  PROVE  IInv'
<1>1. ASSUME NEW v \in Value, UpdateName(v)
      PROVE  IInv'
  BY <1>1, UpdateNameStep
<1>2. ASSUME NEW v \in Value, UpdateData(v)
      PROVE  IInv'
  BY <1>2, UpdateDataStep
<1>3. CASE Flush
  BY <1>3, FlushStep
<1>4. ASSUME NEW s \in Sessions,
             Load(s) \/ Fill(s) \/ Follow(s) \/ Forget(s)
               \/ PreSave(s) \/ Update(s) \/ PostSave(s) \/ SaveFails(s)
      PROVE  IInv'
  BY <1>4, LoadStep, FillStep, FollowStep, ForgetStep, PreSaveStep, UpdateStep,
     PostSaveStep, SaveFailsStep
<1>5. ASSUME NEW s \in Sessions, NEW v \in Value, Edit(s, v)
      PROVE  IInv'
  BY <1>5, EditStep
<1>6. ASSUME NEW s \in Sessions, NEW F \in {Fields, {"name"}, {"upper"}, {"letter"}},
             NEW m \in Modes, Save(s, F, m)
      PROVE  IInv'
  <2>1. F \in SUBSET Fields
    BY DEF Fields, Computed
  <2> QED BY <1>6, <2>1, SaveStep
<1>7. CASE UNCHANGED vars
  BY <1>7, StutterKeeps
<1> QED BY <1>1, <1>2, <1>3, <1>4, <1>5, <1>6, <1>7 DEF Next

(* The inductive invariant holds in every state: what an instance has in   *)
(* memory and what pre_save has remembered on it is what the database has, *)
(* or the history names the difference (fields.py:112-175).                *)
THEOREM SaveInvariant == Spec => []IInv
<1>1. Init => IInv
  BY InitHolds
<1>2. IInv /\ [Next]_vars => IInv'
  BY StepHolds
<1> QED BY <1>1, <1>2, PTL DEF Spec

(* Types, and no memo outlives a save that has come to its post_save       *)
(* (fields.py:105-110).                                                    *)
THEOREM SaveTypeCorrect == Spec => []TypeOK
<1>1. IInv => TypeOK
  BY DEF IInv, SessionInv, Sound, MemoOf, TypeOK
<1> QED BY <1>1, SaveInvariant, PTL

(* A column that does not hold what its function returns is marked dirty,  *)
(* unless an outdated instance or a failed save has written it, or its     *)
(* marker fell to the post_save of such a save (fields.py:76-101).         *)
THEOREM StaleOnlyForCause == Spec => []StaleForCause
<1>1. IInv => StaleForCause
  BY DEF IInv
<1> QED BY <1>1, SaveInvariant, PTL

(* The cache has nothing but the right value under the key of the row,     *)
(* unless the key came from an instance that had read its related row      *)
(* before that changed, or from a failed save (fields.py:434-444).         *)
THEOREM CachedOnlyForCause == Spec => []CachedForCause
<1>1. IInv => CachedForCause
  BY DEF IInv
<1> QED BY <1>1, SaveInvariant, PTL
=============================================================================
