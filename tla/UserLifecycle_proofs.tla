------------------------ MODULE UserLifecycle_proofs ------------------------
(***************************************************************************)
(* Theorems about the account handlers, for every set of processes, names, *)
(* addresses, ports and failures.                                          *)
(***************************************************************************)
EXTENDS UserLifecycle, TLAPS

-----------------------------------------------------------------------------
(* Types.  TypeOK needs to know that a create has chosen its resources and a *)
(* reinstall from a share code the name of its clone.                        *)

ClonePcs == {"sh_delete", "sh_rename"}

StoreType ==
    /\ users  \in [Names -> Row \cup {None}]
    /\ inst   \in [Names -> Slots \cup {None}]
    /\ clones \in [Names -> [Suffixes -> Slots \cup {None}]]
    /\ files  \in [Names -> Rule \cup {None}]
    /\ live   \in [Names -> Rule \cup {None}]
    /\ direct \in BOOLEAN
LocalsType ==
    /\ pc  \in [Procs -> Pcs]
    /\ ctx \in [Procs -> Ctx]
    /\ \A p \in Procs : pc[p] \in AddPcs =>
          ctx[p].name \in Names /\ ctx[p].slot \in Slots /\ ctx[p].port \in Ports
    /\ \A p \in Procs : pc[p] \in ClonePcs => ctx[p].sfx \in Suffixes
TypeInv == StoreType /\ LocalsType

\* The points of the handlers at which LocalsType asks for nothing.
PlainPcs == Pcs \ (AddPcs \cup ClonePcs)

LEMMA PlainPoints ==
    /\ CleanPcs \cup DelPcs \cup RePcs \cup V4Pcs \subseteq PlainPcs
    /\ {"idle", "sh_mark", "sh_clone", "sh_provision", "sh_undo_clone"} \subseteq PlainPcs
  BY DEF PlainPcs, Pcs, AddPcs, ClonePcs, CleanPcs, DelPcs, RePcs, SharePcs, V4Pcs

\* The control part of a step into a plain point keeps the locals' type.
LEMMA PlainStep ==
    ASSUME LocalsType, NEW p \in Procs, NEW l \in PlainPcs,
           \/ Goto(p, l)
           \/ \E c \in Ctx : Enter(p, l, c)
           \/ Return(p)
    PROVE  LocalsType'
  <1>1. NoCtx \in Ctx
    BY DEF NoCtx, Ctx
  <1>2. "idle" \in PlainPcs
    BY PlainPoints
  <1> QED
    BY <1>1, <1>2 DEF LocalsType, Goto, Enter, Return, PlainPcs

\* So does a step inside a create, or one after the clone of a share code.
LEMMA OwnStep ==
    ASSUME LocalsType, NEW p \in Procs, NEW l,
           Goto(p, l),
           \/ pc[p] \in AddPcs /\ l \in AddPcs
           \/ pc[p] \in ClonePcs /\ l \in ClonePcs
    PROVE  LocalsType'
  <1>1. AddPcs \cup ClonePcs \subseteq Pcs /\ AddPcs \cap ClonePcs = {}
    BY DEF Pcs, AddPcs, ClonePcs, SharePcs
  <1> QED
    BY <1>1 DEF LocalsType, Goto

\* Updates by users.id leave a table of rows.
LEMMA SetStatusType ==
    ASSUME StoreType, NEW i, NEW st \in Statuses
    PROVE  SetStatus(i, st) \in [Names -> Row \cup {None}]
  <1>1. ASSUME NEW n \in Names, Exists(n)
        PROVE  [users[n] EXCEPT !.status = st] \in Row
    BY <1>1 DEF StoreType, Exists, Row
  <1> QED
    BY <1>1 DEF StoreType, SetStatus

LEMMA DropRowType ==
    ASSUME StoreType, NEW i
    PROVE  DropRow(i) \in [Names -> Row \cup {None}]
  BY DEF StoreType, DropRow

\* The last write of a create or a reinstall.
LEMMA MarkReadyType ==
    ASSUME TypeInv, NEW p \in Procs, MarkReady(p)
    PROVE  TypeInv'
  <1> DEFINE i == ctx[p].id
  <1>1. /\ SetStatus(i, "ready") \in [Names -> Row \cup {None}]
        /\ SetStatus(i, "failed") \in [Names -> Row \cup {None}]
    BY SetStatusType DEF Statuses, TypeInv
  <1>2. StoreType'
    BY <1>1 DEF MarkReady, TypeInv, StoreType
  <1>3. LocalsType'
    BY PlainPoints, PlainStep DEF MarkReady, TypeInv
  <1> QED
    BY <1>2, <1>3 DEF TypeInv

\* The first write of a reinstall.
LEMMA MarkType ==
    ASSUME TypeInv, NEW p \in Procs, NEW l \in PlainPcs, Mark(p, l)
    PROVE  TypeInv'
  <1>1. SetStatus(ctx[p].id, "reinstalling") \in [Names -> Row \cup {None}]
    BY SetStatusType DEF Statuses, TypeInv
  <1>2. StoreType'
    BY <1>1 DEF Mark, TypeInv, StoreType
  <1>3. LocalsType'
    BY PlainStep DEF Mark, TypeInv
  <1> QED
    BY <1>2, <1>3 DEF TypeInv

\* A handler's first step: the locals it sets up are well typed.
LEMMA StartType ==
    ASSUME TypeInv, NEW p \in Procs, Start(p)
    PROVE  TypeInv'
  <1>1. StoreType'
    BY DEF Start, AddLookup, DelLookup, ReLookup, ShLookup, Lookup, V4List, store,
           TypeInv, StoreType
  <1>2. \A n \in Names : Exists(n) => users[n] \in Row
    BY DEF Exists, TypeInv, StoreType
  <1>3. ASSUME NEW n \in Names, AddLookup(p, n)
        PROVE  LocalsType'
    <2>1. PICK s \in Slots, q \in Ports :
             Enter(p, "add_conflict", [NoCtx EXCEPT !.name = n, !.slot = s, !.port = q])
      BY <1>3 DEF AddLookup
    <2> DEFINE c == [NoCtx EXCEPT !.name = n, !.slot = s, !.port = q]
    <2>2. c \in Ctx /\ c.name = n /\ c.slot = s /\ c.port = q
      BY DEF NoCtx, Ctx
    <2>3. "add_conflict" \in Pcs \ ClonePcs
      BY DEF Pcs, AddPcs, ClonePcs
    <2> HIDE DEF c
    <2> QED
      BY <2>1, <2>2, <2>3 DEF c, Enter, LocalsType, TypeInv
  <1>4. ASSUME NEW n \in Names, DelLookup(p, n)
        PROVE  LocalsType'
    <2>1. [NoCtx EXCEPT !.name = n, !.id = users[n].id] \in Ctx
      BY <1>2, <1>4 DEF DelLookup, NoCtx, Ctx, Row
    <2>2. "del_instance" \in PlainPcs
      BY PlainPoints DEF DelPcs
    <2> QED
      BY <1>4, <2>1, <2>2, PlainStep DEF DelLookup, TypeInv
  <1>5. ASSUME NEW n \in Names, NEW l \in {"re_mark", "sh_mark"}, Lookup(p, n, l)
        PROVE  LocalsType'
    <2>1. [NoCtx EXCEPT !.name = n, !.id = users[n].id, !.slot = users[n].slot] \in Ctx
      BY <1>2, <1>5 DEF Lookup, NoCtx, Ctx, Row
    <2>2. l \in PlainPcs
      BY PlainPoints DEF RePcs
    <2> QED
      BY <1>5, <2>1, <2>2, PlainStep DEF Lookup, TypeInv
  <1>6. ASSUME V4List(p)
        PROVE  LocalsType'
    <2> DEFINE rows == {[name |-> n, slot |-> users[n].slot, port |-> users[n].port] :
                           n \in {m \in Names : Exists(m)}}
    <2>1. rows \in SUBSET [name: Names, slot: Slots, port: Ports]
      BY <1>2 DEF Row
    <2>2. \A want \in BOOLEAN : [NoCtx EXCEPT !.want = want, !.todo = rows] \in Ctx
      BY <2>1 DEF NoCtx, Ctx
    <2>3. "v4_user" \in PlainPcs
      BY PlainPoints DEF V4Pcs
    <2> QED
      BY <1>6, <2>2, <2>3, PlainStep DEF V4List, TypeInv
  <1>7. LocalsType'
    BY <1>3, <1>4, <1>5, <1>6 DEF Start, ReLookup, ShLookup
  <1> QED
    BY <1>1, <1>7 DEF TypeInv


\* Writing a rule file, whole or in part, keeps the files' type.
LEMMA RuleFileType ==
    ASSUME StoreType, NEW n, NEW r \in Rule,
           files' \in HalfWritten(n, r) \cup {files}
    PROVE  files' \in [Names -> Rule \cup {None}]
  BY DEF StoreType, HalfWritten

\* Add.
LEMMA AddType ==
    ASSUME TypeInv, NEW p \in Procs,
           \/ AddConflict(p) \/ AddLaunch(p) \/ AddProvision(p) \/ AddInsert(p)
           \/ AddForward(p) \/ AddReload(p) \/ AddReady(p)
    PROVE  TypeInv'
  <1> DEFINE n == ctx[p].name
             s == ctx[p].slot
             q == ctx[p].port
  <1>1. CASE AddReady(p)
    BY <1>1, MarkReadyType DEF AddReady
  <1>2. CASE ~AddReady(p)
    <2>1. pc[p] \in AddPcs
      BY <1>2 DEF AddConflict, AddLaunch, AddProvision, AddInsert, AddForward, AddReload, AddPcs
    <2>2. ctx[p] \in Ctx /\ n \in Names /\ s \in Slots /\ q \in Ports
      BY <2>1 DEF TypeInv, LocalsType
    <2>3. "idle" \in PlainPcs /\ "clean_delete" \in PlainPcs
      BY PlainPoints DEF CleanPcs
    <2>4. {"add_launch", "add_provision", "add_insert", "add_reload", "add_ready"} \subseteq AddPcs
      BY DEF AddPcs
    <2>5. CASE AddConflict(p)
      BY <2>1, <2>3, <2>4, <2>5, PlainStep, OwnStep DEF AddConflict, TypeInv, StoreType, store
    <2>6. CASE AddLaunch(p)
      <3>1. StoreType'
        BY <2>2, <2>6 DEF AddLaunch, TypeInv, StoreType
      <3>2. LocalsType'
        BY <2>1, <2>3, <2>4, <2>6, PlainStep, OwnStep DEF AddLaunch, TypeInv
      <3> QED
        BY <3>1, <3>2 DEF TypeInv
    <2>7. CASE AddProvision(p)
      BY <2>1, <2>3, <2>4, <2>7, PlainStep, OwnStep DEF AddProvision, TypeInv, StoreType, store
    <2>8. CASE AddInsert(p)
      <3>1. ASSUME NEW i \in FreshIds, users' = [users EXCEPT ![n] = NewRow(i, s, q)],
                   Enter(p, "add_forward", [ctx[p] EXCEPT !.id = i])
            PROVE  TypeInv'
        <4>1. i \in RowIds
          BY DEF FreshIds
        <4>2. NewRow(i, s, q) \in Row
          BY <2>2, <4>1 DEF NewRow, Row, Statuses
        <4>3. StoreType'
          BY <2>8, <3>1, <4>2 DEF AddInsert, TypeInv, StoreType
        <4> DEFINE c == [ctx[p] EXCEPT !.id = i]
        <4>4. c \in Ctx /\ c.name = n /\ c.slot = s /\ c.port = q
          BY <2>2, <4>1 DEF Ctx
        <4>5. "add_forward" \in Pcs \ ClonePcs
          BY DEF Pcs, AddPcs, ClonePcs
        <4>6. LocalsType'
          <5> HIDE DEF c
          <5> QED
            BY <2>2, <3>1, <4>4, <4>5 DEF c, Enter, LocalsType, TypeInv
        <4> QED
          BY <4>3, <4>6 DEF TypeInv
      <3>2. CASE Goto(p, "clean_delete") /\ UNCHANGED users
        BY <2>3, <2>8, <3>2, PlainStep DEF AddInsert, TypeInv, StoreType
      <3> QED
        BY <2>8, <3>1, <3>2 DEF AddInsert
    <2>9. CASE AddForward(p)
      <3>1. StoreType'
        <4>1. [slot |-> ctx[p].slot, port |-> ctx[p].port] \in Rule
          BY <2>2 DEF Rule
        <4>2. files' \in [Names -> Rule \cup {None}]
          <5>1. CASE UNCHANGED files
            BY <5>1 DEF TypeInv, StoreType
          <5> QED
            BY <2>9, <4>1, <5>1, RuleFileType DEF AddForward, HalfWritten, TypeInv
        <4> QED
          BY <2>9, <4>2 DEF AddForward, TypeInv, StoreType
      <3>2. LocalsType'
        BY <2>1, <2>3, <2>4, <2>9, PlainStep, OwnStep DEF AddForward, TypeInv
      <3> QED
        BY <3>1, <3>2 DEF TypeInv
    <2>10. CASE AddReload(p)
      BY <2>1, <2>3, <2>4, <2>10, PlainStep, OwnStep
         DEF AddReload, ReloadRules, TypeInv, StoreType
    <2> QED
      BY <1>2, <2>5, <2>6, <2>7, <2>8, <2>9, <2>10
  <1> QED
    BY <1>1, <1>2

\* The rollback of Add.
LEMMA CleanType ==
    ASSUME TypeInv, NEW p \in Procs,
           CleanDelete(p) \/ CleanRules(p) \/ CleanReload(p) \/ CleanRow(p)
    PROVE  TypeInv'
  <1>1. /\ {"clean_rules", "clean_reload", "clean_row"} \subseteq PlainPcs
        /\ "idle" \in PlainPcs
    BY PlainPoints DEF CleanPcs
  <1>2. [ctx[p] EXCEPT !.dirty = TRUE] \in Ctx
    BY DEF TypeInv, LocalsType, Ctx
  <1>3. StoreType'
    <2>1. Cleaned(ctx[p].id, ctx[p].dirty) \in [Names -> Row \cup {None}]
      BY SetStatusType, DropRowType DEF Cleaned, Statuses, TypeInv
    <2>2. CASE CleanDelete(p) \/ CleanRules(p) \/ CleanReload(p)
      BY <2>2 DEF CleanDelete, CleanRules, CleanReload, DeleteInstance, ReloadRules,
                  TypeInv, StoreType
    <2>3. CASE CleanRow(p)
      BY <2>1, <2>3 DEF CleanRow, TypeInv, StoreType
    <2> QED
      BY <2>2, <2>3
  <1>4. LocalsType'
    BY <1>1, <1>2, PlainStep DEF CleanDelete, CleanRules, CleanReload, CleanRow, TypeInv
  <1> QED
    BY <1>3, <1>4 DEF TypeInv

\* Del.
LEMMA DelType ==
    ASSUME TypeInv, NEW p \in Procs,
           DelInstance(p) \/ DelRules(p) \/ DelReload(p) \/ DelRow(p)
    PROVE  TypeInv'
  <1>1. DelPcs \cup {"idle"} \subseteq PlainPcs
    BY PlainPoints
  <1>2. StoreType'
    <2>1. DropRow(ctx[p].id) \in [Names -> Row \cup {None}]
      BY DropRowType DEF TypeInv
    <2> QED
      BY <2>1 DEF DelInstance, DelRules, DelReload, DelRow, DeleteInstance, ReloadRules,
                  TypeInv, StoreType
  <1>3. LocalsType'
    BY <1>1, PlainStep DEF DelInstance, DelRules, DelReload, DelRow, DelPcs, TypeInv
  <1> QED
    BY <1>2, <1>3 DEF TypeInv

\* Reinstall.
LEMMA ReType ==
    ASSUME TypeInv, NEW p \in Procs,
           \/ ReMark(p) \/ ReDelete(p) \/ ReLaunch(p) \/ ReProvision(p)
           \/ ReReady(p) \/ ReRollback(p) \/ ReFail(p)
    PROVE  TypeInv'
  <1>1. RePcs \cup {"idle"} \subseteq PlainPcs
    BY PlainPoints
  <1>2. CASE ReMark(p)
    BY <1>1, <1>2, MarkType DEF ReMark, RePcs
  <1>3. CASE ReReady(p)
    BY <1>3, MarkReadyType DEF ReReady
  <1>4. CASE ReDelete(p) \/ ReLaunch(p) \/ ReProvision(p) \/ ReRollback(p) \/ ReFail(p)
    <2>1. SetStatus(ctx[p].id, "failed") \in [Names -> Row \cup {None}]
      BY SetStatusType DEF Statuses, TypeInv
    <2>2. ctx[p].slot \in Slots \cup {None}
      BY DEF TypeInv, LocalsType, Ctx
    <2>3. StoreType'
      BY <1>4, <2>1, <2>2 DEF ReDelete, ReLaunch, ReProvision, ReRollback, ReFail,
                              DeleteInstance, store, TypeInv, StoreType
    <2>4. LocalsType'
      BY <1>1, <1>4, PlainStep DEF ReDelete, ReLaunch, ReProvision, ReRollback, ReFail,
                                   RePcs, TypeInv
    <2> QED
      BY <2>3, <2>4 DEF TypeInv
  <1> QED
    BY <1>2, <1>3, <1>4

\* ReinstallFromShare.
LEMMA ShareType ==
    ASSUME TypeInv, NEW p \in Procs,
           \/ ShMark(p) \/ ShClone(p) \/ ShDelete(p) \/ ShRename(p)
           \/ ShProvision(p) \/ ShUndoClone(p)
    PROVE  TypeInv'
  <1> DEFINE n == ctx[p].name
             s == ctx[p].slot
             CloneMap == [Names -> [Suffixes -> Slots \cup {None}]]
  <1>1. /\ {"sh_clone", "sh_provision", "sh_undo_clone"} \subseteq PlainPcs
        /\ {"re_fail", "re_rollback", "re_ready"} \subseteq PlainPcs
        /\ "sh_delete" \in ClonePcs /\ "sh_rename" \in ClonePcs
    BY PlainPoints DEF RePcs, ClonePcs
  <1>2. ctx[p] \in Ctx /\ s \in Slots \cup {None}
    BY DEF TypeInv, LocalsType, Ctx
  <1>3. \A x : \A r \in Slots \cup {None} : [clones EXCEPT ![n][x] = r] \in CloneMap
    BY DEF TypeInv, StoreType
  <1>4. CASE ShMark(p)
    BY <1>1, <1>4, MarkType DEF ShMark
  <1>5. CASE ShClone(p)
    <2>1. \/ UNCHANGED clones
          \/ \E x \in Suffixes, r \in {None, s} : clones' = [clones EXCEPT ![n][x] = r]
      BY <1>5 DEF ShClone
    <2>2. clones' \in CloneMap
      <3>1. ASSUME NEW x \in Suffixes, NEW r \in {None, s},
                   clones' = [clones EXCEPT ![n][x] = r]
            PROVE  clones' \in CloneMap
        <4>1. r \in Slots \cup {None}
          BY <1>2
        <4> HIDE DEF CloneMap, n, s
        <4> QED
          BY <1>3, <3>1, <4>1
      <3> QED
        BY <2>1, <3>1 DEF TypeInv, StoreType
    <2>3. StoreType'
      BY <1>5, <2>2 DEF ShClone, TypeInv, StoreType
    <2>4. CASE Goto(p, "re_fail")
      BY <1>1, <2>3, <2>4, PlainStep DEF TypeInv
    <2>5. ASSUME NEW x \in Suffixes, Enter(p, "sh_delete", [ctx[p] EXCEPT !.sfx = x])
          PROVE  LocalsType'
      <3> DEFINE c == [ctx[p] EXCEPT !.sfx = x]
      <3>1. c \in Ctx /\ c.sfx = x
        BY <1>2 DEF Ctx
      <3>2. "sh_delete" \in Pcs \ AddPcs
        BY DEF Pcs, SharePcs, AddPcs
      <3> HIDE DEF c
      <3> QED
        BY <2>5, <3>1, <3>2 DEF c, Enter, LocalsType, TypeInv
    <2> QED
      BY <1>5, <2>3, <2>4, <2>5 DEF ShClone, TypeInv
  <1>6. CASE ShDelete(p)
    <2>1. StoreType'
      BY <1>6 DEF ShDelete, DeleteInstance, TypeInv, StoreType
    <2>2. LocalsType'
      BY <1>1, <1>6, PlainStep, OwnStep DEF ShDelete, TypeInv
    <2> QED
      BY <2>1, <2>2 DEF TypeInv
  <1>7. CASE ShRename(p)
    <2> DEFINE x == ctx[p].sfx
    <2>1. \/ UNCHANGED <<inst, clones>>
          \/ /\ clones[n][x] # None
             /\ inst' = [inst EXCEPT ![n] = clones[n][x]]
             /\ clones' = [clones EXCEPT ![n][x] = None]
      BY <1>7 DEF ShRename
    <2>2. x \in Suffixes
      BY <1>1, <1>7 DEF ShRename, TypeInv, LocalsType
    <2>3. StoreType'
      <3>1. /\ inst \in [Names -> Slots \cup {None}]
            /\ clones \in CloneMap
            /\ [clones EXCEPT ![n][x] = None] \in CloneMap
        BY <1>3 DEF TypeInv, StoreType
      <3>2. inst' \in [Names -> Slots \cup {None}] /\ clones' \in CloneMap
        <4>1. CASE UNCHANGED <<inst, clones>>
          BY <3>1, <4>1
        <4>2. ASSUME inst' = [inst EXCEPT ![n] = clones[n][x]],
                     clones' = [clones EXCEPT ![n][x] = None]
              PROVE  inst' \in [Names -> Slots \cup {None}] /\ clones' \in CloneMap
          <5>1. n \in Names => clones[n][x] \in Slots \cup {None}
            BY <2>2, <3>1
          <5>2. ASSUME NEW r, n \in Names => r \in Slots \cup {None}
                PROVE  [inst EXCEPT ![n] = r] \in [Names -> Slots \cup {None}]
            BY <3>1, <5>2
          <5>3. clones' \in CloneMap
            BY <3>1, <4>2
          <5> QED
            BY <4>2, <5>1, <5>2, <5>3
        <4> QED
          BY <2>1, <4>1, <4>2
      <3> QED
        BY <1>7, <3>2 DEF ShRename, TypeInv, StoreType
    <2>4. LocalsType'
      BY <1>1, <1>7, PlainStep DEF ShRename, TypeInv
    <2> QED
      BY <2>3, <2>4 DEF TypeInv
  <1>8. CASE ShProvision(p) \/ ShUndoClone(p)
    <2>1. StoreType'
      <3>1. [clones EXCEPT ![n][ctx[p].sfx] = None] \in CloneMap
        BY <1>3
      <3> QED
        BY <1>8, <3>1 DEF ShProvision, ShUndoClone, store, TypeInv, StoreType
    <2>2. LocalsType'
      BY <1>1, <1>8, PlainStep DEF ShProvision, ShUndoClone, TypeInv
    <2> QED
      BY <2>1, <2>2 DEF TypeInv
  <1> QED
    BY <1>4, <1>5, <1>6, <1>7, <1>8

\* ApplyV4State.
LEMMA V4Type ==
    ASSUME TypeInv, NEW p \in Procs, V4User(p) \/ V4Reload(p) \/ V4Record(p)
    PROVE  TypeInv'
  <1>1. V4Pcs \cup {"idle"} \subseteq PlainPcs
    BY PlainPoints
  <1>2. \A u \in ctx[p].todo :
           /\ [slot |-> u.slot, port |-> u.port] \in Rule
           /\ [ctx[p] EXCEPT !.todo = @ \ {u}] \in Ctx
    BY DEF TypeInv, LocalsType, Ctx, Rule
  <1>3. StoreType'
    <2>1. ctx[p].want \in BOOLEAN
      BY DEF TypeInv, LocalsType, Ctx
    <2>2. CASE V4User(p)
      <3>1. files' \in [Names -> Rule \cup {None}]
        <4>1. files \in [Names -> Rule \cup {None}]
          BY DEF TypeInv, StoreType
        <4>2. ASSUME NEW u \in ctx[p].todo, NEW r \in Rule \cup {None},
                     files' = [files EXCEPT ![u.name] = r]
              PROVE  files' \in [Names -> Rule \cup {None}]
          BY <4>1, <4>2
        <4>3. \/ UNCHANGED files
              \/ \E u \in ctx[p].todo, r \in Rule \cup {None} :
                    files' = [files EXCEPT ![u.name] = r]
          BY <1>2, <2>2 DEF V4User, HalfWritten
        <4> QED
          BY <4>1, <4>2, <4>3
      <3> QED
        BY <2>2, <3>1 DEF V4User, TypeInv, StoreType
    <2>3. CASE V4Reload(p)
      BY <2>3 DEF V4Reload, ReloadRules, TypeInv, StoreType
    <2>4. CASE V4Record(p)
      BY <2>1, <2>4 DEF V4Record, TypeInv, StoreType
    <2> QED
      BY <2>2, <2>3, <2>4
  <1>4. LocalsType'
    BY <1>1, <1>2, PlainStep DEF V4User, V4Reload, V4Record, V4Pcs, TypeInv
  <1> QED
    BY <1>3, <1>4 DEF TypeInv

LEMMA TypeInductive == TypeInv /\ [Next]_vars => TypeInv'
  <1> SUFFICES ASSUME TypeInv, [Next]_vars PROVE TypeInv'
    OBVIOUS
  <1>1. CASE UNCHANGED vars
    BY <1>1 DEF vars, TypeInv, StoreType, LocalsType
  <1>2. ASSUME NEW p \in Procs, Start(p)
        PROVE  TypeInv'
    BY <1>2, StartType
  <1>3. ASSUME NEW p \in Procs, Continue(p)
        PROVE  TypeInv'
    BY <1>3, AddType, CleanType, DelType, ReType, ShareType, V4Type DEF Continue
  <1>4. ASSUME NEW p \in Procs, Crash(p)
        PROVE  TypeInv'
    BY <1>4, PlainPoints, PlainStep DEF Crash, store, TypeInv, StoreType
  <1> QED
    BY <1>1, <1>2, <1>3, <1>4 DEF Next

LEMMA TypeInitially == Init => TypeInv
  BY DEF Init, TypeInv, StoreType, LocalsType, NoCtx, Ctx, Pcs, AddPcs, ClonePcs

\* Type correctness: whatever the processes, the interleaving and the
\* failures, every store and every handler's locals hold values of their kind.
THEOREM TypeCorrect == Spec => []TypeOK
  <1>1. TypeInv => TypeOK
    BY DEF TypeInv, StoreType, LocalsType, TypeOK
  <1> QED
    BY <1>1, TypeInitially, TypeInductive, PTL DEF Spec

-----------------------------------------------------------------------------
(* One process (opMu): SafeInv is inductive.                                 *)

\* Where a step leaves the process that takes it.
LEMMA Lands ==
    ASSUME TypeInv, NEW p \in Procs, NEW l, NEW c
    PROVE  /\ Enter(p, l, c) => pc'[p] = l /\ ctx'[p] = c
           /\ Goto(p, l) => pc'[p] = l /\ ctx'[p] = ctx[p]
           /\ Return(p) => pc'[p] = "idle" /\ ctx'[p] = NoCtx
  BY DEF TypeInv, LocalsType, Enter, Goto, Return

\* A process is in one kind of handler, and without one, or in ApplyV4State,
\* it relies on nothing.
LEMMA Kinds ==
    ASSUME NEW p \in Procs
    PROVE  /\ pc'[p] \in {"idle"} \cup V4Pcs => Flight(p)'
           /\ pc'[p] \in AddPcs /\ AddFlight(p)' => Flight(p)'
           /\ pc'[p] \in CleanPcs /\ CleanFlight(p)' => Flight(p)'
           /\ pc'[p] \in DelPcs /\ DelFlight(p)' => Flight(p)'
           /\ pc'[p] \in RePcs \cup SharePcs /\ ReFlight(p)' => Flight(p)'
  <1>1. /\ AddPcs \cap CleanPcs = {} /\ AddPcs \cap DelPcs = {}
        /\ AddPcs \cap (RePcs \cup SharePcs) = {}
        /\ CleanPcs \cap DelPcs = {} /\ CleanPcs \cap (RePcs \cup SharePcs) = {}
        /\ DelPcs \cap (RePcs \cup SharePcs) = {}
    BY DEF AddPcs, CleanPcs, DelPcs, RePcs, SharePcs
  <1>2. \A l \in {"idle"} \cup V4Pcs :
           l \notin AddPcs \cup CleanPcs \cup DelPcs \cup RePcs \cup SharePcs
    BY DEF AddPcs, CleanPcs, DelPcs, RePcs, SharePcs, V4Pcs
  <1> QED
    BY <1>1, <1>2 DEF Flight, AddFlight, CleanFlight, DelFlight, ReFlight

\* Stores that only lose rows, containers and clones stay consistent.
LEMMA OnlyLosses ==
    ASSUME TypeInv, StoreInv,
           \A n \in Names : Exists(n)' =>
              Exists(n) /\ users'[n].slot = users[n].slot /\ users'[n].id = users[n].id,
           \A n \in Names : inst'[n] \in {inst[n], None},
           \A n \in Names : \A x \in Suffixes : clones'[n][x] \in {clones[n][x], None}
    PROVE  StoreInv'
  <1>1. None \notin Slots
    BY ConstantsAssumption
  <1>2. \A n \in Names, s \in Slots : Holds(n, s)' => Holds(n, s)
    BY <1>1 DEF Holds
  <1>3. AddressExclusive'
    BY <1>2 DEF StoreInv, AddressExclusive
  <1>4. OnOwnAddress' /\ IdsUnique'
    BY DEF StoreInv, OnOwnAddress, IdsUnique
  <1> QED
    BY <1>3, <1>4 DEF StoreInv

\* An update of a status changes nothing else, and only in the row of that id.
LEMMA SetStatusEffect ==
    ASSUME TypeInv, NEW i, NEW st \in Statuses, users' = SetStatus(i, st)
    PROVE  /\ \A n \in Names : Exists(n)' <=> Exists(n)
           /\ \A n \in Names : Exists(n) =>
                 /\ users'[n].slot = users[n].slot
                 /\ users'[n].id = users[n].id
                 /\ users[n].id = i => users'[n].status = st
                 /\ users[n].id # i => users'[n] = users[n]
  <1>1. ASSUME NEW n \in Names, Exists(n), users[n].id = i
        PROVE  /\ users'[n] = [users[n] EXCEPT !.status = st]
               /\ users[n] \in Row
    BY <1>1 DEF SetStatus, Exists, TypeInv, StoreType
  <1>2. ASSUME NEW n \in Names, Exists(n), users[n].id = i
        PROVE  /\ users'[n].slot = users[n].slot
               /\ users'[n].id = users[n].id
               /\ users'[n].status = st
               /\ users'[n] # None
    <2>1. users'[n] \in Row
      BY <1>1, <1>2 DEF Row
    <2>2. users'[n] # None
      BY <2>1, NoneAssumption
    <2> QED
      BY <1>1, <1>2, <2>2 DEF Row
  <1>3. ASSUME NEW n \in Names, ~(Exists(n) /\ users[n].id = i)
        PROVE  users'[n] = users[n]
    BY <1>3 DEF SetStatus
  <1> QED
    BY <1>2, <1>3 DEF Exists

\* A delete by id takes the row of that id and no other.
LEMMA DropRowEffect ==
    ASSUME TypeInv, NEW i, users' = DropRow(i)
    PROVE  /\ \A n \in Names : Exists(n)' <=> Exists(n) /\ users[n].id # i
           /\ \A n \in Names : Exists(n)' => users'[n] = users[n]
  BY DEF DropRow, Exists, TypeInv, StoreType

\* Nothing happened to rows, containers and clones.
LEMMA Untouched ==
    ASSUME StoreInv, UNCHANGED <<users, inst, clones>>
    PROVE  StoreInv'
  BY DEF StoreInv, AddressExclusive, OnOwnAddress, IdsUnique, Holds, Exists

\* A handler's first step.
LEMMA StartSafe ==
    ASSUME TypeInv, StoreInv, NEW p \in Procs, Start(p)
    PROVE  StoreInv' /\ Flight(p)'
  <1>1. StoreInv'
    BY Untouched DEF Start, AddLookup, DelLookup, ReLookup, ShLookup, Lookup, V4List, store
  <1>2. ASSUME NEW n \in Names, AddLookup(p, n)
        PROVE  Flight(p)'
    <2>1. PICK s \in Slots \ UsedSlots, q \in Ports :
             Enter(p, "add_conflict", [NoCtx EXCEPT !.name = n, !.slot = s, !.port = q])
      BY <1>2 DEF AddLookup
    <2>2. PICK c : c = [NoCtx EXCEPT !.name = n, !.slot = s, !.port = q]
      OBVIOUS
    <2>3. c.name = n /\ c.slot = s /\ c.port = q /\ c.id = None
      BY <2>2 DEF NoCtx
    <2>4. pc'[p] = "add_conflict" /\ ctx'[p] = c
      BY <2>1, <2>2, Lands
    <2>5. ~Exists(n)' /\ s \notin UsedSlots'
      BY <1>2 DEF AddLookup, store, Exists, UsedSlots
    <2> QED
      BY <2>3, <2>4, <2>5, Kinds DEF AddFlight, AddPcs
  <1>3. ASSUME NEW n \in Names, DelLookup(p, n)
        PROVE  Flight(p)'
    <2>1. PICK c : c = [NoCtx EXCEPT !.name = n, !.id = users[n].id]
      OBVIOUS
    <2>2. c.name = n /\ c.id = users[n].id
      BY <2>1 DEF NoCtx
    <2>3. pc'[p] = "del_instance" /\ ctx'[p] = c
      BY <1>3, <2>1, Lands DEF DelLookup
    <2>4. Exists(n)' /\ users' = users
      BY <1>3 DEF DelLookup, store, Exists
    <2> QED
      BY <2>2, <2>3, <2>4, Kinds DEF DelFlight, OwnRow, DelPcs
  <1>4. ASSUME NEW n \in Names, NEW l \in {"re_mark", "sh_mark"}, Lookup(p, n, l)
        PROVE  Flight(p)'
    <2>1. PICK c : c = [NoCtx EXCEPT !.name = n, !.id = users[n].id, !.slot = users[n].slot]
      OBVIOUS
    <2>2. c.name = n /\ c.id = users[n].id /\ c.slot = users[n].slot
      BY <2>1 DEF NoCtx
    <2>3. pc'[p] = l /\ ctx'[p] = c
      BY <1>4, <2>1, Lands DEF Lookup
    <2>4. Exists(n)' /\ users' = users
      BY <1>4 DEF Lookup, store, Exists
    <2> QED
      BY <2>2, <2>3, <2>4, Kinds DEF ReFlight, OwnRow, RePcs, SharePcs
  <1>5. ASSUME V4List(p)
        PROVE  Flight(p)'
    <2>1. pc'[p] = "v4_user"
      BY <1>5, Lands DEF V4List
    <2> QED
      BY <2>1, Kinds DEF V4Pcs
  <1> QED
    BY <1>1, <1>2, <1>3, <1>4, <1>5 DEF Start, ReLookup, ShLookup

\* Add up to the launch: the address is free when the conflict check passes.
LEMMA AddConflictSafe ==
    ASSUME TypeInv, StoreInv, NEW p \in Procs, Flight(p), AddConflict(p),
           NEW n, NEW s, n = ctx[p].name, s = ctx[p].slot
    PROVE  StoreInv' /\ Flight(p)'
  <1>1. StoreInv'
    BY Untouched DEF AddConflict, store
  <1>2. CASE Return(p)
    BY <1>1, <1>2, Lands, Kinds
  <1>3. CASE Goto(p, "add_launch") /\ ~Conflict(n, s)
    <2>1. pc'[p] = "add_launch" /\ ctx'[p] = ctx[p]
      BY <1>3, Lands
    <2>2. /\ n \in Names /\ s \in Slots /\ ctx[p].port \in Ports /\ ctx[p].id = None
          /\ ~Exists(n) /\ s \notin UsedSlots
      BY DEF AddConflict, Flight, AddFlight, AddPcs
    <2>3. inst[n] = None /\ \A m \in Names : ~Holds(m, s)
      BY <1>3, <2>2 DEF Conflict, Holds, UsedSlots
    <2>4. users' = users /\ inst' = inst /\ clones' = clones
      BY DEF AddConflict, store
    <2>5. ~Exists(n)' /\ inst'[n] = None /\ \A m \in Names : ~Holds(m, s)'
      BY <2>2, <2>3, <2>4 DEF Exists, Holds
    <2> QED
      BY <1>1, <2>1, <2>2, <2>5, Kinds DEF AddFlight, AddPcs
  <1> QED
    BY <1>2, <1>3 DEF AddConflict

\* The launch puts the container on an address only its own account holds.
LEMMA AddLaunchSafe ==
    ASSUME TypeInv, StoreInv, NEW p \in Procs, Flight(p), AddLaunch(p),
           NEW n, NEW s, n = ctx[p].name, s = ctx[p].slot
    PROVE  StoreInv' /\ Flight(p)'
  <1>1. /\ n \in Names /\ s \in Slots /\ ctx[p].port \in Ports /\ ctx[p].id = None
        /\ ~Exists(n) /\ inst[n] = None
        /\ \A m \in Names : Holds(m, s) => m = n
    BY DEF AddLaunch, Flight, AddFlight, AddPcs
  <1>2. users' = users /\ clones' = clones /\ inst' \in {inst, [inst EXCEPT ![n] = s]}
    <2>1. inst = [inst EXCEPT ![n] = None]
      BY <1>1 DEF TypeInv, StoreType
    <2> QED
      BY <2>1 DEF AddLaunch
  <1>3. \A m \in Names, a \in Slots : Holds(m, a)' => Holds(m, a) \/ (m = n /\ a = s)
    BY <1>2 DEF Holds, Exists, TypeInv, StoreType
  <1>4. StoreInv'
    <2>1. AddressExclusive'
      BY <1>1, <1>3 DEF StoreInv, AddressExclusive
    <2>2. OnOwnAddress' /\ IdsUnique'
      BY <1>1, <1>2 DEF StoreInv, OnOwnAddress, IdsUnique, Exists, TypeInv, StoreType
    <2> QED
      BY <2>1, <2>2 DEF StoreInv
  <1>5. ~Exists(n)' /\ \A m \in Names : Holds(m, s)' => m = n
    BY <1>1, <1>2, <1>3 DEF Exists
  <1>6. CASE Goto(p, "add_provision") /\ inst' = [inst EXCEPT ![n] = s]
    <2>1. pc'[p] = "add_provision" /\ ctx'[p] = ctx[p] /\ inst'[n] = s
      BY <1>1, <1>6, Lands DEF TypeInv, StoreType
    <2> QED
      BY <1>1, <1>4, <1>5, <2>1, Kinds DEF AddFlight, AddPcs
  <1>7. CASE Goto(p, "clean_delete")
    <2>1. pc'[p] = "clean_delete" /\ ctx'[p] = ctx[p]
      BY <1>7, Lands
    <2> QED
      BY <1>1, <1>4, <1>5, <2>1, Kinds DEF CleanFlight, CleanPcs
  <1>8. CASE Return(p)
    BY <1>4, <1>8, Lands, Kinds
  <1> QED
    BY <1>6, <1>7, <1>8 DEF AddLaunch

\* Provisioning changes no store.
LEMMA AddProvisionSafe ==
    ASSUME TypeInv, StoreInv, NEW p \in Procs, Flight(p), AddProvision(p),
           NEW n, NEW s, n = ctx[p].name, s = ctx[p].slot
    PROVE  StoreInv' /\ Flight(p)'
  <1>1. StoreInv'
    BY Untouched DEF AddProvision, store
  <1>2. /\ n \in Names /\ s \in Slots /\ ctx[p].port \in Ports /\ ctx[p].id = None
        /\ ~Exists(n) /\ inst[n] = s
        /\ \A m \in Names : Holds(m, s) => m = n
    BY DEF AddProvision, Flight, AddFlight, AddPcs
  <1>3. users' = users /\ inst' = inst /\ clones' = clones
    BY DEF AddProvision, store
  <1>4. ~Exists(n)' /\ inst'[n] = s /\ \A m \in Names : Holds(m, s)' => m = n
    BY <1>2, <1>3 DEF Holds, Exists
  <1>5. pc'[p] \in {"add_insert", "clean_delete"} /\ ctx'[p] = ctx[p]
    BY Lands DEF AddProvision
  <1> QED
    BY <1>1, <1>2, <1>4, <1>5, Kinds DEF AddFlight, AddPcs, CleanFlight, CleanPcs

\* The row is inserted for the address the container already holds.
LEMMA AddInsertSafe ==
    ASSUME TypeInv, StoreInv, NEW p \in Procs, Flight(p), AddInsert(p),
           NEW n, NEW s, NEW q, n = ctx[p].name, s = ctx[p].slot, q = ctx[p].port
    PROVE  StoreInv' /\ Flight(p)'
  <1>1. /\ n \in Names /\ s \in Slots /\ q \in Ports /\ ctx[p].id = None
        /\ ~Exists(n) /\ inst[n] = s
        /\ \A m \in Names : Holds(m, s) => m = n
    BY DEF AddInsert, Flight, AddFlight, AddPcs
  <1>2. inst' = inst /\ clones' = clones
    BY DEF AddInsert
  <1>3. ASSUME NEW i \in FreshIds, users' = [users EXCEPT ![n] = NewRow(i, s, q)],
               Enter(p, "add_forward", [ctx[p] EXCEPT !.id = i])
        PROVE  StoreInv' /\ Flight(p)'
    <2>1. /\ users'[n] = NewRow(i, s, q)
          /\ \A m \in Names \ {n} : users'[m] = users[m]
      BY <1>1, <1>3 DEF TypeInv, StoreType
    <2>2. i \in RowIds /\ \A m \in Names : Exists(m) => users[m].id # i
      BY DEF FreshIds
    <2>3. NewRow(i, s, q) \in Row
      BY <1>1, <2>2 DEF NewRow, Row, Statuses
    <2>4. users'[n] # None
      BY <2>1, <2>3, NoneAssumption
    <2>5. /\ users'[n].id = i /\ users'[n].slot = s
          /\ users'[n].status = "creating"
      BY <2>1 DEF NewRow
    <2>6. \A m \in Names, a \in Slots : Holds(m, a)' => Holds(m, a) \/ (m = n /\ a = s)
      BY <1>2, <2>1, <2>5 DEF Holds, Exists
    <2>7. AddressExclusive'
      BY <1>1, <2>6 DEF StoreInv, AddressExclusive
    <2>8. OnOwnAddress' /\ IdsUnique'
      BY <1>1, <1>2, <2>1, <2>2, <2>5 DEF StoreInv, OnOwnAddress, IdsUnique, Exists
    <2>9. PICK c : c = [ctx[p] EXCEPT !.id = i]
      OBVIOUS
    <2>10. c.name = n /\ c.slot = s /\ c.port = q /\ c.id = i
      BY <2>9 DEF TypeInv, LocalsType, Ctx
    <2>11. pc'[p] = "add_forward" /\ ctx'[p] = c
      BY <1>3, <2>9, Lands
    <2>12. i # None
      BY <2>2, ConstantsAssumption
    <2>13. Flight(p)'
      BY <1>1, <1>2, <2>4, <2>5, <2>10, <2>11, <2>12, Kinds
         DEF AddFlight, OwnRow, Exists, AddPcs
    <2> QED
      BY <2>7, <2>8, <2>13 DEF StoreInv
  <1>4. CASE Goto(p, "clean_delete") /\ UNCHANGED users
    <2>1. StoreInv'
      BY <1>2, <1>4, Untouched
    <2>2. pc'[p] = "clean_delete" /\ ctx'[p] = ctx[p]
      BY <1>4, Lands
    <2>3. ~Exists(n)'
      BY <1>1, <1>4 DEF Exists
    <2> QED
      BY <1>1, <2>1, <2>2, <2>3, Kinds DEF CleanFlight, CleanPcs
  <1> QED
    BY <1>3, <1>4 DEF AddInsert

\* The rules and the reload: neither touches rows or containers.
LEMMA AddForwardSafe ==
    ASSUME TypeInv, StoreInv, NEW p \in Procs, Flight(p), AddForward(p) \/ AddReload(p),
           NEW n, NEW s, n = ctx[p].name, s = ctx[p].slot
    PROVE  StoreInv' /\ Flight(p)'
  <1>1. /\ n \in Names /\ s \in Slots /\ ctx[p].port \in Ports /\ ctx[p].id # None
        /\ inst[n] = s
        /\ Exists(n) /\ users[n].id = ctx[p].id
        /\ users[n].slot = s /\ users[n].status = "creating"
    BY DEF AddForward, AddReload, Flight, AddFlight, AddPcs, OwnRow
  <1>2. users' = users /\ inst' = inst /\ clones' = clones
    BY DEF AddForward, AddReload
  <1>3. StoreInv'
    BY <1>2, Untouched
  <1>4. pc'[p] \in {"add_reload", "add_ready", "clean_delete"} /\ ctx'[p] = ctx[p]
    BY Lands DEF AddForward, AddReload
  <1> QED
    BY <1>1, <1>2, <1>3, <1>4, Kinds
       DEF AddFlight, AddPcs, CleanFlight, CleanPcs, OwnRow, Exists

\* An update of a status, and a row dropped by its id.
LEMMA StatusSafe ==
    ASSUME TypeInv, StoreInv, NEW i, NEW st \in Statuses,
           users' \in {users, SetStatus(i, st)}, UNCHANGED <<inst, clones>>
    PROVE  StoreInv'
  <1>1. CASE users' = users
    BY <1>1, Untouched
  <1>2. CASE users' = SetStatus(i, st)
    BY <1>2, SetStatusEffect, OnlyLosses
  <1> QED
    BY <1>1, <1>2

LEMMA DropSafe ==
    ASSUME TypeInv, StoreInv, NEW i,
           users' \in {users, DropRow(i)}, UNCHANGED <<inst, clones>>
    PROVE  StoreInv'
  <1>1. CASE users' = users
    BY <1>1, Untouched
  <1>2. CASE users' = DropRow(i)
    BY <1>2, DropRowEffect, OnlyLosses
  <1> QED
    BY <1>1, <1>2

\* A container deleted, or not.
LEMMA DeleteSafe ==
    ASSUME TypeInv, StoreInv, NEW n,
           DeleteInstance(n) \/ UNCHANGED inst, UNCHANGED <<users, clones>>
    PROVE  StoreInv'
  <1>1. \A m \in Names : inst'[m] \in {inst[m], None}
    BY DEF DeleteInstance, TypeInv, StoreType
  <1> QED
    BY <1>1, OnlyLosses DEF Exists

\* The last write of a create or a reinstall.
LEMMA MarkReadySafe ==
    ASSUME TypeInv, StoreInv, NEW p \in Procs, MarkReady(p)
    PROVE  StoreInv' /\ Flight(p)'
  <1>1. PICK st \in {"ready", "failed"} : users' \in {users, SetStatus(ctx[p].id, st)}
    BY DEF MarkReady
  <1>2. StoreInv'
    BY <1>1, StatusSafe DEF MarkReady, Statuses
  <1>3. pc'[p] = "idle"
    BY Lands DEF MarkReady
  <1> QED
    BY <1>2, <1>3, Kinds

\* The rollback of Add.
LEMMA CleanSafe ==
    ASSUME TypeInv, StoreInv, NEW p \in Procs, Flight(p),
           CleanDelete(p) \/ CleanRules(p) \/ CleanReload(p) \/ CleanRow(p),
           NEW n, NEW i, n = ctx[p].name, i = ctx[p].id
    PROVE  StoreInv' /\ Flight(p)'
  <1>1. /\ n \in Names
        /\ i = None => ~Exists(n)
        /\ i # None => Exists(n) /\ users[n].id = i /\ users[n].status = "creating"
    BY DEF CleanDelete, CleanRules, CleanReload, CleanRow, Flight, CleanFlight, CleanPcs, OwnRow
  <1>2. CASE CleanRow(p)
    <2>1. StoreInv'
      BY <1>2, StatusSafe, DropSafe DEF CleanRow, Cleaned, Statuses
    <2>2. pc'[p] = "idle"
      BY <1>2, Lands DEF CleanRow
    <2> QED
      BY <2>1, <2>2, Kinds
  <1>3. CASE CleanDelete(p) \/ CleanRules(p) \/ CleanReload(p)
    <2>1. users' = users /\ clones' = clones
      BY <1>3 DEF CleanDelete, CleanRules, CleanReload
    <2>2. StoreInv'
      BY <1>3, <2>1, Untouched, DeleteSafe DEF CleanDelete, CleanRules, CleanReload
    <2>3. pc'[p] \in {"clean_rules", "clean_reload", "clean_row"}
      BY <1>3, Lands DEF CleanDelete, CleanRules, CleanReload
    <2>4. /\ ctx'[p].name = n /\ ctx'[p].id = i
          /\ ctx[p].dirty => ctx'[p].dirty
      <3>1. /\ [ctx[p] EXCEPT !.dirty = TRUE].name = n
            /\ [ctx[p] EXCEPT !.dirty = TRUE].id = i
            /\ [ctx[p] EXCEPT !.dirty = TRUE].dirty
        BY DEF TypeInv, LocalsType, Ctx
      <3>2. ctx'[p] \in {ctx[p], [ctx[p] EXCEPT !.dirty = TRUE]}
        BY <1>3, Lands DEF CleanDelete, CleanRules, CleanReload
      <3> QED
        BY <3>1, <3>2
    <2>5. ctx'[p].dirty \/ inst'[n] = None
      <3>1. CASE CleanDelete(p) /\ DeleteInstance(n)
        BY <1>1, <3>1 DEF DeleteInstance, TypeInv, StoreType
      <3>2. CASE CleanDelete(p) /\ ~DeleteInstance(n)
        <4>1. Enter(p, "clean_rules", [ctx[p] EXCEPT !.dirty = TRUE])
          BY <3>2 DEF CleanDelete
        <4>2. ctx'[p] = [ctx[p] EXCEPT !.dirty = TRUE]
          BY <4>1, Lands
        <4> QED
          BY <4>2 DEF TypeInv, LocalsType, Ctx
      <3>3. CASE CleanRules(p) \/ CleanReload(p)
        <4>1. inst' = inst
          BY <3>3 DEF CleanRules, CleanReload
        <4>2. ctx[p].dirty \/ inst[n] = None
          BY <3>3 DEF CleanRules, CleanReload, Flight, CleanFlight, CleanPcs
        <4> QED
          BY <2>4, <4>1, <4>2
      <3> QED
        BY <1>3, <3>1, <3>2, <3>3
    <2> QED
      BY <1>1, <2>1, <2>2, <2>3, <2>4, <2>5, Kinds DEF CleanFlight, CleanPcs, OwnRow, Exists
  <1> QED
    BY <1>2, <1>3

\* Del.
LEMMA DelSafe ==
    ASSUME TypeInv, StoreInv, NEW p \in Procs, Flight(p),
           DelInstance(p) \/ DelRules(p) \/ DelReload(p) \/ DelRow(p),
           NEW n, n = ctx[p].name
    PROVE  StoreInv' /\ Flight(p)'
  <1>1. /\ n \in Names /\ Exists(n) /\ users[n].id = ctx[p].id
        /\ pc[p] # "del_instance" => inst[n] = None
    BY DEF DelInstance, DelRules, DelReload, DelRow, Flight, DelFlight, DelPcs, OwnRow
  <1>2. CASE DelRow(p)
    <2>1. StoreInv'
      BY <1>2, DropSafe DEF DelRow
    <2>2. pc'[p] = "idle"
      BY <1>2, Lands DEF DelRow
    <2> QED
      BY <2>1, <2>2, Kinds
  <1>3. CASE DelInstance(p) \/ DelRules(p) \/ DelReload(p)
    <2>1. users' = users /\ clones' = clones
      BY <1>3 DEF DelInstance, DelRules, DelReload
    <2>2. StoreInv'
      BY <1>3, <2>1, Untouched, DeleteSafe DEF DelInstance, DelRules, DelReload
    <2>3. CASE Return(p)
      BY <2>2, <2>3, Lands, Kinds
    <2>4. CASE ~Return(p)
      <3>1. pc'[p] \in {"del_rules", "del_reload", "del_row"} /\ ctx'[p] = ctx[p]
        BY <1>3, <2>4, Lands DEF DelInstance, DelRules, DelReload
      <3>2. inst'[n] = None
        BY <1>1, <1>3, <2>4 DEF DelInstance, DelRules, DelReload, DeleteInstance,
                                 TypeInv, StoreType
      <3> QED
        BY <1>1, <2>1, <2>2, <3>1, <3>2, Kinds DEF DelFlight, DelPcs, OwnRow, Exists
    <2> QED
      BY <2>3, <2>4
  <1> QED
    BY <1>2, <1>3

\* The first write of a reinstall.
LEMMA MarkSafe ==
    ASSUME TypeInv, StoreInv, NEW p \in Procs, Flight(p),
           pc[p] \in {"re_mark", "sh_mark"}, NEW l \in {"re_delete", "sh_clone"}, Mark(p, l),
           NEW n, NEW s, n = ctx[p].name, s = ctx[p].slot
    PROVE  StoreInv' /\ Flight(p)'
  <1>1. n \in Names /\ Exists(n) /\ users[n].id = ctx[p].id /\ users[n].slot = s
    BY DEF Flight, ReFlight, RePcs, SharePcs, OwnRow
  <1>2. StoreInv'
    BY StatusSafe DEF Mark, Statuses
  <1>3. CASE Return(p)
    BY <1>2, <1>3, Lands, Kinds
  <1>4. CASE users' = SetStatus(ctx[p].id, "reinstalling") /\ Goto(p, l)
    <2>1. pc'[p] = l /\ ctx'[p] = ctx[p]
      BY <1>4, Lands
    <2>2. /\ Exists(n)' /\ users'[n].id = ctx[p].id /\ users'[n].slot = s
          /\ users'[n].status = "reinstalling"
      BY <1>1, <1>4, SetStatusEffect DEF Statuses
    <2> QED
      BY <1>1, <1>2, <2>1, <2>2, Kinds DEF ReFlight, RePcs, SharePcs, OwnRow
  <1> QED
    BY <1>3, <1>4 DEF Mark

\* A container or a clone appears on the address of its account's own row.
LEMMA RebuildSafe ==
    ASSUME TypeInv, StoreInv, NEW n \in Names, NEW s, Exists(n), users[n].slot = s,
           \A m \in Names : inst'[m] = inst[m] \/ (m = n /\ inst'[m] \in {None, s}),
           \A m \in Names : \A x \in Suffixes :
              clones'[m][x] = clones[m][x] \/ (m = n /\ clones'[m][x] \in {None, s}),
           UNCHANGED users
    PROVE  StoreInv'
  <1>1. None \notin Slots
    BY ConstantsAssumption
  <1>2. Holds(n, s)
    BY DEF Holds
  <1>3. \A m \in Names, a \in Slots : Holds(m, a)' => Holds(m, a) \/ (m = n /\ a = s)
    BY <1>1 DEF Holds, Exists
  <1>4. AddressExclusive'
    BY <1>2, <1>3 DEF StoreInv, AddressExclusive
  <1>5. OnOwnAddress' /\ IdsUnique'
    BY DEF StoreInv, OnOwnAddress, IdsUnique, Exists
  <1> QED
    BY <1>4, <1>5 DEF StoreInv

\* What one assignment to inst or to clones does, name by name.
LEMMA InstAt ==
    ASSUME TypeInv, NEW n, NEW r, inst' = [inst EXCEPT ![n] = r]
    PROVE  \A m \in Names : inst'[m] = inst[m] \/ (m = n /\ inst'[m] = r)
  BY DEF TypeInv, StoreType

SetClone(n, x, r) == [clones EXCEPT ![n][x] = r]
LEMMA CloneAt ==
    ASSUME TypeInv, NEW n, NEW y, NEW r, clones' = SetClone(n, y, r)
    PROVE  \A m \in Names : \A x \in Suffixes :
              clones'[m][x] = clones[m][x] \/ (m = n /\ clones'[m][x] = r)
  <1> SUFFICES ASSUME NEW m \in Names, NEW x \in Suffixes
               PROVE  clones'[m][x] = clones[m][x] \/ (m = n /\ clones'[m][x] = r)
    OBVIOUS
  <1>1. clones[m] \in [Suffixes -> Slots \cup {None}]
    BY DEF TypeInv, StoreType
  <1>2. clones'[m] = IF m = n THEN [clones[m] EXCEPT ![y] = r] ELSE clones[m]
    BY DEF TypeInv, StoreType, SetClone
  <1> QED
    BY <1>1, <1>2

\* Reinstall after its first write.
LEMMA ReSafe ==
    ASSUME TypeInv, StoreInv, NEW p \in Procs, Flight(p),
           ReDelete(p) \/ ReLaunch(p) \/ ReProvision(p) \/ ReRollback(p) \/ ReFail(p),
           NEW n, NEW s, n = ctx[p].name, s = ctx[p].slot
    PROVE  StoreInv' /\ Flight(p)'
  <1>1. /\ n \in Names /\ Exists(n) /\ users[n].id = ctx[p].id /\ users[n].slot = s
        /\ users[n].status = "reinstalling"
    BY DEF ReDelete, ReLaunch, ReProvision, ReRollback, ReFail, Flight, ReFlight, RePcs, OwnRow
  <1>2. CASE ReFail(p)
    <2>1. StoreInv'
      BY <1>2, StatusSafe DEF ReFail, Statuses
    <2>2. pc'[p] = "idle"
      BY <1>2, Lands DEF ReFail
    <2> QED
      BY <2>1, <2>2, Kinds
  <1>3. CASE ReDelete(p) \/ ReLaunch(p) \/ ReProvision(p) \/ ReRollback(p)
    <2>1. users' = users /\ clones' = clones
      BY <1>3 DEF ReDelete, ReLaunch, ReProvision, ReRollback, store
    <2>2. inst' \in {inst, [inst EXCEPT ![n] = None], [inst EXCEPT ![n] = s]}
      BY <1>3 DEF ReDelete, ReLaunch, ReProvision, ReRollback, DeleteInstance, store
    <2>3. \A m \in Names : inst'[m] = inst[m] \/ (m = n /\ inst'[m] \in {None, s})
      BY <2>2, InstAt
    <2>4. StoreInv'
      BY <1>1, <2>1, <2>3, RebuildSafe
    <2>5. /\ pc'[p] \in {"re_launch", "re_provision", "re_ready", "re_rollback", "re_fail"}
          /\ ctx'[p] = ctx[p]
      BY <1>3, Lands DEF ReDelete, ReLaunch, ReProvision, ReRollback
    <2>6. ASSUME pc'[p] = "re_ready"
          PROVE  inst'[n] = s
      <3>1. ReProvision(p) /\ inst[n] # None
        BY <1>3, <2>6, Lands DEF ReDelete, ReLaunch, ReProvision, ReRollback
      <3>2. inst[n] = s /\ inst' = inst
        BY <1>1, <3>1 DEF StoreInv, OnOwnAddress, ReProvision, store
      <3> QED
        BY <3>2
    <2> QED
      BY <1>1, <2>1, <2>4, <2>5, <2>6, Kinds DEF ReFlight, RePcs, OwnRow, Exists
  <1> QED
    BY <1>2, <1>3

\* ReinstallFromShare after its first write.
LEMMA ShareSafe ==
    ASSUME TypeInv, StoreInv, NEW p \in Procs, Flight(p),
           ShClone(p) \/ ShDelete(p) \/ ShRename(p) \/ ShProvision(p) \/ ShUndoClone(p),
           NEW n, NEW s, NEW x, n = ctx[p].name, s = ctx[p].slot, x = ctx[p].sfx
    PROVE  StoreInv' /\ Flight(p)'
  <1>1. /\ n \in Names /\ Exists(n) /\ users[n].id = ctx[p].id /\ users[n].slot = s
        /\ users[n].status = "reinstalling"
        /\ pc[p] \in {"sh_delete", "sh_rename"} => x \in Suffixes /\ clones[n][x] = s
    BY DEF ShClone, ShDelete, ShRename, ShProvision, ShUndoClone, Flight, ReFlight, SharePcs,
           OwnRow
  <1>2. s # None
    BY <1>1, ConstantsAssumption DEF Exists, TypeInv, StoreType, Row
  <1>3. users' = users
    BY DEF ShClone, ShDelete, ShRename, ShProvision, ShUndoClone, store
  <1>4. CASE ShClone(p)
    <2>1. \/ clones' = clones
          \/ \E y \in Suffixes, r \in {None, s} : clones' = SetClone(n, y, r)
      BY <1>4 DEF ShClone, SetClone
    <2>2. inst' = inst
      BY <1>4 DEF ShClone
    <2>3. StoreInv'
      <3>1. \A m \in Names : \A y \in Suffixes :
               clones'[m][y] = clones[m][y] \/ (m = n /\ clones'[m][y] \in {None, s})
        BY <2>1, CloneAt
      <3> QED
        BY <1>1, <1>3, <2>2, <3>1, RebuildSafe
    <2>4. CASE Goto(p, "re_fail")
      <3>1. pc'[p] = "re_fail" /\ ctx'[p] = ctx[p]
        BY <2>4, Lands
      <3> QED
        BY <1>1, <1>3, <2>3, <3>1, Kinds DEF ReFlight, RePcs, OwnRow, Exists
    <2>5. ASSUME NEW y \in Suffixes, clones' = [clones EXCEPT ![n][y] = s],
                 Enter(p, "sh_delete", [ctx[p] EXCEPT !.sfx = y])
          PROVE  Flight(p)'
      <3>1. PICK c : c = [ctx[p] EXCEPT !.sfx = y]
        OBVIOUS
      <3>2. c.name = n /\ c.slot = s /\ c.id = ctx[p].id /\ c.sfx = y
        BY <3>1 DEF TypeInv, LocalsType, Ctx
      <3>3. pc'[p] = "sh_delete" /\ ctx'[p] = c
        BY <2>5, <3>1, Lands
      <3>4. clones'[n][y] = s
        BY <1>1, <2>5 DEF TypeInv, StoreType
      <3> QED
        BY <1>1, <1>3, <3>2, <3>3, <3>4, Kinds DEF ReFlight, SharePcs, OwnRow, Exists
    <2> QED
      BY <1>4, <2>3, <2>4, <2>5 DEF ShClone
  <1>5. CASE ShDelete(p)
    <2>1. clones' = clones
      BY <1>5 DEF ShDelete
    <2>2. StoreInv'
      BY <1>3, <1>5, <2>1, DeleteSafe DEF ShDelete
    <2>3. pc'[p] \in {"sh_rename", "sh_undo_clone"} /\ ctx'[p] = ctx[p]
      BY <1>5, Lands DEF ShDelete
    <2>4. x \in Suffixes /\ clones[n][x] = s
      BY <1>1, <1>5 DEF ShDelete
    <2> QED
      BY <1>1, <1>3, <2>1, <2>2, <2>3, <2>4, Kinds DEF ReFlight, SharePcs, OwnRow, Exists
  <1>6. CASE ShRename(p)
    <2>1. x \in Suffixes /\ clones[n][x] = s
      BY <1>1, <1>6 DEF ShRename
    <2>2. StoreInv'
      <3>1. \/ inst' = [inst EXCEPT ![n] = s] /\ clones' = SetClone(n, x, None)
            \/ inst' = inst /\ clones' = clones
        BY <1>6, <2>1 DEF ShRename, SetClone
      <3>2. \A m \in Names : inst'[m] = inst[m] \/ (m = n /\ inst'[m] \in {None, s})
        BY <3>1, InstAt
      <3>3. \A m \in Names : \A y \in Suffixes :
               clones'[m][y] = clones[m][y] \/ (m = n /\ clones'[m][y] \in {None, s})
        BY <3>1, CloneAt
      <3> QED
        BY <1>1, <1>3, <3>2, <3>3, RebuildSafe
    <2>3. pc'[p] \in {"sh_provision", "sh_undo_clone"} /\ ctx'[p] = ctx[p]
      BY <1>6, Lands DEF ShRename
    <2> QED
      BY <1>1, <1>3, <2>2, <2>3, Kinds DEF ReFlight, SharePcs, OwnRow, Exists
  <1>7. CASE ShProvision(p)
    <2>1. inst' = inst /\ clones' = clones
      BY <1>7 DEF ShProvision, store
    <2>2. StoreInv'
      BY <1>3, <2>1, Untouched
    <2>3. pc'[p] \in {"re_ready", "sh_undo_clone"} /\ ctx'[p] = ctx[p]
      BY <1>7, Lands DEF ShProvision
    <2>4. ASSUME pc'[p] = "re_ready"
          PROVE  inst'[n] = s
      <3>1. inst[n] # None
        BY <1>7, <2>4, Lands DEF ShProvision
      <3> QED
        BY <1>1, <2>1, <3>1 DEF StoreInv, OnOwnAddress
    <2> QED
      BY <1>1, <1>3, <2>2, <2>3, <2>4, Kinds DEF ReFlight, RePcs, SharePcs, OwnRow, Exists
  <1>8. CASE ShUndoClone(p)
    <2>1. /\ inst' = inst
          /\ \A m \in Names : \A y \in Suffixes : clones'[m][y] \in {clones[m][y], None}
      <3>1. inst' = inst /\ (clones' = clones \/ clones' = SetClone(n, x, None))
        BY <1>8 DEF ShUndoClone, SetClone
      <3> QED
        BY <3>1, CloneAt
    <2>2. StoreInv'
      BY <1>3, <2>1, OnlyLosses DEF Exists
    <2>3. pc'[p] = "re_rollback" /\ ctx'[p] = ctx[p]
      BY <1>8, Lands DEF ShUndoClone
    <2> QED
      BY <1>1, <1>3, <2>2, <2>3, Kinds DEF ReFlight, RePcs, OwnRow, Exists
  <1> QED
    BY <1>4, <1>5, <1>6, <1>7, <1>8

\* ApplyV4State.
LEMMA V4Safe ==
    ASSUME StoreInv, TypeInv, NEW p \in Procs, V4User(p) \/ V4Reload(p) \/ V4Record(p)
    PROVE  StoreInv' /\ Flight(p)'
  <1>1. StoreInv'
    BY Untouched DEF V4User, V4Reload, V4Record
  <1>2. pc'[p] \in {"idle"} \cup V4Pcs
    BY Lands DEF V4User, V4Reload, V4Record, V4Pcs
  <1> QED
    BY <1>1, <1>2, Kinds

\* Whatever process p does next, the stores stay consistent and p itself
\* knows what the step after that needs.
LEMMA StepSafe ==
    ASSUME TypeInv, StoreInv, NEW p \in Procs, Flight(p),
           Start(p) \/ Continue(p) \/ Crash(p)
    PROVE  StoreInv' /\ Flight(p)'
  <1>1. CASE Start(p)
    BY <1>1, StartSafe
  <1>2. CASE Crash(p)
    <2>1. StoreInv'
      BY <1>2, Untouched DEF Crash, store
    <2>2. pc'[p] = "idle"
      BY <1>2, Lands DEF Crash
    <2> QED
      BY <2>1, <2>2, Kinds
  <1>3. CASE \/ AddConflict(p) \/ AddLaunch(p) \/ AddProvision(p) \/ AddInsert(p)
             \/ AddForward(p) \/ AddReload(p)
    BY <1>3, AddConflictSafe, AddLaunchSafe, AddProvisionSafe, AddInsertSafe, AddForwardSafe
  <1>4. CASE AddReady(p) \/ ReReady(p)
    BY <1>4, MarkReadySafe DEF AddReady, ReReady
  <1>5. CASE CleanDelete(p) \/ CleanRules(p) \/ CleanReload(p) \/ CleanRow(p)
    BY <1>5, CleanSafe
  <1>6. CASE DelInstance(p) \/ DelRules(p) \/ DelReload(p) \/ DelRow(p)
    BY <1>6, DelSafe
  <1>7. CASE ReMark(p) \/ ShMark(p)
    BY <1>7, MarkSafe DEF ReMark, ShMark
  <1>8. CASE ReDelete(p) \/ ReLaunch(p) \/ ReProvision(p) \/ ReRollback(p) \/ ReFail(p)
    BY <1>8, ReSafe
  <1>9. CASE ShClone(p) \/ ShDelete(p) \/ ShRename(p) \/ ShProvision(p) \/ ShUndoClone(p)
    BY <1>9, ShareSafe
  <1>10. CASE V4User(p) \/ V4Reload(p) \/ V4Record(p)
    BY <1>10, V4Safe
  <1> QED
    BY <1>1, <1>2, <1>3, <1>4, <1>5, <1>6, <1>7, <1>8, <1>9, <1>10 DEF Continue

LEMMA SafeInitially == Init => SafeInv
  <1> SUFFICES ASSUME Init PROVE SafeInv
    OBVIOUS
  <1>1. StoreInv
    BY ConstantsAssumption
       DEF Init, StoreInv, AddressExclusive, Holds, OnOwnAddress, IdsUnique, Exists
  <1>2. \A p \in Procs : pc[p] = "idle"
    BY DEF Init
  <1>3. \A p \in Procs : Flight(p)
    BY <1>2 DEF Flight, AddFlight, CleanFlight, DelFlight, ReFlight,
                AddPcs, CleanPcs, DelPcs, RePcs, SharePcs
  <1> QED
    BY <1>1, <1>3 DEF SafeInv

\* The process that takes a step is the only one.
LEMMA SafeInductive ==
    ASSUME SingleProcess
    PROVE  TypeInv /\ SafeInv /\ [Next]_vars => SafeInv'
  <1> SUFFICES ASSUME TypeInv, SafeInv, [Next]_vars PROVE SafeInv'
    OBVIOUS
  <1>1. CASE UNCHANGED vars
    BY <1>1 DEF vars, SafeInv, StoreInv, AddressExclusive, Holds, OnOwnAddress, IdsUnique, Exists,
                Flight, AddFlight, CleanFlight, DelFlight, ReFlight, OwnRow, UsedSlots
  <1>2. ASSUME NEW p \in Procs, Start(p) \/ Continue(p) \/ Crash(p)
        PROVE  SafeInv'
    <2>1. StoreInv' /\ Flight(p)'
      BY <1>2, StepSafe DEF SafeInv
    <2>2. \A q \in Procs : q = p
      BY DEF SingleProcess
    <2> QED
      BY <2>1, <2>2 DEF SafeInv
  <1> QED
    BY <1>1, <1>2 DEF Next

\* With one process, no address is ever held by two accounts: not through a
\* half-built container, a failed rollback, a crash anywhere in a handler or
\* a temporary clone (checkIncusConflict, Del, ReinstallFromShare).
THEOREM AddressesExclusive ==
    ASSUME SingleProcess
    PROVE  Spec => []AddressExclusive
  <1>1. SafeInv => AddressExclusive
    BY DEF SafeInv, StoreInv
  <1> QED
    BY <1>1, TypeInitially, TypeInductive, SafeInitially, SafeInductive, PTL DEF Spec

\* With one process, every handler in flight knows at each of its points what
\* its remaining steps rely on, over any failures and crashes.
THEOREM HandlersAreSafe ==
    ASSUME SingleProcess
    PROVE  Spec => []SafeInv
  BY TypeInitially, TypeInductive, SafeInitially, SafeInductive, PTL DEF Spec

-----------------------------------------------------------------------------
(* What a step does to one account's row and container.                      *)

RowKept(n) == Exists(n) /\ ~Exists(n)' => inst'[n] = None
ReadyKept(n) ==
    /\ ~Ready(n) /\ Ready(n)' => inst'[n] = users'[n].slot
    /\ Ready(n) /\ inst[n] # None /\ inst'[n] = None
          => \E p \in Procs : pc[p] = "del_instance" /\ ctx[p].name = n

\* A step that touches neither, or that leaves the row and only builds.
LEMMA Same ==
    ASSUME NEW n \in Names, users'[n] = users[n],
           inst'[n] = inst[n] \/ ~Ready(n)
    PROVE  RowKept(n) /\ ReadyKept(n)
  BY DEF RowKept, ReadyKept, Ready, Exists

\* The only steps at which an account becomes ready have its container up,
\* and the only one at which a ready account loses it is its own delete.
LEMMA AccountStep ==
    ASSUME TypeInv, StoreInv, NEW p \in Procs, Flight(p),
           Start(p) \/ Continue(p) \/ Crash(p), NEW n \in Names
    PROVE  RowKept(n) /\ ReadyKept(n)
  <1>1. PICK a, i, s, q : a = ctx[p].name /\ i = ctx[p].id /\ s = ctx[p].slot /\ q = ctx[p].port
    OBVIOUS
  <1>2. CASE Start(p) \/ Crash(p)
    BY <1>2, Same DEF Start, AddLookup, DelLookup, ReLookup, ShLookup, Lookup, V4List, Crash, store
  <1>3. CASE \/ AddConflict(p) \/ AddProvision(p) \/ AddForward(p) \/ AddReload(p)
             \/ CleanRules(p) \/ CleanReload(p) \/ DelRules(p) \/ DelReload(p)
             \/ ReProvision(p) \/ ShClone(p) \/ ShProvision(p) \/ ShUndoClone(p)
             \/ V4User(p) \/ V4Reload(p) \/ V4Record(p)
    <2>1. users' = users /\ inst' = inst
      BY <1>3 DEF AddConflict, AddProvision, AddForward, AddReload, CleanRules, CleanReload,
                  DelRules, DelReload, ReProvision, ShClone, ShProvision, ShUndoClone,
                  V4User, V4Reload, V4Record, store
    <2> QED
      BY <2>1, Same
  <1>4. CASE AddLaunch(p)
    <2>1. ~Exists(a)
      BY <1>1, <1>4 DEF AddLaunch, Flight, AddFlight, AddPcs
    <2>2. users' = users /\ (n # a => inst'[n] = inst[n])
      BY <1>1, <1>4 DEF AddLaunch, TypeInv, StoreType
    <2> QED
      BY <2>1, <2>2, Same DEF Ready
  <1>5. CASE AddInsert(p)
    <2>1. ~Exists(a)
      BY <1>1, <1>5 DEF AddInsert, Flight, AddFlight, AddPcs
    <2>2. inst' = inst
      BY <1>5 DEF AddInsert
    <2>3. \/ users' = users
          \/ \E id \in FreshIds : users' = [users EXCEPT ![a] = NewRow(id, s, q)]
      BY <1>1, <1>5 DEF AddInsert
    <2>4. users'[n] = users[n] \/ (n = a /\ users'[n].status = "creating")
      BY <2>3 DEF NewRow, TypeInv, StoreType
    <2> QED
      BY <2>1, <2>2, <2>4, Same DEF RowKept, ReadyKept, Ready
  <1>6. CASE AddReady(p) \/ ReReady(p)
    <2>1. /\ a \in Names /\ Exists(a) /\ users[a].id = i
          /\ inst[a] = s /\ users[a].slot = s
      BY <1>1, <1>6 DEF AddReady, ReReady, Flight, AddFlight, AddPcs, ReFlight, RePcs, OwnRow
    <2>2. inst' = inst
      BY <1>6 DEF AddReady, ReReady, MarkReady
    <2>3. PICK st \in Statuses : users' \in {users, SetStatus(i, st)}
      BY <1>1, <1>6 DEF AddReady, ReReady, MarkReady, Statuses
    <2>4. n # a => users'[n] = users[n]
      <3>1. n # a => ~Exists(n) \/ users[n].id # i
        BY <2>1 DEF StoreInv, IdsUnique
      <3>2. CASE users' = SetStatus(i, st)
        BY <3>1, <3>2 DEF SetStatus
      <3> QED
        BY <2>3, <3>2
    <2>5. Exists(a)' /\ users'[a].slot = s
      BY <2>1, <2>3, SetStatusEffect DEF Exists
    <2>6. CASE n = a
      BY <2>1, <2>2, <2>5, <2>6 DEF RowKept, ReadyKept
    <2>7. CASE n # a
      BY <2>2, <2>4, <2>7, Same
    <2> QED
      BY <2>6, <2>7
  <1>7. CASE CleanDelete(p)
    <2>1. ~Exists(a) \/ users[a].status = "creating"
      BY <1>1, <1>7 DEF CleanDelete, Flight, CleanFlight, CleanPcs
    <2>2. users' = users /\ (n # a => inst'[n] = inst[n])
      BY <1>1, <1>7 DEF CleanDelete, DeleteInstance, TypeInv, StoreType
    <2> QED
      BY <2>1, <2>2, Same DEF Ready
  <1>8. CASE CleanRow(p)
    <2>1. a \in Names /\ (i # None => Exists(a) /\ users[a].id = i)
      BY <1>1, <1>8 DEF CleanRow, Flight, CleanFlight, CleanPcs, OwnRow
    <2>2. inst' = inst /\ (ctx[p].dirty \/ inst[a] = None)
      BY <1>1, <1>8 DEF CleanRow, Flight, CleanFlight, CleanPcs
    <2>3. CASE users' = users
      BY <2>2, <2>3, Same
    <2>4. CASE i # None /\ users' = Cleaned(i, ctx[p].dirty)
      <3>1. CASE ctx[p].dirty
        <4>1. users' = SetStatus(i, "failed")
          BY <2>4, <3>1 DEF Cleaned
        <4>2. Exists(n) <=> Exists(n)'
          BY <4>1, SetStatusEffect DEF Statuses
        <4>3. Ready(n)' => Ready(n)
          <5>1. Exists(n) => users'[n] = users[n] \/ users'[n].status = "failed"
            BY <4>1, SetStatusEffect DEF Statuses
          <5> QED
            BY <4>2, <5>1 DEF Ready
        <4> QED
          BY <2>2, <4>2, <4>3 DEF RowKept, ReadyKept
      <3>2. CASE ~ctx[p].dirty
        <4>1. users' = DropRow(i)
          BY <2>4, <3>2 DEF Cleaned
        <4>2. n # a /\ Exists(n) => users[n].id # i
          BY <2>1, <2>4 DEF StoreInv, IdsUnique
        <4>3. Exists(n)' => Exists(n) /\ users'[n] = users[n]
          BY <4>1, DropRowEffect
        <4>4. Exists(n) /\ ~Exists(n)' => n = a
          BY <4>1, <4>2, DropRowEffect
        <4> QED
          BY <2>2, <3>2, <4>3, <4>4 DEF RowKept, ReadyKept, Ready
      <3> QED
        BY <3>1, <3>2
    <2> QED
      BY <1>1, <1>8, <2>3, <2>4 DEF CleanRow
  <1>9. CASE DelInstance(p)
    <2>1. users' = users /\ (n # a => inst'[n] = inst[n])
      BY <1>1, <1>9 DEF DelInstance, DeleteInstance, TypeInv, StoreType
    <2>2. pc[p] = "del_instance"
      BY <1>9 DEF DelInstance
    <2> QED
      BY <1>1, <2>1, <2>2 DEF RowKept, ReadyKept, Ready, Exists
  <1>10. CASE DelRow(p)
    <2>1. a \in Names /\ Exists(a) /\ users[a].id = i /\ inst[a] = None
      BY <1>1, <1>10 DEF DelRow, Flight, DelFlight, DelPcs, OwnRow
    <2>2. inst' = inst /\ users' \in {users, DropRow(i)}
      BY <1>1, <1>10 DEF DelRow
    <2>3. CASE users' = users
      BY <2>2, <2>3, Same
    <2>4. CASE users' = DropRow(i)
      <3>1. n # a /\ Exists(n) => users[n].id # i
        BY <2>1 DEF StoreInv, IdsUnique
      <3>2. Exists(n)' => Exists(n) /\ users'[n] = users[n]
        BY <2>4, DropRowEffect
      <3>3. Exists(n) /\ ~Exists(n)' => n = a
        BY <2>4, <3>1, DropRowEffect
      <3> QED
        BY <2>1, <2>2, <3>2, <3>3 DEF RowKept, ReadyKept, Ready
    <2> QED
      BY <2>2, <2>3, <2>4
  <1>11. CASE ReMark(p) \/ ShMark(p) \/ ReFail(p)
    <2>1. inst' = inst
      BY <1>11 DEF ReMark, ShMark, Mark, ReFail
    <2>2. PICK st \in {"reinstalling", "failed"} : users' \in {users, SetStatus(i, st)}
      BY <1>1, <1>11 DEF ReMark, ShMark, Mark, ReFail
    <2>3. CASE users' = users
      BY <2>1, <2>3, Same
    <2>4. CASE users' = SetStatus(i, st)
      <3>1. /\ Exists(n) <=> Exists(n)'
            /\ Exists(n) => users'[n] = users[n] \/ users'[n].status = st
        BY <2>4, SetStatusEffect DEF Statuses
      <3>2. Ready(n)' => Ready(n)
        BY <3>1 DEF Ready
      <3> QED
        BY <2>1, <3>1, <3>2 DEF RowKept, ReadyKept
    <2> QED
      BY <2>2, <2>3, <2>4
  <1>12. CASE ReDelete(p) \/ ReLaunch(p) \/ ReRollback(p) \/ ShDelete(p) \/ ShRename(p)
    <2>1. users[a].status = "reinstalling"
      BY <1>1, <1>12 DEF ReDelete, ReLaunch, ReRollback, ShDelete, ShRename,
                         Flight, ReFlight, RePcs, SharePcs
    <2>2. users' = users /\ (n # a => inst'[n] = inst[n])
      BY <1>1, <1>12 DEF ReDelete, ReLaunch, ReRollback, ShDelete, ShRename, DeleteInstance,
                         TypeInv, StoreType
    <2> QED
      BY <2>1, <2>2, Same DEF Ready
  <1> QED
    BY <1>2, <1>3, <1>4, <1>5, <1>6, <1>7, <1>8, <1>9, <1>10, <1>11, <1>12 DEF Continue

\* With one process, a row never disappears while a container of that name
\* exists, so no container is orphaned with its address free to be handed out.
THEOREM RowsOutliveContainers ==
    ASSUME SingleProcess
    PROVE  Spec => RowOutlivesContainer
  <1>1. ASSUME TypeInv, SafeInv, [Next]_vars
        PROVE  [\A n \in Names : Exists(n) /\ ~Exists(n)' => inst'[n] = None]_vars
    <2>1. CASE UNCHANGED vars
      BY <2>1
    <2>2. CASE Next
      BY <1>1, <2>2, AccountStep DEF Next, SafeInv, RowKept
    <2> QED
      BY <1>1, <2>1, <2>2
  <1> QED
    BY <1>1, TypeInitially, TypeInductive, SafeInitially, SafeInductive, PTL
       DEF Spec, RowOutlivesContainer

\* With one process, an account becomes ready only with a container on its
\* own address, and a ready account loses it only to its own delete.
THEOREM ReadinessEarned ==
    ASSUME SingleProcess
    PROVE  Spec => ReadyIsEarned
  <1>1. ASSUME TypeInv, SafeInv, [Next]_vars
        PROVE  [\A n \in Names :
                   /\ ~Ready(n) /\ Ready(n)' => inst'[n] = users'[n].slot
                   /\ Ready(n) /\ inst[n] # None /\ inst'[n] = None
                         => \E p \in Procs : pc[p] = "del_instance" /\ ctx[p].name = n]_vars
    <2>1. CASE UNCHANGED vars
      BY <2>1
    <2>2. CASE Next
      BY <1>1, <2>2, AccountStep DEF Next, SafeInv, ReadyKept
    <2> QED
      BY <1>1, <2>1, <2>2
  <1> QED
    BY <1>1, TypeInitially, TypeInductive, SafeInitially, SafeInductive, PTL
       DEF Spec, ReadyIsEarned

-----------------------------------------------------------------------------
(* The refinement: what a step does to the table of leases.                  *)

\* Outside of account a and address t, a step changes no row's address, ...
RowsBut(a, t) ==
    \A n \in Names, s \in Slots : n # a \/ s # t =>
        ((Exists(n)' /\ users'[n].slot = s) <=> (Exists(n) /\ users[n].slot = s))
\* ... no container's, ...
InstBut(a, t) ==
    \A n \in Names, s \in Slots : n # a \/ s # t => (inst'[n] = s <=> inst[n] = s)
\* ... and no clone's.
ClonesBut(a, t) ==
    \A n \in Names, s \in Slots : n # a \/ s # t =>
        \A x \in Suffixes : clones'[n][x] = s <=> clones[n][x] = s
LeasesBut(a, t) == RowsBut(a, t) /\ InstBut(a, t) /\ ClonesBut(a, t)

LEMMA SameLeases ==
    ASSUME NEW a, NEW t
    PROVE  /\ users' = users => RowsBut(a, t)
           /\ inst' = inst => InstBut(a, t)
           /\ clones' = clones => ClonesBut(a, t)
  BY DEF RowsBut, InstBut, ClonesBut, Exists

LEMMA StatusLeases ==
    ASSUME TypeInv, NEW i, NEW st \in Statuses, users' = SetStatus(i, st), NEW a, NEW t
    PROVE  RowsBut(a, t)
  BY SetStatusEffect DEF RowsBut

LEMMA DropLeases ==
    ASSUME TypeInv, IdsUnique, NEW a \in Names, NEW i, Exists(a), users[a].id = i,
           users' = DropRow(i)
    PROVE  RowsBut(a, users[a].slot)
  BY DropRowEffect DEF RowsBut, IdsUnique

LEMMA InstLeases ==
    ASSUME TypeInv, NEW a, NEW t, NEW r \in {None, t},
           inst' = [inst EXCEPT ![a] = r],
           a \in Names => inst[a] \in {None, t}
    PROVE  InstBut(a, t)
  <1>1. None \notin Slots
    BY ConstantsAssumption
  <1> QED
    BY <1>1 DEF InstBut, TypeInv, StoreType

LEMMA CloneLeases ==
    ASSUME TypeInv, NEW a, NEW y, NEW t, NEW r \in {None, t},
           clones' = SetClone(a, y, r),
           a \in Names /\ y \in Suffixes => clones[a][y] \in {None, t}
    PROVE  ClonesBut(a, t)
  <1>1. None \notin Slots
    BY ConstantsAssumption
  <1> SUFFICES ASSUME NEW n \in Names, NEW s \in Slots, n # a \/ s # t, NEW x \in Suffixes
               PROVE  clones'[n][x] = s <=> clones[n][x] = s
    BY DEF ClonesBut
  <1>2. clones[n] \in [Suffixes -> Slots \cup {None}]
    BY DEF TypeInv, StoreType
  <1>3. clones'[n] = IF n = a THEN [clones[n] EXCEPT ![y] = r] ELSE clones[n]
    BY DEF TypeInv, StoreType, SetClone
  <1> QED
    BY <1>1, <1>2, <1>3

\* Every step concerns the leases of one account and one address.
LEMMA OneLease ==
    ASSUME TypeInv, StoreInv, NEW p \in Procs, Flight(p), Start(p) \/ Continue(p) \/ Crash(p)
    PROVE  \E a, t : LeasesBut(a, t)
  <1>1. PICK a, i, s, q, x : /\ a = ctx[p].name /\ i = ctx[p].id /\ s = ctx[p].slot
                             /\ q = ctx[p].port /\ x = ctx[p].sfx
    OBVIOUS
  <1>2. CASE \/ Start(p) \/ Crash(p)
             \/ AddConflict(p) \/ AddProvision(p) \/ AddForward(p) \/ AddReload(p)
             \/ CleanRules(p) \/ CleanReload(p) \/ DelRules(p) \/ DelReload(p)
             \/ ReProvision(p) \/ ShProvision(p) \/ V4User(p) \/ V4Reload(p) \/ V4Record(p)
    <2>1. users' = users /\ inst' = inst /\ clones' = clones
      BY <1>2 DEF Start, AddLookup, DelLookup, ReLookup, ShLookup, Lookup, V4List, Crash,
                  AddConflict, AddProvision, AddForward, AddReload, CleanRules, CleanReload,
                  DelRules, DelReload, ReProvision, ShProvision, V4User, V4Reload, V4Record, store
    <2> QED
      BY <2>1, SameLeases DEF LeasesBut
  <1>3. CASE AddReady(p) \/ ReReady(p) \/ ReMark(p) \/ ShMark(p) \/ ReFail(p)
    <2>1. inst' = inst /\ clones' = clones
      BY <1>3 DEF AddReady, ReReady, MarkReady, ReMark, ShMark, Mark, ReFail
    <2>2. PICK st \in Statuses : users' \in {users, SetStatus(i, st)}
      BY <1>1, <1>3 DEF AddReady, ReReady, MarkReady, ReMark, ShMark, Mark, ReFail, Statuses
    <2>3. RowsBut(a, s)
      BY <2>2, SameLeases, StatusLeases
    <2> QED
      BY <2>1, <2>3, SameLeases DEF LeasesBut
  <1>4. CASE AddInsert(p)
    <2>1. ~Exists(a)
      BY <1>1, <1>4 DEF AddInsert, Flight, AddFlight, AddPcs
    <2>2. inst' = inst /\ clones' = clones
      BY <1>4 DEF AddInsert
    <2>3. \/ users' = users
          \/ \E id \in FreshIds : users' = [users EXCEPT ![a] = NewRow(id, s, q)]
      BY <1>1, <1>4 DEF AddInsert
    <2>4. RowsBut(a, s)
      BY <2>1, <2>3, SameLeases DEF RowsBut, NewRow, Exists, TypeInv, StoreType
    <2> QED
      BY <2>2, <2>4, SameLeases DEF LeasesBut
  <1>5. CASE CleanRow(p) \/ DelRow(p)
    <2>1. inst' = inst /\ clones' = clones
      BY <1>5 DEF CleanRow, DelRow
    <2>2. \/ users' = users
          \/ i # None /\ (users' = SetStatus(i, "failed") \/ users' = DropRow(i))
          \/ DelRow(p) /\ users' = DropRow(i)
      BY <1>1, <1>5 DEF CleanRow, Cleaned, DelRow
    <2>3. users' # users /\ users' # SetStatus(i, "failed") =>
             a \in Names /\ Exists(a) /\ users[a].id = i /\ users' = DropRow(i)
      BY <1>1, <1>5, <2>2 DEF CleanRow, DelRow, Flight, CleanFlight, DelFlight,
                              CleanPcs, DelPcs, OwnRow
    <2>4. RowsBut(a, users[a].slot)
      BY <2>3, SameLeases, StatusLeases, DropLeases DEF StoreInv, Statuses
    <2> QED
      BY <2>1, <2>4, SameLeases DEF LeasesBut
  <1>6. CASE CleanDelete(p) \/ DelInstance(p) \/ ReDelete(p) \/ ReRollback(p) \/ ShDelete(p)
    <2>1. users' = users /\ clones' = clones
          /\ (inst' = inst \/ inst' = [inst EXCEPT ![a] = None])
      BY <1>1, <1>6 DEF CleanDelete, DelInstance, ReDelete, ReRollback, ShDelete, DeleteInstance
    <2>2. InstBut(a, inst[a])
      BY <2>1, SameLeases, InstLeases
    <2> QED
      BY <2>1, <2>2, SameLeases DEF LeasesBut
  <1>7. CASE AddLaunch(p) \/ ReLaunch(p)
    <2>1. users' = users /\ clones' = clones
          /\ \/ inst' = inst
             \/ inst[a] = None /\ \E r \in {None, s} : inst' = [inst EXCEPT ![a] = r]
      BY <1>1, <1>7 DEF AddLaunch, ReLaunch
    <2>2. InstBut(a, s)
      BY <2>1, SameLeases, InstLeases
    <2> QED
      BY <2>1, <2>2, SameLeases DEF LeasesBut
  <1>8. CASE ShClone(p)
    <2>1. users' = users /\ inst' = inst
          /\ \/ clones' = clones
             \/ \E y \in Suffixes, r \in {None, s} :
                   clones[a][y] = None /\ clones' = SetClone(a, y, r)
      BY <1>1, <1>8 DEF ShClone, SetClone
    <2>2. ClonesBut(a, s)
      BY <2>1, SameLeases, CloneLeases
    <2> QED
      BY <2>1, <2>2, SameLeases DEF LeasesBut
  <1>9. CASE ShUndoClone(p)
    <2>1. users' = users /\ inst' = inst
          /\ (clones' = clones \/ clones' = SetClone(a, x, None))
      BY <1>1, <1>9 DEF ShUndoClone, SetClone
    <2>2. ClonesBut(a, clones[a][x])
      BY <2>1, SameLeases, CloneLeases
    <2> QED
      BY <2>1, <2>2, SameLeases DEF LeasesBut
  <1>10. CASE ShRename(p)
    <2>1. clones[a][x] = s
      BY <1>1, <1>10 DEF ShRename, Flight, ReFlight, SharePcs
    <2>2. users' = users
          /\ \/ inst' = inst /\ clones' = clones
             \/ /\ inst[a] = None /\ inst' = [inst EXCEPT ![a] = s]
                /\ clones' = SetClone(a, x, None)
      BY <1>1, <1>10, <2>1 DEF ShRename, SetClone
    <2>3. InstBut(a, s)
      BY <2>2, SameLeases, InstLeases
    <2>4. ClonesBut(a, s)
      BY <2>1, <2>2, SameLeases, CloneLeases
    <2> QED
      BY <2>2, <2>3, <2>4, SameLeases DEF LeasesBut
  <1> QED
    BY <1>2, <1>3, <1>4, <1>5, <1>6, <1>7, <1>8, <1>9, <1>10 DEF Continue

\* An address without a holder is nobody's, and one with a holder is his.
LEMMA HolderIs ==
    ASSUME AddressExclusive, NEW s \in Slots
    PROVE  /\ \A n \in Names : Holds(n, s) => Holder(s) = n
           /\ (\A n \in Names : ~Holds(n, s)) => Holder(s) = None
  BY DEF AddressExclusive, Holder

LEMMA NextHolderIs ==
    ASSUME AddressExclusive', NEW s \in Slots
    PROVE  /\ \A n \in Names : Holds(n, s)' => Holder(s)' = n
           /\ (\A n \in Names : ~Holds(n, s)') => Holder(s)' = None
  BY DEF AddressExclusive, Holder

\* A step that concerns one lease claims it, releases it or does not matter.
LEMMA LeaseMoves ==
    ASSUME AddressExclusive, AddressExclusive', NEW a, NEW t, LeasesBut(a, t)
    PROVE  [Lease!Next]_[s \in Slots |-> Holder(s)]
  <1>1. \A n \in Names, s \in Slots : n # a \/ s # t => (Holds(n, s)' <=> Holds(n, s))
    BY DEF LeasesBut, RowsBut, InstBut, ClonesBut, Holds
  <1>2. \A s \in Slots : s # t => Holder(s)' = Holder(s)
    BY <1>1, HolderIs, NextHolderIs
  <1>3. t \in Slots => \/ Holder(t)' = Holder(t)
                       \/ Holder(t)' = None
                       \/ Holder(t) = None /\ Holder(t)' \in Names
    BY <1>1, HolderIs, NextHolderIs
  <1>4. CASE t \notin Slots \/ Holder(t)' = Holder(t)
    BY <1>2, <1>4
  <1>5. CASE t \in Slots /\ Holder(t)' = None
    BY <1>2, <1>5 DEF Lease!Next, Lease!Release
  <1>6. CASE t \in Slots /\ Holder(t) = None /\ Holder(t)' \in Names
    BY <1>2, <1>6 DEF Lease!Next, Lease!Claim
  <1> QED
    BY <1>3, <1>4, <1>5, <1>6

\* With one process, the handlers implement the table of leases: whatever calls
\* they make, fail at or crash between, an address goes from one account to
\* another only by being free (Add, Del, Reinstall, ReinstallFromShare).
THEOREM LeasesImplemented ==
    ASSUME SingleProcess
    PROVE  Spec => LeaseSpec
  <1>1. Init => Lease!Init
    <2> SUFFICES ASSUME Init, NEW s \in Slots PROVE Holder(s) = None
      BY DEF Lease!Init
    <2>1. \A n \in Names : ~Holds(n, s)
      BY ConstantsAssumption DEF Init, Holds, Exists
    <2> QED
      BY <2>1 DEF Holder
  <1>2. ASSUME TypeInv, SafeInv, TypeInv', SafeInv', [Next]_vars
        PROVE  [Lease!Next]_[s \in Slots |-> Holder(s)]
    <2>1. CASE UNCHANGED vars
      BY <2>1 DEF vars, Holder, Holds, Exists
    <2>2. CASE Next
      <3>1. PICK p \in Procs : Start(p) \/ Continue(p) \/ Crash(p)
        BY <2>2 DEF Next
      <3>2. PICK a, t : LeasesBut(a, t)
        BY <1>2, <3>1, OneLease DEF SafeInv
      <3> QED
        BY <1>2, <3>2, LeaseMoves DEF SafeInv, StoreInv
    <2> QED
      BY <1>2, <2>1, <2>2
  <1> QED
    BY <1>1, <1>2, TypeInitially, TypeInductive, SafeInitially, SafeInductive, PTL
       DEF Spec, LeaseSpec, Lease!Spec

-----------------------------------------------------------------------------
(* The forwarding rules, with one process and rule files that can be         *)
(* removed: the files name only accounts there are, each with its own        *)
(* address and port, and the kernel runs the files whenever a handler has    *)
(* reloaded.                                                                 *)

\* A file that cannot be removed outlives its account (the run stale_rule).
RulesRemovable == "remove" \notin Faults

RuleOf(n) == [slot |-> users[n].slot, port |-> users[n].port]
Policy(n, want) == IF want /\ Exists(n) THEN RuleOf(n) ELSE None

FilesMatch == \A n \in Names : files[n] # None => Exists(n) /\ files[n] = RuleOf(n)
PortsUnique ==
    \A n, m \in Names : Exists(n) /\ Exists(m) /\ users[n].port = users[m].port => n = m

\* What a create knows about its port and its file.
AddRules(p) ==
    LET n == ctx[p].name IN
    /\ pc[p] \in {"add_forward", "add_reload", "add_ready"} => users[n].port = ctx[p].port
    /\ pc[p] \in {"add_reload", "add_ready"} /\ direct => files[n] = RuleOf(n)
    /\ pc[p] = "add_ready" => live = files
\* A rollback and a delete have removed the file before they drop the row.
GoneRules(p) ==
    pc[p] \in {"clean_reload", "clean_row", "del_reload", "del_row"} => files[ctx[p].name] = None
\* ApplyV4State: what is left on the list is an account as it is, and the
\* files of all others are as the policy wants them.
Listed(p) ==
    \A u \in ctx[p].todo : u.name \in Names /\ Exists(u.name)
                            /\ u.slot = users[u.name].slot /\ u.port = users[u.name].port
V4Rules(p) ==
    /\ pc[p] = "v4_user" =>
          /\ Listed(p)
          /\ \A m \in Names : (\A u \in ctx[p].todo : u.name # m) => files[m] = Policy(m, ctx[p].want)
    /\ pc[p] = "v4_reload" => \A m \in Names : files[m] = Policy(m, ctx[p].want)
    /\ pc[p] = "v4_record" => \A m \in Names : live[m] = Policy(m, ctx[p].want)
RuleFlight(p) == AddRules(p) /\ GoneRules(p) /\ V4Rules(p)
RulePcs == {"add_forward", "add_reload", "add_ready", "clean_reload", "clean_row",
            "del_reload", "del_row"} \cup V4Pcs

TableInv == FilesMatch /\ PortsUnique
RulesInv == TableInv /\ \A p \in Procs : RuleFlight(p)

\* Elsewhere a handler relies on no rule.
LEMMA NoRules ==
    ASSUME NEW p \in Procs, pc'[p] \notin RulePcs
    PROVE  RuleFlight(p)'
  BY DEF RulePcs, V4Pcs, RuleFlight, AddRules, GoneRules, V4Rules

LEMMA GoneOnly ==
    ASSUME NEW p \in Procs, pc'[p] \in {"clean_reload", "clean_row", "del_reload", "del_row"},
           files'[ctx'[p].name] = None
    PROVE  RuleFlight(p)'
  BY DEF RuleFlight, AddRules, GoneRules, V4Rules

LEMMA AddOnly ==
    ASSUME NEW p \in Procs, pc'[p] \in {"add_forward", "add_reload", "add_ready"}, AddRules(p)'
    PROVE  RuleFlight(p)'
  BY DEF RuleFlight, GoneRules, V4Rules

LEMMA V4Only ==
    ASSUME NEW p \in Procs, pc'[p] \in V4Pcs, V4Rules(p)'
    PROVE  RuleFlight(p)'
  BY DEF V4Pcs, RuleFlight, AddRules, GoneRules

\* Rows only go, or change their status, and files only go with or before them.
LEMMA TableShrinks ==
    ASSUME TableInv,
           \A n \in Names : Exists(n)' =>
              Exists(n) /\ users'[n].slot = users[n].slot /\ users'[n].port = users[n].port,
           \A n \in Names : files'[n] = None \/ (files'[n] = files[n] /\ (Exists(n) => Exists(n)'))
    PROVE  TableInv'
  <1>1. FilesMatch'
    <2> SUFFICES ASSUME NEW n \in Names, files'[n] # None
                 PROVE  Exists(n)' /\ files'[n] = RuleOf(n)'
      BY DEF FilesMatch
    <2>1. files'[n] = files[n] /\ Exists(n) /\ files[n] = RuleOf(n)
      BY DEF TableInv, FilesMatch
    <2> QED
      BY <2>1 DEF RuleOf
  <1>2. PortsUnique'
    BY DEF TableInv, PortsUnique
  <1> QED
    BY <1>1, <1>2 DEF TableInv

LEMMA TableSame ==
    ASSUME TableInv, UNCHANGED <<users, files>>
    PROVE  TableInv'
  BY DEF TableInv, FilesMatch, PortsUnique, RuleOf, Exists

\* An update of a status leaves ports as they are.
LEMMA SetStatusPort ==
    ASSUME TypeInv, NEW i, NEW st \in Statuses, users' = SetStatus(i, st)
    PROVE  \A n \in Names : Exists(n) => users'[n].port = users[n].port
  <1> SUFFICES ASSUME NEW n \in Names, Exists(n) PROVE users'[n].port = users[n].port
    OBVIOUS
  <1>1. users[n] \in Row
    BY DEF Exists, TypeInv, StoreType
  <1>2. users'[n] \in {users[n], [users[n] EXCEPT !.status = st]}
    BY DEF SetStatus
  <1> QED
    BY <1>1, <1>2 DEF Row

LEMMA StatusTable ==
    ASSUME TypeInv, TableInv, NEW i, NEW st \in Statuses,
           users' \in {users, SetStatus(i, st)}, UNCHANGED files
    PROVE  TableInv'
  <1>1. CASE users' = users
    BY <1>1, TableSame
  <1>2. CASE users' = SetStatus(i, st)
    BY <1>2, SetStatusEffect, SetStatusPort, TableShrinks
  <1> QED
    BY <1>1, <1>2

\* The row of a name without a file may go.
LEMMA DropTable ==
    ASSUME TypeInv, StoreInv, TableInv, NEW n \in Names, Exists(n), files[n] = None,
           users' \in {users, DropRow(users[n].id)}, UNCHANGED files
    PROVE  TableInv'
  <1>1. CASE users' = users
    BY <1>1, TableSame
  <1>2. CASE users' = DropRow(users[n].id)
    <2>1. \A m \in Names : Exists(m) /\ users[m].id = users[n].id => m = n
      BY DEF StoreInv, IdsUnique
    <2>2. \A m \in Names : Exists(m)' => Exists(m) /\ users'[m] = users[m]
      BY <1>2, DropRowEffect
    <2>3. \A m \in Names : m # n /\ Exists(m) => Exists(m)'
      BY <1>2, <2>1, DropRowEffect
    <2> QED
      BY <2>2, <2>3, TableShrinks
  <1> QED
    BY <1>1, <1>2

\* A file as its row says, or none.
LEMMA WriteTable ==
    ASSUME TypeInv, TableInv, NEW n, n \in Names => Exists(n),
           NEW r, n \in Names => r \in {None, RuleOf(n)},
           files' \in {files, [files EXCEPT ![n] = None], [files EXCEPT ![n] = r]},
           UNCHANGED users
    PROVE  TableInv'
  <1>1. \A m \in Names : files'[m] \in {files[m], None} \/ (m = n /\ files'[m] = RuleOf(n))
    BY DEF TypeInv, StoreType
  <1>2. FilesMatch'
    BY <1>1 DEF TableInv, FilesMatch, RuleOf, Exists
  <1>3. PortsUnique'
    BY DEF TableInv, PortsUnique, Exists
  <1> QED
    BY <1>2, <1>3 DEF TableInv

\* Steps that touch neither rows nor files and end where nothing is relied on.
LEMMA QuietRules ==
    ASSUME TypeInv, TableInv, NEW p \in Procs,
           \/ AddConflict(p) \/ AddLaunch(p) \/ AddProvision(p) \/ CleanDelete(p)
           \/ DelInstance(p) \/ ReDelete(p) \/ ReLaunch(p) \/ ReProvision(p) \/ ReRollback(p)
           \/ ShClone(p) \/ ShDelete(p) \/ ShRename(p) \/ ShProvision(p) \/ ShUndoClone(p)
           \/ Crash(p)
    PROVE  TableInv' /\ RuleFlight(p)'
  <1>1. users' = users /\ files' = files
    BY DEF AddConflict, AddLaunch, AddProvision, CleanDelete, DelInstance, ReDelete, ReLaunch,
           ReProvision, ReRollback, ShClone, ShDelete, ShRename, ShProvision, ShUndoClone,
           Crash, store
  <1>2. CASE AddConflict(p) \/ AddLaunch(p) \/ AddProvision(p) \/ CleanDelete(p) \/ DelInstance(p)
    <2>1. pc'[p] \in {"idle", "add_launch", "add_provision", "add_insert", "clean_delete",
                      "clean_rules", "del_rules"}
      BY <1>2, Lands DEF AddConflict, AddLaunch, AddProvision, CleanDelete, DelInstance
    <2> QED
      BY <1>1, <2>1, TableSame, NoRules DEF RulePcs, V4Pcs
  <1>3. CASE \/ ReDelete(p) \/ ReLaunch(p) \/ ReProvision(p) \/ ReRollback(p)
             \/ ShClone(p) \/ ShDelete(p) \/ ShRename(p) \/ ShProvision(p) \/ ShUndoClone(p)
             \/ Crash(p)
    <2>1. pc'[p] \in {"idle"} \cup RePcs \cup SharePcs
      <3>1. CASE ReDelete(p) \/ ReLaunch(p) \/ ReProvision(p) \/ ReRollback(p) \/ Crash(p)
        BY <3>1, Lands DEF ReDelete, ReLaunch, ReProvision, ReRollback, Crash, RePcs
      <3>2. CASE ShClone(p) \/ ShDelete(p) \/ ShRename(p) \/ ShProvision(p) \/ ShUndoClone(p)
        BY <3>2, Lands DEF ShClone, ShDelete, ShRename, ShProvision, ShUndoClone, RePcs, SharePcs
      <3> QED
        BY <1>3, <3>1, <3>2
    <2> QED
      BY <1>1, <2>1, TableSame, NoRules DEF RulePcs, V4Pcs, RePcs, SharePcs
  <1> QED
    BY <1>2, <1>3

\* A handler's first step; ApplyV4State lists the accounts as they are.
LEMMA StartRules ==
    ASSUME TypeInv, TableInv, NEW p \in Procs, Start(p)
    PROVE  TableInv' /\ RuleFlight(p)'
  <1>1. users' = users /\ files' = files
    BY DEF Start, AddLookup, DelLookup, ReLookup, ShLookup, Lookup, V4List, store
  <1>2. TableInv'
    BY <1>1, TableSame
  <1>3. CASE V4List(p)
    <2> DEFINE rows == {[name |-> n, slot |-> users[n].slot, port |-> users[n].port] :
                           n \in {m \in Names : Exists(m)}}
    <2>1. PICK want \in BOOLEAN :
             Enter(p, "v4_user", [NoCtx EXCEPT !.want = want, !.todo = rows])
      BY <1>3 DEF V4List
    <2>2. PICK c : c = [NoCtx EXCEPT !.want = want, !.todo = rows]
      OBVIOUS
    <2>3. c.want = want /\ c.todo = rows
      BY <2>2 DEF NoCtx
    <2>4. pc'[p] = "v4_user" /\ ctx'[p] = c
      BY <2>1, <2>2, Lands
    <2>5. \A u \in rows : u.name \in Names /\ Exists(u.name)
                             /\ u.slot = users[u.name].slot /\ u.port = users[u.name].port
      OBVIOUS
    <2>6. \A m \in Names : Exists(m) => \E u \in rows : u.name = m
      <3> SUFFICES ASSUME NEW m \in Names, Exists(m) PROVE \E u \in rows : u.name = m
        OBVIOUS
      <3>1. [name |-> m, slot |-> users[m].slot, port |-> users[m].port] \in rows
        OBVIOUS
      <3> QED
        BY <3>1
    <2>7. \A m \in Names : (\A u \in rows : u.name # m) => files[m] = Policy(m, want)
      BY <2>6 DEF TableInv, FilesMatch, Policy
    <2>8. V4Rules(p)'
      <3> HIDE DEF rows
      <3>1. Listed(p)'
        BY <1>1, <2>3, <2>4, <2>5 DEF Listed, Exists
      <3>2. \A m \in Names : Policy(m, want)' = Policy(m, want)
        BY <1>1 DEF Policy, RuleOf, Exists
      <3> QED
        BY <1>1, <2>3, <2>4, <2>7, <3>1, <3>2 DEF V4Rules, Policy, RuleOf, Exists
    <2> QED
      BY <1>2, <2>4, <2>8, V4Only DEF V4Pcs
  <1>4. CASE ~V4List(p)
    <2>1. pc'[p] \in {"add_conflict", "del_instance", "re_mark", "sh_mark"}
      BY <1>4, Lands DEF Start, AddLookup, DelLookup, ReLookup, ShLookup, Lookup
    <2> QED
      BY <1>2, <2>1, NoRules DEF RulePcs, V4Pcs
  <1> QED
    BY <1>3, <1>4

\* The new row has a port of its own and no file yet.
LEMMA InsertRules ==
    ASSUME TypeInv, StoreInv, TableInv, NEW p \in Procs, Flight(p), AddInsert(p)
    PROVE  TableInv' /\ RuleFlight(p)'
  <1>1. PICK n, s, q : n = ctx[p].name /\ s = ctx[p].slot /\ q = ctx[p].port
    OBVIOUS
  <1>2. n \in Names /\ s \in Slots /\ q \in Ports /\ ~Exists(n)
    BY <1>1 DEF AddInsert, Flight, AddFlight, AddPcs
  <1>3. files' = files
    BY DEF AddInsert
  <1>4. ASSUME NEW i \in FreshIds, users' = [users EXCEPT ![n] = NewRow(i, s, q)],
               Enter(p, "add_forward", [ctx[p] EXCEPT !.id = i]), Unique(n, s, q)
        PROVE  TableInv' /\ RuleFlight(p)'
    <2>1. /\ users'[n] = NewRow(i, s, q)
          /\ \A m \in Names \ {n} : users'[m] = users[m]
      BY <1>2, <1>4 DEF TypeInv, StoreType
    <2>2. users'[n].port = q
      BY <2>1 DEF NewRow
    <2>3. \A m \in Names : Exists(m) => users[m].port # q
      BY <1>4 DEF Unique, UsedPorts
    <2>4. PortsUnique'
      BY <2>1, <2>2, <2>3 DEF TableInv, PortsUnique, Exists
    <2>5. FilesMatch'
      BY <1>2, <1>3, <2>1 DEF TableInv, FilesMatch, RuleOf, Exists
    <2>6. PICK c : c = [ctx[p] EXCEPT !.id = i]
      OBVIOUS
    <2>7. c.name = n /\ c.port = q
      BY <1>1, <2>6 DEF TypeInv, LocalsType, Ctx
    <2>8. pc'[p] = "add_forward" /\ ctx'[p] = c
      BY <1>4, <2>6, Lands
    <2>9. AddRules(p)'
      BY <2>2, <2>7, <2>8 DEF AddRules
    <2> QED
      BY <2>4, <2>5, <2>8, <2>9, AddOnly DEF TableInv
  <1>5. CASE Goto(p, "clean_delete") /\ UNCHANGED users
    <2>1. pc'[p] = "clean_delete"
      BY <1>5, Lands
    <2> QED
      BY <1>3, <1>5, <2>1, TableSame, NoRules DEF RulePcs, V4Pcs
  <1> QED
    BY <1>1, <1>4, <1>5 DEF AddInsert

\* The file of a create, and the reload.
LEMMA ForwardRules ==
    ASSUME TypeInv, StoreInv, TableInv, NEW p \in Procs, Flight(p), RuleFlight(p),
           AddForward(p) \/ AddReload(p)
    PROVE  TableInv' /\ RuleFlight(p)'
  <1>1. PICK n, s, q : n = ctx[p].name /\ s = ctx[p].slot /\ q = ctx[p].port
    OBVIOUS
  <1>2. n \in Names /\ Exists(n) /\ users[n].slot = s /\ users[n].port = q
    BY <1>1 DEF AddForward, AddReload, Flight, AddFlight, AddPcs, OwnRow, RuleFlight, AddRules
  <1>3. users' = users
    BY DEF AddForward, AddReload
  <1>4. RuleOf(n) = [slot |-> s, port |-> q] /\ RuleOf(n)' = RuleOf(n)
    BY <1>2, <1>3 DEF RuleOf
  <1>5. CASE AddForward(p)
    <2>1. files' \in {files, [files EXCEPT ![n] = None], [files EXCEPT ![n] = RuleOf(n)]}
      BY <1>1, <1>4, <1>5 DEF AddForward, HalfWritten
    <2>2. TableInv'
      BY <1>2, <1>3, <2>1, WriteTable
    <2>3. CASE Goto(p, "clean_delete")
      <3>1. pc'[p] = "clean_delete"
        BY <2>3, Lands
      <3> QED
        BY <2>2, <3>1, NoRules DEF RulePcs, V4Pcs
    <2>4. CASE Goto(p, "add_reload") /\ (direct => files' = [files EXCEPT ![n] = RuleOf(n)])
      <3>1. pc'[p] = "add_reload" /\ ctx'[p] = ctx[p]
        BY <2>4, Lands
      <3>2. direct' = direct
        BY <1>5 DEF AddForward
      <3>3. direct => files'[n] = RuleOf(n)
        BY <1>2, <2>4 DEF TypeInv, StoreType
      <3>4. AddRules(p)'
        BY <1>1, <1>2, <1>3, <1>4, <3>1, <3>2, <3>3 DEF AddRules
      <3> QED
        BY <2>2, <3>1, <3>4, AddOnly
    <2> QED
      BY <1>1, <1>4, <1>5, <2>3, <2>4 DEF AddForward
  <1>6. CASE AddReload(p)
    <2>1. files' = files /\ direct' = direct
      BY <1>6 DEF AddReload
    <2>2. TableInv'
      BY <1>3, <2>1, TableSame
    <2>3. direct => files[n] = RuleOf(n)
      BY <1>1, <1>6 DEF AddReload, RuleFlight, AddRules
    <2>4. CASE live' = files /\ Goto(p, "add_ready")
      <3>1. pc'[p] = "add_ready" /\ ctx'[p] = ctx[p]
        BY <2>4, Lands
      <3>2. AddRules(p)'
        BY <1>1, <1>2, <1>3, <1>4, <2>1, <2>3, <2>4, <3>1 DEF AddRules
      <3> QED
        BY <2>2, <3>1, <3>2, AddOnly
    <2>5. CASE Goto(p, "clean_delete")
      <3>1. pc'[p] = "clean_delete"
        BY <2>5, Lands
      <3> QED
        BY <2>2, <3>1, NoRules DEF RulePcs, V4Pcs
    <2> QED
      BY <1>6, <2>4, <2>5 DEF AddReload, ReloadRules
  <1> QED
    BY <1>5, <1>6

\* The other writes of a status.
LEMMA StatusRules ==
    ASSUME TypeInv, TableInv, NEW p \in Procs,
           AddReady(p) \/ ReReady(p) \/ ReMark(p) \/ ShMark(p) \/ ReFail(p)
    PROVE  TableInv' /\ RuleFlight(p)'
  <1>1. files' = files
    BY DEF AddReady, ReReady, MarkReady, ReMark, ShMark, Mark, ReFail
  <1>2. PICK st \in Statuses : users' \in {users, SetStatus(ctx[p].id, st)}
    BY DEF AddReady, ReReady, MarkReady, ReMark, ShMark, Mark, ReFail, Statuses
  <1>3. pc'[p] \in {"idle", "re_delete", "sh_clone"}
    BY Lands DEF AddReady, ReReady, MarkReady, ReMark, ShMark, Mark, ReFail
  <1> QED
    BY <1>1, <1>2, <1>3, StatusTable, NoRules DEF RulePcs, V4Pcs

\* The rollback of a create and the end of a delete.
LEMMA GoneRulesKept ==
    ASSUME RulesRemovable, TypeInv, StoreInv, TableInv, NEW p \in Procs, Flight(p), RuleFlight(p),
           \/ CleanRules(p) \/ CleanReload(p) \/ CleanRow(p)
           \/ DelRules(p) \/ DelReload(p) \/ DelRow(p)
    PROVE  TableInv' /\ RuleFlight(p)'
  <1>1. PICK n, i : n = ctx[p].name /\ i = ctx[p].id
    OBVIOUS
  <1>2. n \in Names /\ (i # None => Exists(n) /\ users[n].id = i)
    BY <1>1 DEF CleanRules, CleanReload, CleanRow, DelRules, DelReload, DelRow,
                Flight, CleanFlight, DelFlight, CleanPcs, DelPcs, OwnRow
  <1>3. [ctx[p] EXCEPT !.dirty = TRUE].name = n
    BY <1>1 DEF TypeInv, LocalsType, Ctx
  <1>4. CASE CleanRules(p) \/ DelRules(p)
    <2>1. users' = users /\ files' = [files EXCEPT ![n] = None]
      BY <1>1, <1>4 DEF CleanRules, DelRules, RulesRemovable, MayFail
    <2>2. files'[n] = None
      BY <1>2, <2>1 DEF TypeInv, StoreType
    <2>3. pc'[p] \in {"clean_reload", "del_reload"} /\ ctx'[p] = ctx[p]
      BY <1>4, Lands DEF CleanRules, DelRules, RulesRemovable, MayFail
    <2>4. TableInv'
      <3>1. \A m \in Names : files'[m] \in {files[m], None}
        BY <2>1 DEF TypeInv, StoreType
      <3> QED
        BY <2>1, <3>1, TableShrinks DEF Exists
    <2>5. files'[ctx'[p].name] = None
      BY <1>1, <2>2, <2>3
    <2> QED
      BY <2>3, <2>4, <2>5, GoneOnly
  <1>5. CASE CleanReload(p) \/ DelReload(p)
    <2>1. users' = users /\ files' = files
      BY <1>5 DEF CleanReload, DelReload
    <2>2. files[n] = None
      BY <1>1, <1>5 DEF CleanReload, DelReload, RuleFlight, GoneRules
    <2>3. /\ pc'[p] \in {"clean_row", "del_row"}
          /\ ctx'[p] \in {ctx[p], [ctx[p] EXCEPT !.dirty = TRUE]}
      BY <1>5, Lands DEF CleanReload, DelReload
    <2>4. ctx'[p].name = n
      BY <1>1, <1>3, <2>3
    <2> QED
      BY <2>1, <2>2, <2>3, <2>4, TableSame, GoneOnly
  <1>6. CASE CleanRow(p) \/ DelRow(p)
    <2>1. files' = files /\ files[n] = None
      BY <1>1, <1>6 DEF CleanRow, DelRow, RuleFlight, GoneRules
    <2>2. pc'[p] = "idle"
      BY <1>6, Lands DEF CleanRow, DelRow
    <2>3. DelRow(p) => Exists(n) /\ users[n].id = i
      BY <1>1 DEF DelRow, Flight, DelFlight, DelPcs, OwnRow
    <2>4. \/ users' = users
          \/ users' = SetStatus(i, "failed")
          \/ Exists(n) /\ users[n].id = i /\ users' = DropRow(i)
      BY <1>1, <1>2, <1>6, <2>3 DEF CleanRow, Cleaned, DelRow
    <2>5. TableInv'
      BY <1>2, <2>1, <2>4, TableSame, StatusTable, DropTable DEF Statuses
    <2> QED
      BY <2>2, <2>5, NoRules DEF RulePcs, V4Pcs
  <1> QED
    BY <1>4, <1>5, <1>6

\* ApplyV4State brings one account's file after the other to the policy.
LEMMA V4UserRules ==
    ASSUME TypeInv, TableInv, NEW p \in Procs, RuleFlight(p), V4User(p)
    PROVE  TableInv' /\ RuleFlight(p)'
  <1>1. PICK want, todo : want = ctx[p].want /\ todo = ctx[p].todo
    OBVIOUS
  <1>2. users' = users
    BY DEF V4User
  <1>3. /\ \A u \in todo : u.name \in Names /\ Exists(u.name) /\ [slot |-> u.slot, port |-> u.port] = RuleOf(u.name)
        /\ \A m \in Names : (\A u \in todo : u.name # m) => files[m] = Policy(m, want)
    BY <1>1 DEF V4User, RuleFlight, V4Rules, Listed, RuleOf
  <1>4. \A m \in Names : Policy(m, want)' = Policy(m, want)
    BY <1>2 DEF Policy, RuleOf, Exists
  <1>5. CASE todo = {} /\ Goto(p, "v4_reload") /\ UNCHANGED files
    <2>1. pc'[p] = "v4_reload" /\ ctx'[p] = ctx[p]
      BY <1>5, Lands
    <2>2. V4Rules(p)'
      BY <1>1, <1>3, <1>4, <1>5, <2>1 DEF V4Rules, Policy, RuleOf, Exists
    <2> QED
      BY <1>2, <1>5, <2>1, <2>2, TableSame, V4Only DEF V4Pcs
  <1>6. ASSUME NEW u \in todo, NEW r, r = (IF want THEN RuleOf(u.name) ELSE None),
               files' = [files EXCEPT ![u.name] = r],
               Enter(p, "v4_user", [ctx[p] EXCEPT !.todo = todo \ {u}])
        PROVE  TableInv' /\ RuleFlight(p)'
    <2>1. TableInv'
      BY <1>2, <1>3, <1>6, WriteTable
    <2>2. PICK c : c = [ctx[p] EXCEPT !.todo = todo \ {u}]
      OBVIOUS
    <2>3. c.want = want /\ c.todo = todo \ {u}
      BY <1>1, <2>2 DEF TypeInv, LocalsType, Ctx
    <2>4. pc'[p] = "v4_user" /\ ctx'[p] = c
      BY <1>6, <2>2, Lands
    <2>5. Listed(p)'
      BY <1>1, <1>2, <2>3, <2>4 DEF Listed, Exists, V4User, RuleFlight, V4Rules
    <2>6. /\ files'[u.name] = Policy(u.name, want)
          /\ \A m \in Names : m # u.name => files'[m] = files[m]
      BY <1>3, <1>6 DEF Policy, TypeInv, StoreType
    <2>7. \A m \in Names : (\A v \in todo \ {u} : v.name # m) => files'[m] = Policy(m, want)
      BY <1>3, <2>6
    <2>8. V4Rules(p)'
      BY <1>4, <2>3, <2>4, <2>5, <2>7 DEF V4Rules, Policy, RuleOf, Exists
    <2> QED
      BY <2>1, <2>4, <2>8, V4Only DEF V4Pcs
  <1>7. ASSUME NEW u \in todo, NEW r, r = (IF want THEN RuleOf(u.name) ELSE None),
               files' \in HalfWritten(u.name, r) \/ UNCHANGED files, Return(p)
        PROVE  TableInv' /\ RuleFlight(p)'
    <2>1. TableInv'
      BY <1>2, <1>3, <1>7, WriteTable DEF HalfWritten
    <2>2. pc'[p] = "idle"
      BY <1>7, Lands
    <2> QED
      BY <2>1, <2>2, NoRules DEF RulePcs, V4Pcs
  <1> QED
    BY <1>1, <1>3, <1>5, <1>6, <1>7 DEF V4User

LEMMA V4RulesKept ==
    ASSUME TypeInv, TableInv, NEW p \in Procs, RuleFlight(p), V4Reload(p) \/ V4Record(p)
    PROVE  TableInv' /\ RuleFlight(p)'
  <1>1. users' = users /\ files' = files
    BY DEF V4Reload, V4Record
  <1>2. CASE V4Reload(p) /\ ~Return(p)
    <2>1. pc'[p] = "v4_record" /\ ctx'[p] = ctx[p] /\ live' = files
      BY <1>2, Lands DEF V4Reload, ReloadRules
    <2>2. \A m \in Names : files[m] = Policy(m, ctx[p].want)
      BY <1>2 DEF V4Reload, RuleFlight, V4Rules
    <2>3. V4Rules(p)'
      BY <1>1, <2>1, <2>2 DEF V4Rules, Policy, RuleOf, Exists
    <2> QED
      BY <1>1, <2>1, <2>3, TableSame, V4Only DEF V4Pcs
  <1>3. CASE Return(p)
    <2>1. pc'[p] = "idle"
      BY <1>3, Lands
    <2> QED
      BY <1>1, <2>1, TableSame, NoRules DEF RulePcs, V4Pcs
  <1> QED
    BY <1>2, <1>3 DEF V4Record

LEMMA StepRules ==
    ASSUME RulesRemovable, TypeInv, StoreInv, TableInv, NEW p \in Procs, Flight(p), RuleFlight(p),
           Start(p) \/ Continue(p) \/ Crash(p)
    PROVE  TableInv' /\ RuleFlight(p)'
  BY QuietRules, StartRules, InsertRules, ForwardRules, StatusRules, GoneRulesKept, V4UserRules,
     V4RulesKept DEF Continue

LEMMA RulesInitially == Init => RulesInv
  BY DEF Init, RulesInv, TableInv, FilesMatch, PortsUnique, Exists,
         RuleFlight, AddRules, GoneRules, V4Rules

LEMMA RulesInductive ==
    ASSUME SingleProcess, RulesRemovable
    PROVE  TypeInv /\ SafeInv /\ RulesInv /\ [Next]_vars => RulesInv'
  <1> SUFFICES ASSUME TypeInv, SafeInv, RulesInv, [Next]_vars PROVE RulesInv'
    OBVIOUS
  <1>1. CASE UNCHANGED vars
    BY <1>1 DEF vars, RulesInv, TableInv, FilesMatch, PortsUnique, RuleFlight, AddRules, GoneRules,
                V4Rules, Listed, Policy, RuleOf, Exists
  <1>2. ASSUME NEW p \in Procs, Start(p) \/ Continue(p) \/ Crash(p)
        PROVE  RulesInv'
    <2>1. TableInv' /\ RuleFlight(p)'
      BY <1>2, StepRules DEF SafeInv, RulesInv
    <2>2. \A q \in Procs : q = p
      BY DEF SingleProcess
    <2> QED
      BY <2>1, <2>2 DEF RulesInv
  <1> QED
    BY <1>1, <1>2 DEF Next

\* With one process and rule files that can be removed, a create that reports
\* its account ready has left the kernel forwarding as the policy says, the
\* account's port to its own container and nobody else's (Add, fw.Reload).
THEOREM CreatesForward ==
    ASSUME SingleProcess, RulesRemovable
    PROVE  Spec => CreateForwards
  <1>1. ASSUME TypeInv, SafeInv, RulesInv, NEW p \in Procs, NEW n \in Names,
               pc[p] = "add_ready", ctx[p].name = n
        PROVE  /\ direct => live[n] = [slot |-> users[n].slot, port |-> users[n].port]
               /\ \A m \in Names : live[m] # None =>
                     /\ live[m].slot = users[n].slot <=> m = n
                     /\ live[m].port = users[n].port <=> m = n
    <2>1. Exists(n) /\ live = files /\ (direct => files[n] = RuleOf(n))
      BY <1>1 DEF SafeInv, Flight, AddFlight, AddPcs, OwnRow, RulesInv, RuleFlight, AddRules
    <2>2. ASSUME NEW m \in Names, live[m] # None
          PROVE  /\ live[m].slot = users[n].slot <=> m = n
                 /\ live[m].port = users[n].port <=> m = n
      <3>1. Exists(m) /\ live[m].slot = users[m].slot /\ live[m].port = users[m].port
        <4>1. Exists(m) /\ live[m] = RuleOf(m)
          BY <1>1, <2>1, <2>2 DEF RulesInv, TableInv, FilesMatch
        <4> QED
          BY <4>1 DEF RuleOf
      <3>2. users[m].slot \in Slots
        BY <1>1, <3>1 DEF Exists, TypeInv, StoreType, Row
      <3>3. users[m].slot = users[n].slot => m = n
        BY <1>1, <2>1, <3>1, <3>2 DEF SafeInv, StoreInv, AddressExclusive, Holds
      <3>4. users[m].port = users[n].port => m = n
        BY <1>1, <2>1, <3>1 DEF RulesInv, TableInv, PortsUnique
      <3> QED
        BY <3>1, <3>3, <3>4
    <2> QED
      BY <2>1, <2>2 DEF RuleOf
  <1>2. ASSUME TypeInv, SafeInv, RulesInv
        PROVE  [\A p \in Procs, n \in Names :
                   pc[p] = "add_ready" /\ ctx[p].name = n /\ Ready(n)' =>
                       /\ direct => live[n] = [slot |-> users[n].slot, port |-> users[n].port]
                       /\ \A m \in Names : live[m] # None =>
                             /\ live[m].slot = users[n].slot <=> m = n
                             /\ live[m].port = users[n].port <=> m = n]_vars
    BY <1>1, <1>2
  <1> QED
    BY <1>2, TypeInitially, TypeInductive, SafeInitially, SafeInductive, RulesInitially,
       RulesInductive, PTL DEF Spec, CreateForwards

\* Under the same hypotheses, once ApplyV4State has recorded a policy the kernel
\* forwards exactly the accounts there are, each to its own container, or nobody.
THEOREM PoliciesApplied ==
    ASSUME SingleProcess, RulesRemovable
    PROVE  Spec => PolicyApplied
  <1>1. ASSUME TypeInv, RulesInv, [Next]_vars
        PROVE  [\A p \in Procs :
                   pc[p] = "v4_record" /\ direct' # direct =>
                       \A n \in Names :
                           live'[n] = IF direct' /\ Exists(n)
                                      THEN [slot |-> users[n].slot, port |-> users[n].port]
                                      ELSE None]_vars
    <2> SUFFICES ASSUME NEW p \in Procs, pc[p] = "v4_record", direct' # direct, NEW n \in Names
                 PROVE  live'[n] = IF direct' /\ Exists(n)
                                   THEN [slot |-> users[n].slot, port |-> users[n].port]
                                   ELSE None
      OBVIOUS
    <2>1. PICK q \in Procs : Start(q) \/ Continue(q) \/ Crash(q)
      BY <1>1 DEF Next, vars
    <2>2. V4Record(q)
      BY <2>1 DEF Start, AddLookup, DelLookup, ReLookup, ShLookup, Lookup, V4List, Crash, Continue,
                  AddConflict, AddLaunch, AddProvision, AddInsert, AddForward, AddReload, AddReady,
                  MarkReady, CleanDelete, CleanRules, CleanReload, CleanRow, DelInstance, DelRules,
                  DelReload, DelRow, ReMark, ShMark, Mark, ReDelete, ReLaunch, ReProvision, ReReady,
                  ReRollback, ReFail, ShClone, ShDelete, ShRename, ShProvision, ShUndoClone, V4User,
                  V4Reload, store
    <2>3. q = p
      BY DEF SingleProcess
    <2>4. live' = live /\ direct' = ctx[p].want
      BY <2>2, <2>3 DEF V4Record
    <2>5. live[n] = Policy(n, ctx[p].want)
      BY <1>1 DEF RulesInv, RuleFlight, V4Rules
    <2> QED
      BY <2>4, <2>5 DEF Policy, RuleOf
  <1> QED
    BY <1>1, TypeInitially, TypeInductive, SafeInitially, SafeInductive, RulesInitially,
       RulesInductive, PTL DEF Spec, PolicyApplied

-----------------------------------------------------------------------------
(* Any number of processes creating and deleting at the same time: every     *)
(* container is on its row's address or some handler in flight is about to   *)
(* give it a row or to remove it.                                            *)

\* A rollback that cannot delete, and a handler that dies, leave a container
\* nobody answers for, and a reinstall builds on the address of a row that
\* another process may have deleted since.
RollbacksComplete ==
    Faults \cap {"delete", "crash"} = {} /\ Ops \cap {"reinstall", "share"} = {}

\* The handler will insert the container's row, or remove the container.
Answers(p, n) ==
    /\ ctx[p].name = n
    /\ \/ pc[p] \in {"add_provision", "add_insert"} /\ ctx[p].slot = inst[n]
       \/ pc[p] = "clean_delete"
Answered(n) == inst[n] = None \/ \E p \in Procs : Answers(p, n)
Placed(n) == Exists(n) /\ users[n].slot = inst[n]

RacePcs == {"idle"} \cup V4Pcs \cup AddPcs \cup CleanPcs \cup DelPcs
GonePcs == {"clean_rules", "clean_reload", "clean_row", "del_rules", "del_reload", "del_row"}

NoClones == \A n \in Names : \A x \in Suffixes : clones[n][x] = None
SlotsUnique ==
    \A n, m \in Names : Exists(n) /\ Exists(m) /\ users[n].slot = users[m].slot => n = m
Covered == \A n \in Names : Placed(n) \/ Answered(n)
\* The row of a handler's id is the one of its name, ...
KnowsRow(p) == \A n \in Names : Exists(n) /\ users[n].id = ctx[p].id => n = ctx[p].name
\* ... and a container that appears while the row is being dropped is another's.
GivesUp(p) ==
    pc[p] \in GonePcs => \A n \in Names : Exists(n) /\ users[n].id = ctx[p].id => Answered(n)
RaceFlight(p) == pc[p] \in RacePcs /\ KnowsRow(p) /\ GivesUp(p)

RowsInv == NoClones /\ SlotsUnique /\ IdsUnique /\ Covered
RacesInv == RowsInv /\ \A p \in Procs : RaceFlight(p)

\* A step moves one process.
OthersStay(p) == \A q \in Procs : q # p => pc'[q] = pc[q] /\ ctx'[q] = ctx[q]

LEMMA Moves ==
    ASSUME TypeInv, NEW p \in Procs, NEW l, NEW c,
           Enter(p, l, c) \/ Goto(p, l) \/ Return(p)
    PROVE  OthersStay(p)
  BY DEF TypeInv, LocalsType, Enter, Goto, Return, OthersStay

LEMMA RaceMoves ==
    ASSUME RollbacksComplete, TypeInv, NEW p \in Procs, pc[p] \in RacePcs,
           Start(p) \/ Continue(p) \/ Crash(p)
    PROVE  OthersStay(p) /\ pc'[p] \in RacePcs
  <1>1. CASE \/ \E n \in Names : AddLookup(p, n) \/ DelLookup(p, n)
             \/ V4List(p)
    BY <1>1, Lands, Moves DEF AddLookup, DelLookup, V4List, RacePcs, AddPcs, DelPcs, V4Pcs
  <1>2. CASE \E n \in Names : ReLookup(p, n) \/ ShLookup(p, n)
    BY <1>2 DEF ReLookup, ShLookup, RollbacksComplete
  <1>3. CASE AddConflict(p) \/ AddLaunch(p) \/ AddProvision(p)
    BY <1>3, Lands, Moves DEF AddConflict, AddLaunch, AddProvision, RacePcs, AddPcs, CleanPcs
  <1>4. CASE AddInsert(p) \/ AddForward(p) \/ AddReload(p) \/ AddReady(p)
    BY <1>4, Lands, Moves DEF AddInsert, AddForward, AddReload, AddReady, MarkReady,
                              RacePcs, AddPcs, CleanPcs
  <1>5. CASE CleanDelete(p) \/ CleanRules(p) \/ CleanReload(p) \/ CleanRow(p)
    BY <1>5, Lands, Moves DEF CleanDelete, CleanRules, CleanReload, CleanRow, RacePcs, CleanPcs
  <1>6. CASE DelInstance(p) \/ DelRules(p) \/ DelReload(p) \/ DelRow(p)
    BY <1>6, Lands, Moves DEF DelInstance, DelRules, DelReload, DelRow, RacePcs, DelPcs
  <1>7. CASE V4User(p) \/ V4Reload(p) \/ V4Record(p)
    BY <1>7, Lands, Moves DEF V4User, V4Reload, V4Record, RacePcs, V4Pcs
  <1>8. CASE Crash(p)
    BY <1>8, Lands, Moves DEF Crash, RacePcs
  <1>9. CASE \/ ReMark(p) \/ ReDelete(p) \/ ReLaunch(p) \/ ReProvision(p)
             \/ ReReady(p) \/ ReRollback(p) \/ ReFail(p)
             \/ ShMark(p) \/ ShClone(p) \/ ShDelete(p) \/ ShRename(p)
             \/ ShProvision(p) \/ ShUndoClone(p)
    BY <1>9 DEF ReMark, ReDelete, ReLaunch, ReProvision, ReReady, ReRollback, ReFail,
                ShMark, ShClone, ShDelete, ShRename, ShProvision, ShUndoClone,
                RacePcs, V4Pcs, AddPcs, CleanPcs, DelPcs
  <1> QED
    BY <1>1, <1>2, <1>3, <1>4, <1>5, <1>6, <1>7, <1>8, <1>9 DEF Start, Continue

\* The answer of a process that did not move stands while the container does.
LEMMA OthersAnswer ==
    ASSUME NEW p \in Procs, NEW q \in Procs, OthersStay(p), q # p, NEW n \in Names,
           Answers(q, n), inst'[n] = inst[n]
    PROVE  Answers(q, n)'
  BY DEF OthersStay, Answers

\* No answer is lost while p keeps its own.
LEMMA AnswersStand ==
    ASSUME NEW p \in Procs, OthersStay(p), NEW n \in Names, Answered(n),
           inst'[n] \in {inst[n], None},
           Answers(p, n) => Answers(p, n)' \/ inst'[n] = None
    PROVE  Answered(n)'
  <1>1. CASE inst[n] = None \/ inst'[n] = None
    BY <1>1 DEF Answered
  <1>2. CASE inst[n] # None /\ inst'[n] # None
    <2>1. PICK q \in Procs : Answers(q, n)
      BY <1>2 DEF Answered
    <2>2. Answers(q, n)'
      BY <1>2, <2>1, OthersAnswer
    <2> QED
      BY <2>2 DEF Answered
  <1> QED
    BY <1>1, <1>2

\* Rows that keep their id and address, or go when their container is
\* answered for.
RowsShrink ==
    /\ \A n \in Names : Exists(n)' =>
          Exists(n) /\ users'[n].slot = users[n].slot /\ users'[n].id = users[n].id
    /\ \A n \in Names : Exists(n) /\ ~Exists(n)' => Answered(n)'

LEMMA RowsStand ==
    ASSUME RowsInv, RowsShrink, clones' = clones,
           \A n \in Names : inst'[n] \in {inst[n], None} \/ Answered(n)',
           \A n \in Names : Answered(n) => Answered(n)'
    PROVE  RowsInv'
  <1>1. NoClones' /\ SlotsUnique' /\ IdsUnique'
    BY DEF RowsInv, RowsShrink, NoClones, SlotsUnique, IdsUnique
  <1>2. ASSUME NEW n \in Names, ~Answered(n)'
        PROVE  Placed(n)'
    <2>1. inst'[n] = inst[n]
      BY <1>2 DEF Answered
    <2>2. Exists(n) /\ users[n].slot = inst[n]
      BY <1>2 DEF RowsInv, Covered, Placed
    <2> QED
      BY <1>2, <2>1, <2>2 DEF Placed, RowsShrink
  <1> QED
    BY <1>1, <1>2 DEF RowsInv, Covered

\* What the processes know stands when rows only go and answers stand.
LEMMA FlightsStand ==
    ASSUME RollbacksComplete, TypeInv, RacesInv, RowsShrink, NEW p \in Procs, OthersStay(p),
           pc'[p] \in RacePcs,
           \A n \in Names : Answered(n) => Answered(n)',
           KnowsRow(p)', GivesUp(p)'
    PROVE  \A q \in Procs : RaceFlight(q)'
  <1> SUFFICES ASSUME NEW q \in Procs, q # p PROVE RaceFlight(q)'
    BY DEF RaceFlight
  <1>1. pc'[q] = pc[q] /\ ctx'[q] = ctx[q]
    BY DEF OthersStay
  <1>2. RaceFlight(q)
    BY DEF RacesInv
  <1>3. KnowsRow(q)'
    BY <1>1, <1>2 DEF RaceFlight, KnowsRow, RowsShrink
  <1>4. GivesUp(q)'
    BY <1>1, <1>2 DEF RaceFlight, GivesUp, RowsShrink
  <1> QED
    BY <1>1, <1>2, <1>3, <1>4 DEF RaceFlight

\* The ids of rows are not None.
LEMMA RowIdsAre ==
    ASSUME TypeInv, NEW n \in Names, Exists(n)
    PROVE  users[n].id \in RowIds /\ users[n].id # None
  BY ConstantsAssumption DEF TypeInv, StoreType, Exists, Row

\* A handler that keeps its name and its id, or has none, still knows its row.
LEMMA StillKnows ==
    ASSUME TypeInv, RowsShrink, NEW p \in Procs, KnowsRow(p),
           \/ ctx'[p].id = None
           \/ ctx'[p].id = ctx[p].id /\ ctx'[p].name = ctx[p].name
    PROVE  KnowsRow(p)'
  <1> SUFFICES ASSUME NEW n \in Names, Exists(n)', users'[n].id = ctx'[p].id
               PROVE  n = ctx'[p].name
    BY DEF KnowsRow
  <1>1. Exists(n) /\ users'[n].id = users[n].id
    BY DEF RowsShrink
  <1>2. ctx'[p].id # None
    BY <1>1, RowIdsAre
  <1> QED
    BY <1>1, <1>2 DEF KnowsRow

\* Steps that touch neither rows nor containers, and at which p keeps the
\* answers it gave.
LEMMA RaceQuiet ==
    ASSUME RollbacksComplete, TypeInv, RacesInv, NEW p \in Procs, OthersStay(p),
           pc'[p] \in RacePcs, UNCHANGED <<users, inst, clones>>,
           \A n \in Names : Answers(p, n) => Answers(p, n)',
           KnowsRow(p)',
           pc'[p] \in GonePcs => pc[p] \in GonePcs /\ ctx'[p].id = ctx[p].id
    PROVE  RacesInv'
  <1>1. RowsShrink
    BY DEF RowsShrink, Exists
  <1>2. \A n \in Names : Answered(n) => Answered(n)'
    BY AnswersStand
  <1>3. RowsInv'
    BY <1>1, <1>2, RowsStand DEF RacesInv
  <1>4. RaceFlight(p)
    BY DEF RacesInv
  <1>5. GivesUp(p)'
    BY <1>2, <1>4 DEF RaceFlight, GivesUp, Exists
  <1> QED
    BY <1>1, <1>2, <1>3, <1>5, FlightsStand DEF RacesInv

\* The first step of a handler.
LEMMA RaceStart ==
    ASSUME RollbacksComplete, TypeInv, RacesInv, NEW p \in Procs, Start(p)
    PROVE  RacesInv'
  <1>1. RaceFlight(p) /\ pc[p] \in RacePcs
    BY DEF RacesInv, RaceFlight
  <1>2. OthersStay(p) /\ pc'[p] \in RacePcs
    BY <1>1, RaceMoves
  <1>3. UNCHANGED <<users, inst, clones>> /\ pc[p] = "idle"
    BY DEF Start, AddLookup, DelLookup, ReLookup, ShLookup, Lookup, V4List, store
  <1>4. \A n \in Names : ~Answers(p, n)
    BY <1>3 DEF Answers
  <1>5. RowsShrink
    BY <1>3 DEF RowsShrink, Exists
  <1>6. ASSUME NEW n \in Names, AddLookup(p, n)
        PROVE  ctx'[p].id = None /\ pc'[p] \notin GonePcs
    <2>1. PICK s, q, c : /\ Enter(p, "add_conflict", c)
                         /\ c = [NoCtx EXCEPT !.name = n, !.slot = s, !.port = q]
      BY <1>6 DEF AddLookup
    <2>2. c.id = None
      BY <2>1 DEF NoCtx
    <2>3. pc'[p] = "add_conflict" /\ ctx'[p] = c
      BY <2>1, Lands
    <2> QED
      BY <2>2, <2>3 DEF GonePcs
  <1>7. ASSUME NEW n \in Names, DelLookup(p, n)
        PROVE  KnowsRow(p)' /\ pc'[p] \notin GonePcs
    <2>1. PICK c : c = [NoCtx EXCEPT !.name = n, !.id = users[n].id]
      OBVIOUS
    <2>2. c.name = n /\ c.id = users[n].id
      BY <2>1 DEF NoCtx
    <2>3. pc'[p] = "del_instance" /\ ctx'[p] = c
      BY <1>7, <2>1, Lands DEF DelLookup
    <2>4. \A m \in Names : Exists(m) /\ users[m].id = users[n].id => m = n
      BY <1>7 DEF DelLookup, RacesInv, RowsInv, IdsUnique
    <2>5. KnowsRow(p)'
      BY <1>3, <2>2, <2>3, <2>4 DEF KnowsRow, Exists
    <2> QED
      BY <2>3, <2>5 DEF GonePcs
  <1>8. ASSUME V4List(p)
        PROVE  ctx'[p].id = None /\ pc'[p] \notin GonePcs
    <2>1. PICK want, todo, c : /\ Enter(p, "v4_user", c)
                               /\ c = [NoCtx EXCEPT !.want = want, !.todo = todo]
      BY <1>8 DEF V4List
    <2>2. c.id = None
      BY <2>1 DEF NoCtx
    <2>3. pc'[p] = "v4_user" /\ ctx'[p] = c
      BY <2>1, Lands
    <2> QED
      BY <2>2, <2>3 DEF GonePcs
  <1>9. KnowsRow(p)' /\ pc'[p] \notin GonePcs
    <2>1. ctx'[p].id = None => KnowsRow(p)'
      BY <1>1, <1>5, StillKnows DEF RaceFlight
    <2> QED
      BY <1>6, <1>7, <1>8, <2>1 DEF Start, ReLookup, ShLookup, RollbacksComplete
  <1> QED
    BY <1>2, <1>3, <1>4, <1>9, RaceQuiet

\* Steps inside a create, the rules of everyone and ApplyV4State: no row, no
\* container, no id changes hands.
LEMMA RaceIdle ==
    ASSUME RollbacksComplete, TypeInv, RacesInv, NEW p \in Procs,
           \/ AddConflict(p) \/ AddProvision(p) \/ AddForward(p) \/ AddReload(p)
           \/ CleanRules(p) \/ CleanReload(p) \/ DelRules(p) \/ DelReload(p)
           \/ V4User(p) \/ V4Reload(p) \/ V4Record(p)
    PROVE  RacesInv'
  <1>1. RaceFlight(p) /\ pc[p] \in RacePcs
    BY DEF RacesInv, RaceFlight
  <1>2. OthersStay(p) /\ pc'[p] \in RacePcs
    BY <1>1, RaceMoves DEF Continue
  <1>3. users' = users /\ inst' = inst /\ clones' = clones
    BY DEF AddConflict, AddProvision, AddForward, AddReload, CleanRules, CleanReload, DelRules,
           DelReload, V4User, V4Reload, V4Record, store
  <1>4. RowsShrink
    BY <1>3 DEF RowsShrink, Exists
  <1>5. NoCtx.id = None
    BY DEF NoCtx
  <1>6. CASE AddConflict(p) \/ AddProvision(p) \/ AddForward(p) \/ AddReload(p)
    <2>1. /\ ctx'[p] \in {ctx[p], NoCtx}
          /\ pc'[p] \in {"idle", "add_launch", "add_insert", "add_reload", "add_ready", "clean_delete"}
      BY <1>6, Lands DEF AddConflict, AddProvision, AddForward, AddReload
    <2>2. KnowsRow(p)'
      BY <1>1, <1>4, <1>5, <2>1, StillKnows DEF RaceFlight
    <2>3. \A n \in Names : Answers(p, n) => Answers(p, n)'
      <3>1. CASE AddProvision(p)
        <4>1. pc'[p] \in {"add_insert", "clean_delete"} /\ ctx'[p] = ctx[p]
          BY <3>1, Lands DEF AddProvision
        <4> QED
          BY <1>3, <3>1, <4>1 DEF Answers, AddProvision
      <3>2. CASE ~AddProvision(p)
        BY <1>6, <3>2 DEF Answers, AddConflict, AddForward, AddReload
      <3> QED
        BY <3>1, <3>2
    <2> QED
      BY <1>2, <1>3, <2>1, <2>2, <2>3, RaceQuiet DEF GonePcs
  <1>7. CASE CleanRules(p) \/ CleanReload(p) \/ DelRules(p) \/ DelReload(p)
    <2>1. pc[p] \in GonePcs /\ \A n \in Names : ~Answers(p, n)
      BY <1>7 DEF CleanRules, CleanReload, DelRules, DelReload, GonePcs, Answers
    <2>2. ctx'[p].id = ctx[p].id /\ ctx'[p].name = ctx[p].name
      <3>1. /\ [ctx[p] EXCEPT !.dirty = TRUE].id = ctx[p].id
            /\ [ctx[p] EXCEPT !.dirty = TRUE].name = ctx[p].name
        BY DEF TypeInv, LocalsType, Ctx
      <3>2. ctx'[p] \in {ctx[p], [ctx[p] EXCEPT !.dirty = TRUE]}
        BY <1>7, Lands DEF CleanRules, CleanReload, DelRules, DelReload
      <3> QED
        BY <3>1, <3>2
    <2>3. KnowsRow(p)'
      BY <1>1, <1>4, <2>2, StillKnows DEF RaceFlight
    <2> QED
      BY <1>2, <1>3, <2>1, <2>2, <2>3, RaceQuiet
  <1>8. CASE V4User(p) \/ V4Reload(p) \/ V4Record(p)
    <2>1. pc[p] \in V4Pcs /\ pc'[p] \in {"idle"} \cup V4Pcs
      BY <1>8, Lands DEF V4User, V4Reload, V4Record, V4Pcs
    <2>2. pc'[p] \notin GonePcs /\ \A n \in Names : ~Answers(p, n)
      BY <2>1 DEF V4Pcs, GonePcs, Answers
    <2>3. \/ ctx'[p].id = None
          \/ ctx'[p].id = ctx[p].id /\ ctx'[p].name = ctx[p].name
      <3>1. \A d : LET c == [ctx[p] EXCEPT !.todo = d] IN c.id = ctx[p].id /\ c.name = ctx[p].name
        BY DEF TypeInv, LocalsType, Ctx
      <3>2. \/ ctx'[p] \in {ctx[p], NoCtx}
            \/ \E d : ctx'[p] = [ctx[p] EXCEPT !.todo = d]
        <4>1. CASE V4User(p)
          <5>1. PICK l, d, c : /\ c = [ctx[p] EXCEPT !.todo = d]
                               /\ Enter(p, l, c) \/ Goto(p, l) \/ Return(p)
            BY <4>1 DEF V4User
          <5>2. ctx'[p] \in {c, ctx[p], NoCtx}
            BY <5>1, Lands
          <5> QED
            BY <5>1, <5>2
        <4>2. CASE V4Reload(p) \/ V4Record(p)
          BY <4>2, Lands DEF V4Reload, V4Record
        <4> QED
          BY <1>8, <4>1, <4>2
      <3> QED
        BY <1>5, <3>1, <3>2
    <2>4. KnowsRow(p)'
      BY <1>1, <1>4, <2>3, StillKnows DEF RaceFlight
    <2> QED
      BY <1>2, <1>3, <2>2, <2>4, RaceQuiet
  <1> QED
    BY <1>6, <1>7, <1>8

\* Writes of a status.
LEMMA RaceStatus ==
    ASSUME RollbacksComplete, TypeInv, RacesInv, NEW p \in Procs,
           NEW i, NEW st \in Statuses, users' \in {users, SetStatus(i, st)},
           UNCHANGED <<inst, clones>>, Return(p), \A n \in Names : ~Answers(p, n)
    PROVE  RacesInv'
  <1>1. OthersStay(p) /\ pc'[p] = "idle" /\ ctx'[p].id = None
    BY Lands, Moves DEF NoCtx
  <1>2. RowsShrink
    <2>1. CASE users' = users
      BY <2>1 DEF RowsShrink, Exists
    <2>2. CASE users' = SetStatus(i, st)
      BY <2>2, SetStatusEffect DEF RowsShrink
    <2> QED
      BY <2>1, <2>2
  <1>3. \A n \in Names : Answered(n) => Answered(n)'
    BY <1>1, AnswersStand
  <1>4. RowsInv'
    BY <1>2, <1>3, RowsStand DEF RacesInv
  <1>5. KnowsRow(p)' /\ GivesUp(p)' /\ pc'[p] \in RacePcs
    <2>1. KnowsRow(p)
      BY DEF RacesInv, RaceFlight
    <2> QED
      BY <1>1, <1>2, <2>1, StillKnows DEF GivesUp, GonePcs, RacePcs
  <1> QED
    BY <1>1, <1>2, <1>3, <1>4, <1>5, FlightsStand DEF RacesInv

\* Only the row the handler knows is dropped, and whatever container is there
\* by then is another handler's.
LEMMA RaceDrop ==
    ASSUME RollbacksComplete, TypeInv, RacesInv, NEW p \in Procs,
           pc[p] \in {"clean_row", "del_row"}, users' = DropRow(ctx[p].id),
           UNCHANGED <<inst, clones>>, Return(p)
    PROVE  RacesInv'
  <1>1. OthersStay(p) /\ pc'[p] = "idle" /\ ctx'[p].id = None
    BY Lands, Moves DEF NoCtx
  <1>2. RaceFlight(p)
    BY DEF RacesInv
  <1>3. \A n \in Names : ~Answers(p, n)
    BY DEF Answers
  <1>4. \A n \in Names : Answered(n) => Answered(n)'
    BY <1>1, <1>3, AnswersStand
  <1>5. RowsShrink
    <2>1. \A n \in Names : Exists(n)' => Exists(n) /\ users'[n] = users[n]
      BY DropRowEffect
    <2>2. ASSUME NEW n \in Names, Exists(n), ~Exists(n)'
          PROVE  Answered(n)'
      <3>1. users[n].id = ctx[p].id
        BY <2>2, DropRowEffect
      <3>2. Answered(n)
        BY <1>2, <2>2, <3>1 DEF RaceFlight, GivesUp, GonePcs
      <3> QED
        BY <1>4, <3>2
    <2> QED
      BY <2>1, <2>2 DEF RowsShrink
  <1>6. RowsInv'
    BY <1>4, <1>5, RowsStand DEF RacesInv
  <1>7. KnowsRow(p)' /\ GivesUp(p)' /\ pc'[p] \in RacePcs
    BY <1>1, <1>2, <1>5, StillKnows DEF RaceFlight, GivesUp, GonePcs, RacePcs
  <1> QED
    BY <1>1, <1>4, <1>5, <1>6, <1>7, FlightsStand DEF RacesInv

\* The end of a create, of its rollback and of a delete.
LEMMA RaceEnd ==
    ASSUME RollbacksComplete, TypeInv, RacesInv, NEW p \in Procs,
           AddReady(p) \/ CleanRow(p) \/ DelRow(p)
    PROVE  RacesInv'
  <1>1. Return(p) /\ inst' = inst /\ clones' = clones
    BY DEF AddReady, MarkReady, CleanRow, DelRow
  <1>2. \A n \in Names : ~Answers(p, n)
    BY DEF Answers, AddReady, CleanRow, DelRow
  <1>3. \/ \E st \in Statuses : users' \in {users, SetStatus(ctx[p].id, st)}
        \/ pc[p] \in {"clean_row", "del_row"} /\ users' = DropRow(ctx[p].id)
    BY DEF AddReady, MarkReady, CleanRow, Cleaned, DelRow, Statuses
  <1> QED
    BY <1>1, <1>2, <1>3, RaceStatus, RaceDrop

\* The container of the handler's name is deleted, whoever launched it.
LEMMA RaceDelete ==
    ASSUME RollbacksComplete, TypeInv, RacesInv, NEW p \in Procs,
           CleanDelete(p) \/ DelInstance(p)
    PROVE  RacesInv'
  <1>1. PICK a : a = ctx[p].name
    OBVIOUS
  <1>2. users' = users /\ clones' = clones /\ inst' = [inst EXCEPT ![a] = None]
    BY <1>1 DEF CleanDelete, DelInstance, DeleteInstance, RollbacksComplete, MayFail
  <1>3. pc'[p] \in {"clean_rules", "del_rules"} /\ ctx'[p] = ctx[p] /\ OthersStay(p)
    BY Lands, Moves DEF CleanDelete, DelInstance, RollbacksComplete, MayFail
  <1>4. \A n \in Names : inst'[n] = (IF n = a THEN None ELSE inst[n])
    BY <1>2 DEF TypeInv, StoreType
  <1>5. \A n \in Names : Answered(n) => Answered(n)'
    <2>1. \A n \in Names : Answers(p, n) => inst'[n] = None
      BY <1>1, <1>4 DEF Answers
    <2> QED
      BY <1>3, <1>4, <2>1, AnswersStand
  <1>6. RowsShrink
    BY <1>2 DEF RowsShrink, Exists
  <1>7. RowsInv'
    BY <1>2, <1>4, <1>5, <1>6, RowsStand DEF RacesInv
  <1>8. KnowsRow(p)
    BY DEF RacesInv, RaceFlight
  <1>9. KnowsRow(p)'
    BY <1>3, <1>6, <1>8, StillKnows
  <1>10. GivesUp(p)'
    BY <1>1, <1>3, <1>4, <1>9 DEF GivesUp, KnowsRow, Answered
  <1>11. pc'[p] \in RacePcs
    BY <1>3 DEF RacePcs, CleanPcs, DelPcs
  <1> QED
    BY <1>3, <1>5, <1>6, <1>7, <1>9, <1>10, <1>11, FlightsStand DEF RacesInv

\* Whoever launches, or fails to, answers for what is there.
LEMMA RaceLaunch ==
    ASSUME RollbacksComplete, TypeInv, RacesInv, NEW p \in Procs, AddLaunch(p)
    PROVE  RacesInv'
  <1>1. PICK a, s : a = ctx[p].name /\ s = ctx[p].slot
    OBVIOUS
  <1>2. users' = users /\ clones' = clones
    BY DEF AddLaunch
  <1>3. a \in Names /\ pc[p] = "add_launch"
    BY <1>1 DEF AddLaunch, TypeInv, LocalsType, AddPcs
  <1>4. OthersStay(p) /\ pc'[p] \in {"idle", "add_provision", "clean_delete"}
    BY Lands, Moves DEF AddLaunch
  <1>5. ctx'[p] = ctx[p] \/ ctx'[p].id = None
    <2>1. ctx'[p] \in {ctx[p], NoCtx}
      BY Lands DEF AddLaunch
    <2>2. NoCtx.id = None
      BY DEF NoCtx
    <2> QED
      BY <2>1, <2>2
  <1>6. \A n \in Names : n # a => inst'[n] = inst[n]
    BY <1>1 DEF AddLaunch, TypeInv, StoreType
  <1>7. Answered(a)' \/ inst'[a] = inst[a]
    <2>1. CASE inst' = [inst EXCEPT ![a] = s] /\ Goto(p, "add_provision")
      <3>1. inst'[a] = s /\ pc'[p] = "add_provision" /\ ctx'[p] = ctx[p]
        BY <1>3, <2>1, Lands DEF TypeInv, StoreType
      <3> QED
        BY <1>1, <3>1 DEF Answered, Answers
    <2>2. CASE Goto(p, "clean_delete")
      <3>1. pc'[p] = "clean_delete" /\ ctx'[p] = ctx[p]
        BY <2>2, Lands
      <3> QED
        BY <1>1, <3>1 DEF Answered, Answers
    <2> QED
      BY <1>1, <2>1, <2>2 DEF AddLaunch
  <1>8. \A n \in Names : inst'[n] \in {inst[n], None} \/ Answered(n)'
    BY <1>6, <1>7
  <1>9. \A n \in Names : Answered(n) => Answered(n)'
    <2>1. \A n \in Names : ~Answers(p, n)
      BY <1>3 DEF Answers
    <2> QED
      BY <1>4, <1>8, <2>1, AnswersStand
  <1>10. RowsShrink
    BY <1>2 DEF RowsShrink, Exists
  <1>11. RowsInv'
    BY <1>2, <1>8, <1>9, <1>10, RowsStand DEF RacesInv
  <1>12. KnowsRow(p)' /\ GivesUp(p)' /\ pc'[p] \in RacePcs
    <2>1. KnowsRow(p)
      BY DEF RacesInv, RaceFlight
    <2> QED
      BY <1>4, <1>5, <1>10, <2>1, StillKnows DEF GivesUp, GonePcs, RacePcs, AddPcs, CleanPcs
  <1> QED
    BY <1>4, <1>9, <1>10, <1>11, <1>12, FlightsStand DEF RacesInv

\* An insert succeeds only where no row is, so the container of the new row's
\* name is answered for: by the handler itself, and then it is on the row's
\* address, or by another.
LEMMA RaceInsert ==
    ASSUME RollbacksComplete, TypeInv, RacesInv, NEW p \in Procs, AddInsert(p)
    PROVE  RacesInv'
  <1>1. PICK n, s, q : n = ctx[p].name /\ s = ctx[p].slot /\ q = ctx[p].port
    OBVIOUS
  <1>2. /\ n \in Names /\ s \in Slots /\ q \in Ports
        /\ pc[p] = "add_insert" /\ inst' = inst /\ clones' = clones
    BY <1>1 DEF AddInsert, TypeInv, LocalsType, AddPcs
  <1>3. RaceFlight(p)
    BY DEF RacesInv
  <1>4. CASE Goto(p, "clean_delete") /\ UNCHANGED users
    <2>1. pc'[p] = "clean_delete" /\ ctx'[p] = ctx[p] /\ OthersStay(p)
      BY <1>4, Lands, Moves
    <2>2. \A m \in Names : Answers(p, m) => Answers(p, m)'
      BY <1>2, <2>1 DEF Answers
    <2>3. KnowsRow(p)'
      BY <1>3, <1>4, <2>1 DEF RaceFlight, KnowsRow, Exists
    <2> QED
      BY <1>2, <1>4, <2>1, <2>2, <2>3, RaceQuiet DEF GonePcs, RacePcs, CleanPcs
  <1>5. ASSUME NEW i \in FreshIds, users' = [users EXCEPT ![n] = NewRow(i, s, q)],
               Enter(p, "add_forward", [ctx[p] EXCEPT !.id = i]), Unique(n, s, q)
        PROVE  RacesInv'
    <2>1. /\ users'[n] = NewRow(i, s, q)
          /\ \A m \in Names : m # n => users'[m] = users[m]
      BY <1>2, <1>5 DEF TypeInv, StoreType
    <2>2. /\ i \in RowIds
          /\ \A m \in Names : Exists(m) => users[m].id # i
          /\ \A r \in Procs : ctx[r].id # i
      BY DEF FreshIds
    <2>3. users'[n].id = i /\ users'[n].slot = s /\ Exists(n)'
      <3>1. NewRow(i, s, q) \in Row
        BY <1>2, <2>2 DEF NewRow, Row, Statuses
      <3> QED
        BY <2>1, <3>1, NoneAssumption DEF NewRow, Exists
    <2>4. ~Exists(n) /\ \A m \in Names : Exists(m) => users[m].slot # s
      BY <1>5 DEF Unique, UsedSlots
    <2>5. OthersStay(p)
      BY <1>5, Moves
    <2>6. PICK c : c = [ctx[p] EXCEPT !.id = i]
      OBVIOUS
    <2>7. c.name = n /\ c.id = i
      BY <1>1, <2>6 DEF TypeInv, LocalsType, Ctx
    <2>8. pc'[p] = "add_forward" /\ ctx'[p] = c
      BY <1>5, <2>6, Lands
    <2>9. \A m \in Names : Answered(m) => Answered(m)' \/ (m = n /\ inst[n] = s)
      <3> SUFFICES ASSUME NEW m \in Names, Answered(m), m # n \/ inst[n] # s
                   PROVE  Answered(m)'
        OBVIOUS
      <3>1. ~Answers(p, m)
        BY <1>1, <1>2 DEF Answers
      <3> QED
        BY <1>2, <2>5, <3>1, AnswersStand
    <2>10. RowsInv'
      <3>1. NoClones'
        BY <1>2 DEF RacesInv, RowsInv, NoClones
      <3>2. SlotsUnique' /\ IdsUnique'
        BY <2>1, <2>2, <2>3, <2>4 DEF RacesInv, RowsInv, SlotsUnique, IdsUnique, Exists
      <3>3. ASSUME NEW m \in Names, m # n PROVE (Placed(m) \/ Answered(m))'
        <4>1. Placed(m) \/ Answered(m)
          BY DEF RacesInv, RowsInv, Covered
        <4> QED
          BY <1>2, <2>1, <2>9, <3>3, <4>1 DEF Placed, Exists
      <3>4. (Placed(n) \/ Answered(n))'
        <4>1. Answered(n)
          BY <1>2, <2>4 DEF RacesInv, RowsInv, Covered, Placed
        <4> QED
          BY <1>2, <2>3, <2>9, <4>1 DEF Placed
      <3> QED
        BY <3>1, <3>2, <3>3, <3>4 DEF RowsInv, Covered
    <2>11. RaceFlight(p)'
      <3>1. KnowsRow(p)'
        BY <2>1, <2>2, <2>7, <2>8 DEF KnowsRow, Exists
      <3> QED
        BY <2>8, <3>1 DEF RaceFlight, GivesUp, GonePcs, RacePcs, AddPcs
    <2>12. ASSUME NEW r \in Procs, r # p PROVE RaceFlight(r)'
      <3>1. pc'[r] = pc[r] /\ ctx'[r] = ctx[r] /\ RaceFlight(r)
        BY <2>5, <2>12 DEF OthersStay, RacesInv
      <3>2. \A m \in Names : Exists(m)' /\ users'[m].id = ctx[r].id =>
               m # n /\ Exists(m) /\ users[m].id = ctx[r].id
        BY <2>1, <2>2, <2>3 DEF Exists
      <3>3. KnowsRow(r)'
        BY <3>1, <3>2 DEF RaceFlight, KnowsRow
      <3>4. GivesUp(r)'
        BY <2>9, <3>1, <3>2 DEF RaceFlight, GivesUp
      <3> QED
        BY <3>1, <3>3, <3>4 DEF RaceFlight
    <2> QED
      BY <2>10, <2>11, <2>12 DEF RacesInv
  <1> QED
    BY <1>1, <1>4, <1>5 DEF AddInsert

LEMMA RacesInitially == Init => RacesInv
  BY DEF Init, RacesInv, RowsInv, NoClones, SlotsUnique, IdsUnique, Covered, Answered, Exists,
         RaceFlight, KnowsRow, GivesUp, RacePcs, GonePcs

LEMMA RacesInductive ==
    ASSUME RollbacksComplete
    PROVE  TypeInv /\ RacesInv /\ [Next]_vars => RacesInv'
  <1> SUFFICES ASSUME TypeInv, RacesInv, [Next]_vars PROVE RacesInv'
    OBVIOUS
  <1>1. CASE UNCHANGED vars
    BY <1>1 DEF vars, RacesInv, RowsInv, NoClones, SlotsUnique, IdsUnique, Covered, Placed,
                Answered, Answers, Exists, RaceFlight, KnowsRow, GivesUp
  <1>2. ASSUME NEW p \in Procs, Start(p) PROVE RacesInv'
    BY <1>2, RaceStart
  <1>3. ASSUME NEW p \in Procs, Crash(p) PROVE RacesInv'
    BY <1>3 DEF Crash, RollbacksComplete, MayFail
  <1>4. ASSUME NEW p \in Procs, Continue(p) PROVE RacesInv'
    <2>1. pc[p] \in RacePcs
      BY DEF RacesInv, RaceFlight
    <2>2. CASE \/ ReMark(p) \/ ReDelete(p) \/ ReLaunch(p) \/ ReProvision(p)
               \/ ReReady(p) \/ ReRollback(p) \/ ReFail(p)
               \/ ShMark(p) \/ ShClone(p) \/ ShDelete(p) \/ ShRename(p)
               \/ ShProvision(p) \/ ShUndoClone(p)
      BY <2>1, <2>2 DEF ReMark, ReDelete, ReLaunch, ReProvision, ReReady, ReRollback, ReFail,
                        ShMark, ShClone, ShDelete, ShRename, ShProvision, ShUndoClone,
                        RacePcs, V4Pcs, AddPcs, CleanPcs, DelPcs
    <2> QED
      BY <1>4, <2>2, RaceIdle, RaceEnd, RaceDelete, RaceLaunch, RaceInsert DEF Continue
  <1> QED
    BY <1>1, <1>2, <1>3, <1>4 DEF Next

\* Any number of processes may create and delete accounts at the same time: with
\* rollbacks that complete, no address is held by two accounts once no handler
\* is in flight (Manager.opMu, the UNIQUE constraints and cleanup() of Add).
THEOREM RacesAreCaught ==
    ASSUME RollbacksComplete
    PROVE  Spec => []RacesCaught
  <1>1. TypeInv /\ RacesInv => RacesCaught
    <2> SUFFICES ASSUME TypeInv, RacesInv, \A p \in Procs : pc[p] = "idle",
                        NEW s \in Slots, NEW n \in Names, NEW m \in Names, Holds(n, s), Holds(m, s)
                 PROVE  n = m
      BY DEF RacesCaught, AddressExclusive
    <2>1. \A a \in Names : inst[a] = None \/ Placed(a)
      BY DEF RacesInv, RowsInv, Covered, Answered, Answers
    <2>2. \A a \in Names : Holds(a, s) => Exists(a) /\ users[a].slot = s
      BY <2>1, ConstantsAssumption DEF Holds, Placed, RacesInv, RowsInv, NoClones
    <2> QED
      BY <2>2 DEF RacesInv, RowsInv, SlotsUnique
  <1> QED
    BY <1>1, TypeInitially, TypeInductive, RacesInitially, RacesInductive, PTL DEF Spec

=============================================================================
