---------------------------- MODULE UserLifecycle ----------------------------
(***************************************************************************)
(* The life of an account in the manager package (internal/mgr): the       *)
(* handlers Add, Del, Reinstall, ReinstallFromShare and ApplyV4State, each *)
(* a sequence of calls into four stores that share no transaction:         *)
(*                                                                         *)
(*   users   the rows of the SQLite table users                            *)
(*   inst    the Incus instances, by name                                  *)
(*   clones  the transient instances `<name>-rt-<suffix>` a reinstall from *)
(*           a share code builds before it deletes the old container       *)
(*   files   the per-user nftables files, and live, the ruleset the kernel *)
(*           runs since the last successful reload                         *)
(*                                                                         *)
(* A process is one `vps` binary: the panel daemon or one CLI invocation.  *)
(* Inside a process opMu admits one of these handlers at a time, so a      *)
(* process is a program counter pc[p] and the handler's local variables    *)
(* ctx[p].  Between two processes nothing is locked: only the UNIQUE       *)
(* constraints of the users table and Incus itself are shared.             *)
(*                                                                         *)
(* Every call into a store is one action, with an outcome for success and, *)
(* when its kind is in Faults, one for failure.                            *)
(***************************************************************************)
EXTENDS Naturals, FiniteSets

CONSTANTS
    Procs,     \* the processes: the panel daemon, CLI invocations
    Names,     \* user names, which are also the container names
    Slots,     \* idx values; the container's static IPv4 is a function of idx
    Ports,     \* what ssh_port and start_port draw from: a host port or block
    Suffixes,  \* the random suffixes of a temporary clone's name
    RowIds,    \* users.id values
    Faults,    \* the kinds of call that may fail, and "crash"
    Ops,       \* the handlers enabled in this instance of the model
    None       \* "no row", "no instance", "no file"

AllFaults == {"launch", "provision", "delete", "write", "remove", "reload",
              "db", "crash"}
AllOps == {"add", "del", "reinstall", "share", "applyv4"}

\* AUTOINCREMENT never runs out of ids; enough RowIds stand for that here.
ASSUME ConstantsAssumption ==
    /\ None \notin Names \cup Slots \cup Ports \cup Suffixes \cup RowIds
    /\ Faults \subseteq AllFaults
    /\ Ops \subseteq AllOps

\* The bound on ids: whoever inserts a row finds an id that neither another
\* row nor another handler in flight has, so the model never blocks on it.
ASSUME EnoughRowIds ==
    IsFiniteSet(RowIds) =>
        Cardinality(RowIds) + 1 >= Cardinality(Names) + Cardinality(Procs)

VARIABLES users, inst, clones, files, live,
          direct,   \* settings.v4_forward grants direct port forwarding
          pc, ctx

store == <<users, inst, clones, files, live, direct>>
vars == <<users, inst, clones, files, live, direct, pc, ctx>>

Statuses == {"creating", "ready", "reinstalling", "failed"}
Row  == [id: RowIds, slot: Slots, port: Ports, status: Statuses]
Rule == [slot: Slots, port: Ports]

\* The absence of a row or of a rule is told from every row and rule.
ASSUME NoneAssumption == None \notin Row \cup Rule

\* The local variables of a handler.  id is createdID in Add and u.ID in the
\* others; dirty is "a rollback call failed"; todo is ListUsers' result in
\* ApplyV4State and want the policy it was asked to enforce.
NoCtx == [name |-> None, id |-> None, slot |-> None, port |-> None,
          sfx |-> None, dirty |-> FALSE, todo |-> {}, want |-> FALSE]

AddPcs   == {"add_conflict", "add_launch", "add_provision", "add_insert",
             "add_forward", "add_reload", "add_ready"}
CleanPcs == {"clean_delete", "clean_rules", "clean_reload", "clean_row"}
DelPcs   == {"del_instance", "del_rules", "del_reload", "del_row"}
RePcs    == {"re_mark", "re_delete", "re_launch", "re_provision",
             "re_rollback", "re_fail", "re_ready"}
SharePcs == {"sh_mark", "sh_clone", "sh_delete", "sh_rename", "sh_provision",
             "sh_undo_clone"}
V4Pcs    == {"v4_user", "v4_reload", "v4_record"}
Pcs == {"idle"} \cup AddPcs \cup CleanPcs \cup DelPcs \cup RePcs \cup SharePcs
               \cup V4Pcs

-----------------------------------------------------------------------------
(* Helpers *)

Exists(n) == users[n] # None

MayFail(kind) == kind \in Faults

\* An UPDATE or DELETE by users.id touches the row that carries the id and
\* is silently a no-op when that row is gone.
SetStatus(id, st) ==
    [n \in Names |-> IF Exists(n) /\ users[n].id = id
                     THEN [users[n] EXCEPT !.status = st] ELSE users[n]]
DropRow(id) ==
    [n \in Names |-> IF Exists(n) /\ users[n].id = id THEN None ELSE users[n]]

UsedSlots == {users[n].slot : n \in {m \in Names : Exists(m)}}
UsedPorts == {users[n].port : n \in {m \in Names : Exists(m)}}
FreshIds  == RowIds \ ({users[n].id : n \in {m \in Names : Exists(m)}}
                          \cup {ctx[p].id : p \in Procs})

\* Who holds an address: an account through its row, its container or a
\* temporary clone of its container.
Holds(n, s) ==
    \/ Exists(n) /\ users[n].slot = s
    \/ inst[n] = s
    \/ \E x \in Suffixes : clones[n][x] = s

Enter(p, label, c) == /\ pc' = [pc EXCEPT ![p] = label]
                      /\ ctx' = [ctx EXCEPT ![p] = c]
Goto(p, label) == pc' = [pc EXCEPT ![p] = label] /\ UNCHANGED ctx
Return(p) == Enter(p, "idle", NoCtx)

\* lx.Delete by name: an instance that is not there is a success.
DeleteInstance(n) == inst' = [inst EXCEPT ![n] = None]

\* os.WriteFile truncates first: a failed write leaves the old file, a file
\* without rules, or the new one.
HalfWritten(n, rule) ==
    {files, [files EXCEPT ![n] = None], [files EXCEPT ![n] = rule]}

\* fw.Reload loads every file of the directory as one atomic batch; when the
\* check or the batch fails the previous ruleset stays.
ReloadRules == live' = files

Init ==
    /\ users  = [n \in Names |-> None]
    /\ inst   = [n \in Names |-> None]
    /\ clones = [n \in Names |-> [x \in Suffixes |-> None]]
    /\ files  = [n \in Names |-> None]
    /\ live   = [n \in Names |-> None]
    /\ direct = TRUE
    /\ pc     = [p \in Procs |-> "idle"]
    /\ ctx    = [p \in Procs |-> NoCtx]

-----------------------------------------------------------------------------
(* Add *)

\* Add up to the choice of resources: the name must be free, the slot and the
\* port are random picks among those no row has.
AddLookup(p, n) ==
    /\ "add" \in Ops /\ pc[p] = "idle"
    /\ ~Exists(n)
    /\ \E s \in Slots \ UsedSlots, q \in Ports \ UsedPorts :
          Enter(p, "add_conflict", [NoCtx EXCEPT !.name = n, !.slot = s, !.port = q])
    /\ UNCHANGED store

\* checkIncusConflict: an instance that already has the name or the address
\* is an orphan of a crashed create, and the create is refused.
ConflictByName(n, s) == inst[n] # None                            \* mutant
ConflictNoClones(n, s) == inst[n] # None \/ \E m \in Names : inst[m] = s  \* mutant
Conflict(n, s) ==
    \/ inst[n] # None
    \/ \E m \in Names : inst[m] = s \/ \E x \in Suffixes : clones[m][x] = s

AddConflict(p) ==
    /\ pc[p] = "add_conflict"
    /\ IF Conflict(ctx[p].name, ctx[p].slot) THEN Return(p)
                                             ELSE Goto(p, "add_launch")
    /\ UNCHANGED store

\* Launch, or CloneFromSnapshot for a share code.  Incus refuses a name it
\* already has, and may leave a partly built instance behind when it fails.
\* A missing image returns before anything is created, without cleanup.
AddLaunch(p) ==
    LET n == ctx[p].name  s == ctx[p].slot IN
    /\ pc[p] = "add_launch"
    /\ \/ /\ inst[n] = None
          /\ inst' = [inst EXCEPT ![n] = s]
          /\ Goto(p, "add_provision")
       \/ /\ inst[n] # None
          /\ Goto(p, "clean_delete")
          /\ UNCHANGED inst
       \/ /\ MayFail("launch") /\ inst[n] = None
          /\ \E r \in {None, s} : inst' = [inst EXCEPT ![n] = r]
          /\ Goto(p, "clean_delete")
       \/ MayFail("launch") /\ Return(p) /\ UNCHANGED inst
    /\ UNCHANGED <<users, clones, files, live, direct>>

\* The volume setting, Provision, the machine-id of a clone and the IPv6
\* wiring: each of them fails into the same cleanup, and none can succeed on
\* a container that is gone.
AddProvision(p) ==
    /\ pc[p] = "add_provision"
    /\ \/ inst[ctx[p].name] # None /\ Goto(p, "add_insert")
       \/ /\ MayFail("provision") \/ inst[ctx[p].name] = None
          /\ Goto(p, "clean_delete")
    /\ UNCHANGED store

\* The UNIQUE constraints of users on name, idx, ssh_port and start_port.
UniqueNoIdx(n, s, q) == ~Exists(n) /\ q \notin UsedPorts             \* mutant
Unique(n, s, q) == ~Exists(n) /\ s \notin UsedSlots /\ q \notin UsedPorts

NewRowNoStatus(i, s, q) ==                                        \* mutant
    [id |-> i, slot |-> s, port |-> q, status |-> ""]
NewRow(i, s, q) == [id |-> i, slot |-> s, port |-> q, status |-> "creating"]

\* CreateUserFull, one transaction.
AddInsert(p) ==
    LET n == ctx[p].name  s == ctx[p].slot  q == ctx[p].port
        unique == Unique(n, s, q) IN
    /\ pc[p] = "add_insert"
    /\ \/ /\ unique
          /\ \E i \in FreshIds :
                /\ users' = [users EXCEPT ![n] = NewRow(i, s, q)]
                /\ Enter(p, "add_forward", [ctx[p] EXCEPT !.id = i])
       \/ /\ ~unique \/ MayFail("db")
          /\ Goto(p, "clean_delete")
          /\ UNCHANGED users
    /\ UNCHANGED <<inst, clones, files, live, direct>>

\* The per-user rules are written only while the live policy forwards
\* directly.
AddForward(p) ==
    LET n == ctx[p].name
        rule == [slot |-> ctx[p].slot, port |-> ctx[p].port] IN
    /\ pc[p] = "add_forward"
    /\ \/ direct /\ files' = [files EXCEPT ![n] = rule] /\ Goto(p, "add_reload")
       \/ ~direct /\ UNCHANGED files /\ Goto(p, "add_reload")
       \/ direct /\ MayFail("write") /\ files' \in HalfWritten(n, rule) /\ Goto(p, "clean_delete")
    /\ UNCHANGED <<users, inst, clones, live, direct>>

AddReloadUnchecked(p) ==                                          \* mutant
    /\ pc[p] = "add_reload"
    /\ \/ ReloadRules
       \/ MayFail("reload") /\ UNCHANGED live
    /\ Goto(p, "add_ready")
    /\ UNCHANGED <<users, inst, clones, files, direct>>
AddReload(p) ==
    /\ pc[p] = "add_reload"
    /\ \/ ReloadRules /\ Goto(p, "add_ready")
       \/ MayFail("reload") /\ UNCHANGED live /\ Goto(p, "clean_delete")
    /\ UNCHANGED <<users, inst, clones, files, direct>>

\* The last write of a handler that built a container: ready, or failed when
\* the first write does not go through (and that second write may fail too).
\* Neither outcome rolls the working container back.
MarkReady(p) ==
    /\ \/ users' = SetStatus(ctx[p].id, "ready")
       \/ MayFail("db") /\ users' \in {users, SetStatus(ctx[p].id, "failed")}
    /\ Return(p)
    /\ UNCHANGED <<inst, clones, files, live, direct>>

AddReady(p) == pc[p] = "add_ready" /\ MarkReady(p)

\* cleanup(), the rollback closure of Add: every step runs whatever the
\* earlier ones returned, and dirty remembers that one of them failed.
CleanDelete(p) ==
    /\ pc[p] = "clean_delete"
    /\ \/ DeleteInstance(ctx[p].name) /\ Goto(p, "clean_rules")
       \/ /\ MayFail("delete") /\ UNCHANGED inst
          /\ Enter(p, "clean_rules", [ctx[p] EXCEPT !.dirty = TRUE])
    /\ UNCHANGED <<users, clones, files, live, direct>>

CleanRules(p) ==
    /\ pc[p] = "clean_rules"
    /\ \/ files' = [files EXCEPT ![ctx[p].name] = None] /\ Goto(p, "clean_reload")
       \/ /\ MayFail("remove") /\ UNCHANGED files
          /\ Enter(p, "clean_reload", [ctx[p] EXCEPT !.dirty = TRUE])
    /\ UNCHANGED <<users, inst, clones, live, direct>>

CleanReload(p) ==
    /\ pc[p] = "clean_reload"
    /\ \/ ReloadRules /\ Goto(p, "clean_row")
       \/ /\ MayFail("reload") /\ UNCHANGED live
          /\ Enter(p, "clean_row", [ctx[p] EXCEPT !.dirty = TRUE])
    /\ UNCHANGED <<users, inst, clones, files, direct>>

CleanedAlways(i, dirty) == DropRow(i)                              \* mutant
Cleaned(i, dirty) == IF dirty THEN SetStatus(i, "failed") ELSE DropRow(i)

\* Without a row (createdID = 0) there is nothing to keep or to delete.  With
\* one, a complete rollback deletes it and an incomplete one keeps it, marked
\* failed, so that its slot and ports stay reserved.
CleanRow(p) ==
    LET i == ctx[p].id IN
    /\ pc[p] = "clean_row"
    /\ \/ i = None /\ UNCHANGED users
       \/ /\ i # None
          /\ \/ users' = Cleaned(i, ctx[p].dirty)
             \/ MayFail("db") /\ UNCHANGED users
    /\ Return(p)
    /\ UNCHANGED <<inst, clones, files, live, direct>>

-----------------------------------------------------------------------------
(* Del *)

\* The account's domains are withdrawn between this step and the next; see
\* module DomainRouting.
DelLookup(p, n) ==
    /\ "del" \in Ops /\ pc[p] = "idle"
    /\ Exists(n)
    /\ Enter(p, "del_instance", [NoCtx EXCEPT !.name = n, !.id = users[n].id])
    /\ UNCHANGED store

\* A container that cannot be deleted keeps its row: the handler returns.
DelInstance(p) ==
    /\ pc[p] = "del_instance"
    /\ \/ DeleteInstance(ctx[p].name) /\ Goto(p, "del_rules")
       \/ MayFail("delete") /\ UNCHANGED inst /\ Return(p)
    /\ UNCHANGED <<users, clones, files, live, direct>>

\* From here on a failure is a warning.
DelRules(p) ==
    /\ pc[p] = "del_rules"
    /\ \/ files' = [files EXCEPT ![ctx[p].name] = None]
       \/ MayFail("remove") /\ UNCHANGED files
    /\ Goto(p, "del_reload")
    /\ UNCHANGED <<users, inst, clones, live, direct>>

DelReload(p) ==
    /\ pc[p] = "del_reload"
    /\ \/ ReloadRules
       \/ MayFail("reload") /\ UNCHANGED live
    /\ Goto(p, "del_row")
    /\ UNCHANGED <<users, inst, clones, files, direct>>

DelRow(p) ==
    /\ pc[p] = "del_row"
    /\ \/ users' = DropRow(ctx[p].id)
       \/ MayFail("db") /\ UNCHANGED users
    /\ Return(p)
    /\ UNCHANGED <<inst, clones, files, live, direct>>

-----------------------------------------------------------------------------
(* Reinstall *)

\* u is read once; every later step uses this copy of the row.
Lookup(p, n, next) ==
    /\ pc[p] = "idle"
    /\ Exists(n)
    /\ Enter(p, next, [NoCtx EXCEPT !.name = n, !.id = users[n].id, !.slot = users[n].slot])
    /\ UNCHANGED store

ReLookup(p, n) == "reinstall" \in Ops /\ Lookup(p, n, "re_mark")

\* The state is marked before the old container is destroyed.
Mark(p, next) ==
    /\ \/ users' = SetStatus(ctx[p].id, "reinstalling") /\ Goto(p, next)
       \/ MayFail("db") /\ UNCHANGED users /\ Return(p)
    /\ UNCHANGED <<inst, clones, files, live, direct>>

ReMarkNothing(p) ==                                               \* mutant
    pc[p] = "re_mark" /\ Goto(p, "re_delete") /\ UNCHANGED store
ReMark(p) == pc[p] = "re_mark" /\ Mark(p, "re_delete")

ReDeleteGivesUp(p) ==                                             \* mutant
    /\ pc[p] = "re_delete"
    /\ \/ DeleteInstance(ctx[p].name) /\ Goto(p, "re_launch")
       \/ MayFail("delete") /\ UNCHANGED inst /\ Return(p)
    /\ UNCHANGED <<users, clones, files, live, direct>>
ReDelete(p) ==
    /\ pc[p] = "re_delete"
    /\ \/ DeleteInstance(ctx[p].name) /\ Goto(p, "re_launch")
       \/ MayFail("delete") /\ UNCHANGED inst /\ Goto(p, "re_fail")
    /\ UNCHANGED <<users, clones, files, live, direct>>

\* The image lookup and the launch: both fail into rollback().
ReLaunch(p) ==
    LET n == ctx[p].name  s == ctx[p].slot IN
    /\ pc[p] = "re_launch"
    /\ \/ /\ inst[n] = None
          /\ inst' = [inst EXCEPT ![n] = s]
          /\ Goto(p, "re_provision")
       \/ /\ inst[n] # None
          /\ Goto(p, "re_rollback")
          /\ UNCHANGED inst
       \/ /\ MayFail("launch") /\ inst[n] = None
          /\ \E r \in {None, s} : inst' = [inst EXCEPT ![n] = r]
          /\ Goto(p, "re_rollback")
    /\ UNCHANGED <<users, clones, files, live, direct>>

ReProvision(p) ==
    /\ pc[p] = "re_provision"
    /\ \/ inst[ctx[p].name] # None /\ Goto(p, "re_ready")
       \/ /\ MayFail("provision") \/ inst[ctx[p].name] = None
          /\ Goto(p, "re_rollback")
    /\ UNCHANGED store

ReReady(p) == pc[p] = "re_ready" /\ MarkReady(p)

\* rollback(): remove the half-built container, keep the row as failed; both
\* results are ignored.
ReRollback(p) ==
    /\ pc[p] = "re_rollback"
    /\ \/ DeleteInstance(ctx[p].name)
       \/ MayFail("delete") /\ UNCHANGED inst
    /\ Goto(p, "re_fail")
    /\ UNCHANGED <<users, clones, files, live, direct>>

ReFail(p) ==
    /\ pc[p] = "re_fail"
    /\ \/ users' = SetStatus(ctx[p].id, "failed")
       \/ MayFail("db") /\ UNCHANGED users
    /\ Return(p)
    /\ UNCHANGED <<inst, clones, files, live, direct>>

-----------------------------------------------------------------------------
(* ReinstallFromShare, another account's checkpoint: clone it beside the     *)
(* old container, delete the old one, rename the clone into place.           *)

ShLookup(p, n) == "share" \in Ops /\ Lookup(p, n, "sh_mark")

ShMark(p) == pc[p] = "sh_mark" /\ Mark(p, "sh_clone")

\* A failed clone ends the handler; what it may have left is not removed.
ShClone(p) ==
    LET n == ctx[p].name  s == ctx[p].slot IN
    /\ pc[p] = "sh_clone"
    /\ \E x \in Suffixes :
          \/ /\ clones[n][x] = None
             /\ clones' = [clones EXCEPT ![n][x] = s]
             /\ Enter(p, "sh_delete", [ctx[p] EXCEPT !.sfx = x])
          \/ /\ clones[n][x] # None
             /\ UNCHANGED clones /\ Goto(p, "re_fail")
          \/ /\ MayFail("launch") /\ clones[n][x] = None
             /\ \E r \in {None, s} : clones' = [clones EXCEPT ![n][x] = r]
             /\ Goto(p, "re_fail")
    /\ UNCHANGED <<users, inst, files, live, direct>>

ShDelete(p) ==
    /\ pc[p] = "sh_delete"
    /\ \/ DeleteInstance(ctx[p].name) /\ Goto(p, "sh_rename")
       \/ MayFail("delete") /\ UNCHANGED inst /\ Goto(p, "sh_undo_clone")
    /\ UNCHANGED <<users, clones, files, live, direct>>

\* Incus refuses to rename over a container that exists, or one that is gone.
ShRename(p) ==
    LET n == ctx[p].name  x == ctx[p].sfx
        possible == inst[n] = None /\ clones[n][x] # None IN
    /\ pc[p] = "sh_rename"
    /\ \/ /\ possible
          /\ inst' = [inst EXCEPT ![n] = clones[n][x]]
          /\ clones' = [clones EXCEPT ![n][x] = None]
          /\ Goto(p, "sh_provision")
       \/ /\ ~possible \/ MayFail("launch")
          /\ UNCHANGED <<inst, clones>>
          /\ Goto(p, "sh_undo_clone")
    /\ UNCHANGED <<users, files, live, direct>>

\* Start, wait, Provision, the machine-id and the IPv6 wiring.
ShProvision(p) ==
    /\ pc[p] = "sh_provision"
    /\ \/ inst[ctx[p].name] # None /\ Goto(p, "re_ready")
       \/ /\ MayFail("provision") \/ inst[ctx[p].name] = None
          /\ Goto(p, "sh_undo_clone")
    /\ UNCHANGED store

\* rollback(): delete the clone, then (ReRollback) the container under the
\* account's own name, then mark the row failed.
ShUndoClone(p) ==
    /\ pc[p] = "sh_undo_clone"
    /\ \/ clones' = [clones EXCEPT ![ctx[p].name][ctx[p].sfx] = None]
       \/ MayFail("delete") /\ UNCHANGED clones
    /\ Goto(p, "re_rollback")
    /\ UNCHANGED <<users, inst, files, live, direct>>

-----------------------------------------------------------------------------
(* ApplyV4State, run by `vps config set net.v4_forward` and `vps install`;   *)
(* it does not take opMu.                                                    *)

V4List(p) ==
    /\ "applyv4" \in Ops /\ pc[p] = "idle"
    /\ \E want \in BOOLEAN :
          Enter(p, "v4_user",
                [NoCtx EXCEPT !.want = want,
                   !.todo = {[name |-> n, slot |-> users[n].slot, port |-> users[n].port] :
                                n \in {m \in Names : Exists(m)}}])
    /\ UNCHANGED store

\* One user of the list: its file is rewritten under direct forwarding and
\* removed otherwise; the first error ends the handler.
V4User(p) ==
    /\ pc[p] = "v4_user"
    /\ \/ \E u \in ctx[p].todo :
            LET rule == IF ctx[p].want THEN [slot |-> u.slot, port |-> u.port] ELSE None
            IN \/ /\ files' = [files EXCEPT ![u.name] = rule]
                  /\ Enter(p, "v4_user", [ctx[p] EXCEPT !.todo = @ \ {u}])
               \/ /\ \/ ctx[p].want /\ MayFail("write") /\ files' \in HalfWritten(u.name, rule)
                     \/ ~ctx[p].want /\ MayFail("remove") /\ UNCHANGED files
                  /\ Return(p)
       \/ /\ ctx[p].todo = {}
          /\ Goto(p, "v4_reload") /\ UNCHANGED files
    /\ UNCHANGED <<users, inst, clones, live, direct>>

V4ReloadSkipped(p) ==                                             \* mutant
    pc[p] = "v4_reload" /\ Goto(p, "v4_record") /\ UNCHANGED store
V4Reload(p) ==
    /\ pc[p] = "v4_reload"
    /\ \/ ReloadRules /\ Goto(p, "v4_record")
       \/ MayFail("reload") /\ UNCHANGED live /\ Return(p)
    /\ UNCHANGED <<users, inst, clones, files, direct>>

\* The DB mirror the panel reads its live policy from is written last.
V4Record(p) ==
    /\ pc[p] = "v4_record"
    /\ \/ direct' = ctx[p].want
       \/ MayFail("db") /\ UNCHANGED direct
    /\ Return(p)
    /\ UNCHANGED <<users, inst, clones, files, live>>

-----------------------------------------------------------------------------
(* A process dies between two calls: its locals and its lock are gone, the  *)
(* stores stay as they are.                                                 *)

Crash(p) ==
    /\ MayFail("crash") /\ pc[p] # "idle"
    /\ Return(p)
    /\ UNCHANGED store

Start(p) == \/ \E n \in Names : AddLookup(p, n) \/ DelLookup(p, n)
                                \/ ReLookup(p, n) \/ ShLookup(p, n)
            \/ V4List(p)

\* The step a handler that has begun takes next.
Continue(p) ==
    \/ AddConflict(p) \/ AddLaunch(p) \/ AddProvision(p) \/ AddInsert(p)
    \/ AddForward(p) \/ AddReload(p) \/ AddReady(p)
    \/ CleanDelete(p) \/ CleanRules(p) \/ CleanReload(p) \/ CleanRow(p)
    \/ DelInstance(p) \/ DelRules(p) \/ DelReload(p) \/ DelRow(p)
    \/ ReMark(p) \/ ReDelete(p) \/ ReLaunch(p) \/ ReProvision(p)
    \/ ReReady(p) \/ ReRollback(p) \/ ReFail(p)
    \/ ShMark(p) \/ ShClone(p) \/ ShDelete(p) \/ ShRename(p)
    \/ ShProvision(p) \/ ShUndoClone(p)
    \/ V4User(p) \/ V4Reload(p) \/ V4Record(p)

Next == \E p \in Procs : Start(p) \/ Continue(p) \/ Crash(p)

Spec == Init /\ [][Next]_vars

\* Every call a handler makes has a timeout (lx.wait, WaitReady), so a handler
\* that has begun keeps taking steps.  Nothing obliges anyone to begin one.
FairSpec == Spec /\ \A p \in Procs : WF_vars(Continue(p))

-----------------------------------------------------------------------------
(* Properties *)

Ctx == [name: Names \cup {None}, id: RowIds \cup {None},
        slot: Slots \cup {None}, port: Ports \cup {None},
        sfx: Suffixes \cup {None}, dirty: BOOLEAN,
        todo: SUBSET [name: Names, slot: Slots, port: Ports], want: BOOLEAN]

\* Every store and every handler's locals hold values of their kind.
TypeOK ==
    /\ users  \in [Names -> Row \cup {None}]
    /\ inst   \in [Names -> Slots \cup {None}]
    /\ clones \in [Names -> [Suffixes -> Slots \cup {None}]]
    /\ files  \in [Names -> Rule \cup {None}]
    /\ live   \in [Names -> Rule \cup {None}]
    /\ direct \in BOOLEAN
    /\ pc     \in [Procs -> Pcs]
    /\ ctx    \in [Procs -> Ctx]

Ready(n) == Exists(n) /\ users[n].status = "ready"

\* No address is ever held by two accounts, whether through a row, a live
\* container, the leftover of a crashed create or a temporary clone: a
\* create never makes "a bridge IP conflict" (checkIncusConflict, Del).
AddressExclusive ==
    \A s \in Slots : \A n, m \in Names : Holds(n, s) /\ Holds(m, s) => n = m

\* A row never disappears while a container of that name exists: deleting it
\* would orphan the container and let its IP and ports be handed out again
\* (Del before the row is dropped, the failed branch of Add's cleanup).
RowOutlivesContainer ==
    [][\A n \in Names : Exists(n) /\ ~Exists(n)' => inst'[n] = None]_vars

\* An account becomes ready only with a container on its own address, and
\* the container of a ready account is removed only by a delete of that very
\* account: no rollback of another handler, no crash, takes it away.
ReadyIsEarned ==
    [][\A n \in Names :
          /\ ~Ready(n) /\ Ready(n)' => inst'[n] = users'[n].slot
          /\ Ready(n) /\ inst[n] # None /\ inst'[n] = None
                => \E p \in Procs : pc[p] = "del_instance" /\ ctx[p].name = n]_vars

\* The ruleset the kernel runs sends nobody's port to a ready account's
\* container but the account's own, and its port to nobody else.
NoMisroute ==
    \A n, m \in Names :
        Ready(n) /\ live[m] # None =>
            (live[m].slot = users[n].slot <=> live[m].port = users[n].port)

\* When a create reports its account ready, the kernel forwards its port to
\* its container if the policy says so, and no rule sends another account's
\* port there or its port elsewhere: what an earlier delete or rollback failed
\* to reload is gone by then.
CreateForwards ==
    [][\A p \in Procs, n \in Names :
          pc[p] = "add_ready" /\ ctx[p].name = n /\ Ready(n)' =>
              /\ direct => live[n] = [slot |-> users[n].slot, port |-> users[n].port]
              /\ \A m \in Names : live[m] # None =>
                    /\ live[m].slot = users[n].slot <=> m = n
                    /\ live[m].port = users[n].port <=> m = n]_vars

\* When ApplyV4State has recorded a policy, the kernel forwards exactly the
\* accounts there are, each to its own container, or nobody at all.
PolicyApplied ==
    [][\A p \in Procs :
          pc[p] = "v4_record" /\ direct' # direct =>
              \A n \in Names :
                  live'[n] = IF direct' /\ Exists(n)
                             THEN [slot |-> users[n].slot, port |-> users[n].port]
                             ELSE None]_vars

\* Two creates racing in two processes may both have launched a container on
\* one address, but the UNIQUE constraints and the loser's rollback have
\* undone one of them by the time no handler is in flight (Manager.opMu).
RacesCaught == (\A p \in Procs : pc[p] = "idle") => AddressExclusive

\* What the same comment promises of two creates of one name: an account that
\* reached ready still has its container once every handler has returned.
ReadyHasContainer ==
    (\A p \in Procs : pc[p] = "idle") =>
        \A n \in Names :
            Ready(n) => inst[n] = users[n].slot

\* A create or a reinstall does not leave the account in a transitional
\* state: it ends ready or failed, or the row is gone.
Settles ==
    \A n \in Names :
        (Exists(n) /\ users[n].status \in {"creating", "reinstalling"})
            ~> (~Exists(n) \/ users[n].status \in {"ready", "failed"})

-----------------------------------------------------------------------------
(* Why they hold with one process *)

\* opMu covers everything when only one process runs handlers.
SingleProcess == \A p, q \in Procs : p = q

\* The row a handler works on is the one of its name.
OwnRow(p) == Exists(ctx[p].name) /\ users[ctx[p].name].id = ctx[p].id

\* What a create knows at each of its steps: its address is nobody's, then
\* its container's, then its row's.
AddFlight(p) ==
    LET n == ctx[p].name  s == ctx[p].slot
        rowless == {"add_conflict", "add_launch", "add_provision", "add_insert"} IN
    pc[p] \in AddPcs =>
        /\ n \in Names /\ s \in Slots /\ ctx[p].port \in Ports
        /\ ctx[p].id = None <=> pc[p] \in rowless
        /\ pc[p] \in rowless => ~Exists(n)
        /\ pc[p] = "add_conflict" => s \notin UsedSlots
        /\ pc[p] \in {"add_launch", "add_provision", "add_insert"} =>
              \A m \in Names : Holds(m, s) => m = n
        /\ pc[p] = "add_launch" => inst[n] = None
        /\ pc[p] \notin {"add_conflict", "add_launch"} => inst[n] = s
        /\ pc[p] \notin rowless =>
              OwnRow(p) /\ users[n].slot = s /\ users[n].status = "creating"

\* Its rollback.
CleanFlight(p) ==
    LET n == ctx[p].name IN
    pc[p] \in CleanPcs =>
        /\ n \in Names
        /\ ctx[p].id = None => ~Exists(n)
        /\ ctx[p].id # None => OwnRow(p) /\ users[n].status = "creating"
        /\ pc[p] # "clean_delete" => ctx[p].dirty \/ inst[n] = None

\* A delete.
DelFlight(p) ==
    pc[p] \in DelPcs =>
        /\ ctx[p].name \in Names /\ OwnRow(p)
        /\ pc[p] # "del_instance" => inst[ctx[p].name] = None

\* The two reinstalls.
ReFlight(p) ==
    LET n == ctx[p].name  s == ctx[p].slot  x == ctx[p].sfx IN
    pc[p] \in RePcs \cup SharePcs =>
        /\ n \in Names /\ OwnRow(p) /\ users[n].slot = s
        /\ pc[p] \notin {"re_mark", "sh_mark"} => users[n].status = "reinstalling"
        /\ pc[p] = "re_ready" => inst[n] = s
        /\ pc[p] \in {"sh_delete", "sh_rename"} => x \in Suffixes /\ clones[n][x] = s

Flight(p) == AddFlight(p) /\ CleanFlight(p) /\ DelFlight(p) /\ ReFlight(p)

OnOwnAddress == \A n \in Names : Exists(n) /\ inst[n] # None => inst[n] = users[n].slot
IdsUnique ==
    \A n, m \in Names : Exists(n) /\ Exists(m) /\ users[n].id = users[m].id => n = m
StoreInv == AddressExclusive /\ OnOwnAddress /\ IdsUnique

\* The inductive invariant behind AddressExclusive, RowOutlivesContainer and
\* ReadyIsEarned: a container is on its own row's address, ids tell rows
\* apart, and each handler in flight knows what it needs.
SafeInv == StoreInv /\ \A p \in Procs : Flight(p)

-----------------------------------------------------------------------------
(* What the handlers promise about addresses, whatever their steps: a lease *)
(* table in which an address passes from one account to another only by     *)
(* being held by nobody in between.                                         *)

Holder(s) == IF \E n \in Names : Holds(n, s) THEN CHOOSE n \in Names : Holds(n, s)
                                             ELSE None

Lease == INSTANCE AddressLease WITH owner <- [s \in Slots |-> Holder(s)],
                                    Nobody <- None

\* The handlers implement the lease table.
LeaseSpec == Lease!Spec

=============================================================================
