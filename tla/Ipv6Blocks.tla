----------------------------- MODULE Ipv6Blocks -----------------------------
(***************************************************************************)
(* Whole /64 blocks and the responder's rule file in prefix mode           *)
(* (mgr/ipv6extra.go, mgr/ipv6.go): the blocks of net.ipv6_extra_prefix,   *)
(* their rows, the routes the containers carry, and writeNDPPD.            *)
(*                                                                         *)
(*   blockOf   users.ipv6_extra_block; NoRow without an account            *)
(*   carries   the /64 the container's eth0 declares; NoRow: no container  *)
(*   answered  the rule file: an account's name stands for its own /112    *)
(*   task      what each process does and holds; opMu serializes a process *)
(*   alone     history: the rewire under way began with nothing else under *)
(*             way, nothing has begun since and none of its calls failed   *)
(*   begun     operations started so far                                   *)
(*                                                                         *)
(* A block is its index in the extra prefix.                               *)
(***************************************************************************)
EXTENDS Host

CONSTANTS
    Accounts,
    Workers,      \* processes: the panel, `vps` commands
    BlockCount,   \* extraBlockCount of the prefix
    Reserved,     \* blocks the host itself uses
    NoRow,        \* no account, or no container
    MaxTasks      \* bound: operations started

ASSUME BlocksAssumption ==
    /\ BlockCount \in Nat /\ MaxTasks \in Nat /\ Reserved \subseteq 0..(BlockCount - 1)
    /\ None \notin Nat /\ NoRow \notin Nat \cup {None}

VARIABLES blockOf, carries, answered, task, alone, begun

blocksVars == <<blockOf, carries, answered, task, alone, begun>>

Blocks == 0..(BlockCount - 1)

NoTask == [op |-> "none", at |-> "-", name |-> None, block |-> None, text |-> {}, todo |-> {}]

BlocksInit ==
    /\ blockOf = [n \in Accounts |-> NoRow] /\ carries = [n \in Accounts |-> NoRow]
    /\ answered = {} /\ task = [w \in Workers |-> NoTask] /\ alone = FALSE /\ begun = 0

Existing == {n \in Accounts : blockOf[n] # NoRow}
UsedBlocks == {blockOf[n] : n \in Existing} \ {None}

-----------------------------------------------------------------------------
(* pickExtraBlock: the lowest free one among the first used + reserved + 1 *)

Limit(u, r) == u + r + 1
Candidates(used) ==
    {b \in Blocks : b < Limit(Cardinality(used), Cardinality(Reserved))} \ (used \cup Reserved)

PickExtraBlock(used) ==
    IF Candidates(used) = {} THEN None
    ELSE CHOOSE b \in Candidates(used) : \A c \in Candidates(used) : b <= c

-----------------------------------------------------------------------------
(* ndppdConf: the rules of every account but `drop`, and the fresh ones     *)

RulesOf(n, b) == {n} \cup ({b} \ {None})
Rendered(fresh, drop) == fresh \cup UNION {RulesOf(n, blockOf[n]) : n \in Existing \ drop}

Finish(w) == task' = [task EXCEPT ![w] = NoTask]

\* Only a rewire has an end of its own, where RewireHeals looks at it.
Step(w, at) ==
    task' = [task EXCEPT ![w] =
               IF at # "end" THEN [@ EXCEPT !.at = at, !.text = {}]
               ELSE IF @.op = "rewire" THEN [NoTask EXCEPT !.op = "rewire", !.at = "end"]
               ELSE NoTask]

Start(w, t) ==
    /\ task[w] = NoTask /\ begun < MaxTasks /\ begun' = begun + 1
    /\ task' = [task EXCEPT ![w] = t]
    /\ alone' = (t.op = "rewire" /\ \A v \in Workers : task[v] = NoTask)

\* writeNDPPD lists the users, then renames the file into place; what its
\* error leads to depends on the caller.
List(w) ==
    LET t == task[w]
        wires == t.at = "wire"
    IN
    /\ t.at \in {"wire", "unwire"}
    /\ task' = [task EXCEPT ![w].at = IF wires THEN "publish" ELSE "unpublish",
                            ![w].text = IF wires THEN Rendered(IF t.op \in {"add", "reinstall"}
                                                               THEN RulesOf(t.name, t.block) ELSE {}, {})
                                        ELSE Rendered({}, {t.name})]
    /\ UNCHANGED <<blockOf, carries, answered, alone, begun>>

AfterPublish(op) ==
    CASE op = "add" -> "row" [] op = "rewire" -> "heal" [] OTHER -> "end"

\* Add and Reinstall roll back, a rewire returns, AssignExtraBlock ignores it.
AfterPublishError(op) == IF op \in {"add", "reinstall"} THEN "unwire" ELSE "end"

PublishRules(w) ==
    /\ task[w].at = "publish"
    /\ \/ answered' = task[w].text /\ Step(w, AfterPublish(task[w].op)) /\ UNCHANGED alone
       \/ CanFail("rules_write") /\ UNCHANGED answered /\ alone' = FALSE
             /\ Step(w, AfterPublishError(task[w].op))
    /\ UNCHANGED <<blockOf, carries, begun>>

\* The error of an unwire is printed or dropped.
Unpublish(w) ==
    /\ task[w].at = "unpublish"
    /\ answered' = task[w].text \/ (CanFail("rules_write") /\ UNCHANGED answered)
    /\ Step(w, IF task[w].op = "del" THEN "delete_row" ELSE "delete_box")
    /\ UNCHANGED <<blockOf, carries, alone, begun>>

-----------------------------------------------------------------------------
(* Add *)

AddPick(w, n, want) ==
    /\ blockOf[n] = NoRow /\ carries[n] = NoRow
    /\ Start(w, [NoTask EXCEPT !.op = "add", !.at = "launch", !.name = n,
                               !.block = IF want THEN PickExtraBlock(UsedBlocks) ELSE None])
    /\ UNCHANGED <<blockOf, carries, answered>>

Launch(w) ==
    LET t == task[w] IN
    /\ t.at = "launch"
    /\ \/ /\ carries[t.name] = NoRow
          /\ carries' = [carries EXCEPT ![t.name] = t.block] /\ Step(w, "wire")
       \/ (carries[t.name] # NoRow \/ CanFail("create"))
             /\ Step(w, "unwire") /\ UNCHANGED carries
    /\ UNCHANGED <<blockOf, answered, alone, begun>>

\* CreateUserFull; name and block are unique.
AddRow(w) ==
    LET t == task[w] IN
    /\ t.at = "row"
    /\ IF blockOf[t.name] = NoRow /\ t.block \notin UsedBlocks
       THEN blockOf' = [blockOf EXCEPT ![t.name] = t.block] /\ Step(w, "end")
       ELSE UNCHANGED blockOf /\ Step(w, "unwire")
    /\ UNCHANGED <<carries, answered, alone, begun>>

\* The end of the cleanup, and of Reinstall's rollback.
DeleteBox(w) ==
    /\ task[w].at = "delete_box"
    /\ carries' = [carries EXCEPT ![task[w].name] = NoRow] \/ (CanFail("delete") /\ UNCHANGED carries)
    /\ Step(w, "end")
    /\ UNCHANGED <<blockOf, answered, alone, begun>>

-----------------------------------------------------------------------------
(* Del and Reinstall *)

DelBox(w, n) ==
    /\ blockOf[n] # NoRow
    /\ Start(w, [NoTask EXCEPT !.op = "del", !.at = "unwire", !.name = n])
    /\ carries' = [carries EXCEPT ![n] = NoRow]
    /\ UNCHANGED <<blockOf, answered>>

DeleteRow(w) ==
    /\ task[w].at = "delete_row"
    /\ blockOf' = [blockOf EXCEPT ![task[w].name] = NoRow]
    /\ Step(w, "end")
    /\ UNCHANGED <<carries, answered, alone, begun>>

ReinstallBox(w, n) ==
    /\ blockOf[n] # NoRow
    /\ Start(w, [NoTask EXCEPT !.op = "reinstall", !.at = "launch", !.name = n, !.block = blockOf[n]])
    /\ carries' = [carries EXCEPT ![n] = NoRow]
    /\ UNCHANGED <<blockOf, answered>>

-----------------------------------------------------------------------------
(* AssignExtraBlock *)

AssignPick(w, n) ==
    /\ blockOf[n] = None /\ PickExtraBlock(UsedBlocks) # None
    /\ Start(w, [NoTask EXCEPT !.op = "assign", !.at = "assign", !.name = n,
                               !.block = PickExtraBlock(UsedBlocks)])
    /\ UNCHANGED <<blockOf, carries, answered>>

AssignRow(w) ==
    LET t == task[w] IN
    /\ t.at = "assign"
    /\ \/ t.block \notin UsedBlocks
             /\ blockOf' = [blockOf EXCEPT ![t.name] = IF @ = NoRow THEN NoRow ELSE t.block]
             /\ Step(w, "apply")
       \/ t.block \in UsedBlocks /\ Step(w, "end") /\ UNCHANGED blockOf
    /\ UNCHANGED <<carries, answered, alone, begun>>

\* applyExtraRoutes: stop, change the device, start; the start may fail after
\* the change.
ApplyBlock(w) ==
    LET t == task[w] IN
    /\ t.at = "apply"
    /\ \/ carries[t.name] # NoRow /\ carries' = [carries EXCEPT ![t.name] = t.block]
             /\ (Step(w, "wire") \/ (CanFail("nic_start") /\ Step(w, "hand_back")))
       \/ (carries[t.name] = NoRow \/ CanFail("route")) /\ Step(w, "hand_back") /\ UNCHANGED carries
    /\ UNCHANGED <<blockOf, answered, alone, begun>>

HandBack(w) ==
    /\ task[w].at = "hand_back"
    /\ blockOf' = [blockOf EXCEPT ![task[w].name] = IF @ = NoRow THEN NoRow ELSE None]
    /\ Step(w, "end")
    /\ UNCHANGED <<carries, answered, alone, begun>>

-----------------------------------------------------------------------------
(* RewireAllIPv6: the boot unit, `vps ipv6-reapply`, install and changes of *)
(* the configuration; it takes no lock.                                    *)

Rewire(w) ==
    /\ Start(w, [NoTask EXCEPT !.op = "rewire", !.at = "wire"])
    /\ UNCHANGED <<blockOf, carries, answered>>

\* EnsureExtraBlockRoutes: the accounts with a block, as listed.
HealNobody == {}                                                   \* mutant
ToHeal == {[name |-> n, block |-> blockOf[n]] : n \in {m \in Existing : blockOf[m] # None}}
HealList(w) ==
    /\ task[w].at = "heal"
    /\ task' = [task EXCEPT ![w].at = "heal_each", ![w].todo = ToHeal]
    /\ UNCHANGED <<blockOf, carries, answered, alone, begun>>

HealEach(w) ==
    /\ task[w].at = "heal_each"
    /\ \/ /\ task[w].todo = {} /\ Step(w, "end") /\ UNCHANGED <<carries, alone>>
       \/ \E h \in task[w].todo :
             /\ task' = [task EXCEPT ![w].todo = @ \ {h}]
             /\ \/ /\ carries[h.name] # NoRow /\ UNCHANGED alone
                   /\ carries' = [carries EXCEPT ![h.name] = h.block]
                \/ /\ carries[h.name] = NoRow /\ UNCHANGED <<carries, alone>>
                \/ CanFail("route") /\ UNCHANGED carries /\ alone' = FALSE
    /\ UNCHANGED <<blockOf, answered, begun>>

-----------------------------------------------------------------------------

End(w) ==
    /\ task[w].at = "end" /\ Finish(w)
    /\ UNCHANGED <<blockOf, carries, answered, alone, begun>>

Crash(w) ==
    /\ CanFail("worker") /\ task[w] # NoTask
    /\ Finish(w) /\ alone' = FALSE
    /\ UNCHANGED <<blockOf, carries, answered, begun>>

BlocksNext ==
    \E w \in Workers :
        \/ \E n \in Accounts :
              \/ \E want \in BOOLEAN : AddPick(w, n, want)
              \/ DelBox(w, n) \/ ReinstallBox(w, n) \/ AssignPick(w, n)
        \/ Launch(w) \/ AddRow(w) \/ DeleteBox(w) \/ DeleteRow(w)
        \/ AssignRow(w) \/ ApplyBlock(w) \/ HandBack(w)
        \/ Rewire(w) \/ HealList(w) \/ HealEach(w)
        \/ List(w) \/ PublishRules(w) \/ Unpublish(w)
        \/ End(w) \/ Crash(w)

BlocksSpec == BlocksInit /\ [][BlocksNext]_blocksVars

-----------------------------------------------------------------------------
(* Properties *)

TaskStates ==
    [op: {"none", "add", "del", "reinstall", "assign", "rewire"},
     at: {"-", "launch", "wire", "publish", "row", "unwire", "unpublish", "delete_box", "delete_row",
          "assign", "apply", "hand_back", "heal", "heal_each", "end"},
     name: Accounts \cup {None}, block: Blocks \cup {None}, text: SUBSET (Accounts \cup Blocks),
     todo: SUBSET [name: Accounts, block: Blocks]]

BlocksTypeOK ==
    /\ blockOf \in [Accounts -> Blocks \cup {None, NoRow}]
    /\ carries \in [Accounts -> Blocks \cup {None, NoRow}]
    /\ answered \subseteq Accounts \cup Blocks /\ alone \in BOOLEAN /\ begun \in 0..MaxTasks
    /\ task \in [Workers -> TaskStates]

\* "by pigeonhole a free block must appear within that many consecutive indices":
\* a container goes without a /64 only when none is free (pickExtraBlock),
\* whatever holes deletions and failed assignments have left.
FreeBlockFound ==
    Blocks \ (UsedBlocks \cup Reserved) # {} => PickExtraBlock(UsedBlocks) # None

\* A rewire repairs what crashes, failed writes and the races of two processes
\* over the file have left: when it ran alone, the responder answers for exactly
\* the accounts there are, and the containers of those with a /64 carry it
\* (RewireAllIPv6, "rebuilds the whole IPv6 pass-through").
RewireHeals ==
    \A w \in Workers : task[w].op = "rewire" /\ task[w].at = "end" /\ alone =>
        /\ answered = Rendered({}, {})
        /\ \A n \in Existing : blockOf[n] # None /\ carries[n] # NoRow => carries[n] = blockOf[n]

\* What the allocation and the rewire promise.
BlocksSafe == FreeBlockFound /\ RewireHeals

=============================================================================
