---------------------------- MODULE Ipv6_proofs -----------------------------
(***************************************************************************)
(* Theorems about the wiring of IPv6: the neighbour responder, whole /64   *)
(* blocks and pool mode.                                                   *)
(***************************************************************************)
EXTENDS NdpResponder, Ipv6Blocks, Ipv6Pool, FiniteSetTheorems, TLAPS

-----------------------------------------------------------------------------
(***************************************************************************)
(* The neighbour responder (NdpResponder)                                  *)
(***************************************************************************)

\* What the sender of the announcer can be: parked, draining, leaving, or busy
\* with one block.
SenderType == sender \in AllBlocks \cup {None, "drain", "leaving"} /\ queue \subseteq AllBlocks
RulesType ==
    /\ rules = [set |-> rules.set, mtime |-> rules.mtime] /\ rules.set \subseteq AllBlocks
    /\ rulefile = None \/ rulefile.set \subseteq AllBlocks

AnnouncerInv == SenderType /\ RulesType /\ WakeNotLost

\* A block is none of the sender's own stations.
LEMMA BlocksApart ==
    /\ None \notin AllBlocks /\ "drain" \notin AllBlocks /\ "leaving" \notin AllBlocks
    /\ None # "drain" /\ None # "leaving"
  BY NdpAssumption DEF AllBlocks

LEMMA AnnouncerInitially == NdpInit => AnnouncerInv
  BY DEF NdpInit, AnnouncerInv, SenderType, RulesType, WakeNotLost

\* What the loop does leaves the announcer alone, but for Sync.
LEMMA LoopStep ==
    ASSUME AnnouncerInv,
           \/ Reload \/ StatAfterReload \/ RecvTimeout \/ NotDue
           \/ CheckFile \/ ReloadForSolicitation \/ AnswerSolicitation
           \/ \E target \in AllBlocks : Solicit(target)
    PROVE  AnnouncerInv'
  <1>1. UNCHANGED <<rulefile, queue, woken, sender>>
    BY DEF Reload, StatAfterReload, RecvTimeout, NotDue, CheckFile, ReloadForSolicitation,
           AnswerSolicitation, Solicit, UNS
  <1> DEFINE RulesAre(r) == /\ r = [set |-> r.set, mtime |-> r.mtime]
                            /\ r.set \subseteq AllBlocks
  <1>2. RulesAre(rules')
    <2>1. rulefile # None => Filtered(rulefile.set) \subseteq AllBlocks
      BY DEF AnnouncerInv, RulesType, Filtered
    <2>2. CASE Reload
      BY <2>1, <2>2 DEF AnnouncerInv, RulesType, Reload, Cleared
    <2>3. CASE StatAfterReload
      BY <2>3 DEF AnnouncerInv, RulesType, StatAfterReload
    <2>4. CASE CheckFile
      BY <2>4 DEF AnnouncerInv, RulesType, CheckFile, Cleared
    <2>5. CASE ReloadForSolicitation
      BY <2>1, <2>5 DEF AnnouncerInv, RulesType, ReloadForSolicitation, Cleared
    <2>6. CASE rules' = rules
      BY <2>6 DEF AnnouncerInv, RulesType
    <2> QED
      BY <2>2, <2>3, <2>4, <2>5, <2>6 DEF RecvTimeout, NotDue, AnswerSolicitation, Solicit
  <1> QED
    BY <1>1, <1>2 DEF AnnouncerInv, SenderType, RulesType, WakeNotLost

\* Sync wakes the announcer when it adds to the queue; when it adds nothing, a
\* queue that was not empty had its wake or its sender already.
LEMMA SyncStep ==
    ASSUME AnnouncerInv, Sync
    PROVE  AnnouncerInv'
  <1> DEFINE queued == IF refresh THEN rules.set ELSE rules.set \ last
  <1>1. queue' = queue \cup queued /\ woken' = Woke(queued \ queue # {}) /\ sender' = sender
        /\ rules' = rules /\ rulefile' = rulefile
    BY DEF Sync
  <1>2. queued \subseteq AllBlocks
    BY DEF AnnouncerInv, RulesType
  <1>3. CASE queued \subseteq queue
    <2>1. queue' = queue /\ (woken => woken')
      BY <1>1, <1>3 DEF Woke
    <2> QED
      BY <1>1, <2>1 DEF AnnouncerInv, SenderType, RulesType, WakeNotLost
  <1>4. CASE ~(queued \subseteq queue)
    <2>1. woken'
      BY <1>1, <1>4 DEF Woke
    <2> QED
      BY <1>1, <1>2, <2>1 DEF AnnouncerInv, SenderType, RulesType, WakeNotLost
  <1> QED
    BY <1>3, <1>4

LEMMA WriterStep ==
    ASSUME AnnouncerInv, RulesPublished \/ Second \/ Interval \/ ResponderExit
    PROVE  AnnouncerInv'
  <1>1. CASE RulesPublished
    <2>1. UNCHANGED <<rules, queue, woken, sender>>
      BY <1>1 DEF RulesPublished
    <2>2. rulefile' = None \/ rulefile'.set \subseteq AllBlocks
      BY <1>1 DEF RulesPublished, Renderable, AllBlocks
    <2> QED
      BY <2>1, <2>2 DEF AnnouncerInv, SenderType, RulesType, WakeNotLost
  <1>2. CASE Second \/ Interval
    BY <1>2 DEF Second, Interval, AnnouncerInv, SenderType, RulesType, WakeNotLost
  <1>3. CASE ResponderExit
    BY <1>3 DEF ResponderExit, AnnouncerInv, SenderType, RulesType, WakeNotLost
  <1> QED
    BY <1>1, <1>2, <1>3

\* The announcer leaves its drain loop only with an empty queue, and whatever
\* is added while it leaves finds the channel ready to take a wake.
LEMMA SenderStep ==
    ASSUME AnnouncerInv, Announcer
    PROVE  AnnouncerInv'
  <1>1. rules' = rules /\ rulefile' = rulefile
    BY DEF Announcer, Park, Wake, Pop, SendAnnouncement, UNR
  <1>2. CASE Park
    BY <1>1, <1>2 DEF Park, AnnouncerInv, SenderType, RulesType, WakeNotLost
  <1>3. CASE Wake
    BY <1>1, <1>3, BlocksApart DEF Wake, AnnouncerInv, SenderType, RulesType, WakeNotLost
  <1>4. CASE Pop
    <2>1. CASE queue = {}
      BY <1>1, <1>4, <2>1 DEF Pop, AnnouncerInv, SenderType, RulesType, WakeNotLost
    <2>2. CASE queue # {}
      <3>1. PICK block \in queue : queue' = queue \ {block} /\ sender' = block
        BY <1>4, <2>2 DEF Pop
      <3>2. block \in AllBlocks
        BY <3>1 DEF AnnouncerInv, SenderType
      <3> QED
        BY <1>1, <3>1, <3>2, BlocksApart
           DEF AnnouncerInv, SenderType, RulesType, WakeNotLost
    <2> QED
      BY <2>1, <2>2
  <1>5. CASE SendAnnouncement
    BY <1>1, <1>5, BlocksApart
       DEF SendAnnouncement, AnnouncerInv, SenderType, RulesType, WakeNotLost
  <1> QED
    BY <1>2, <1>3, <1>4, <1>5 DEF Announcer

LEMMA AnnouncerInductive == AnnouncerInv /\ [NdpNext]_ndpVars => AnnouncerInv'
  <1> SUFFICES ASSUME AnnouncerInv, [NdpNext]_ndpVars PROVE AnnouncerInv'
    OBVIOUS
  <1>1. CASE UNCHANGED ndpVars
    BY <1>1 DEF ndpVars, AnnouncerInv, SenderType, RulesType, WakeNotLost
  <1>2. CASE NdpNext
    BY <1>2, LoopStep, SyncStep, WriterStep, SenderStep DEF NdpNext, Run
  <1> QED
    BY <1>1, <1>2

\* An announcement that was queued is never forgotten: the announcer is at it,
\* or the wake it waits for is in the channel (announcer.enqueue, announcer.run),
\* whatever the writer, the clock and the failures do.
THEOREM QueueIsDrained == NdpSpec => []WakeNotLost
  BY AnnouncerInitially, AnnouncerInductive, PTL DEF NdpSpec, AnnouncerInv

-----------------------------------------------------------------------------
(***************************************************************************)
(* Whole /64 blocks (Ipv6Blocks)                                           *)
(***************************************************************************)

\* A task is of its operation; a rewire is at one of its own steps.
TaskKnows(t) ==
    /\ t.op = "none" <=> t = NoTask
    /\ t.op \in {"add", "del", "reinstall", "assign"} => t.name \in Accounts
    /\ t.op = "rewire" => t.at \in {"wire", "publish", "heal", "heal_each", "end"}

\* Nothing but the rewire is under way.
Alone ==
    /\ \A w \in Workers : task[w] = NoTask \/ task[w].op = "rewire"
    /\ \A v, w \in Workers : task[v] = NoTask \/ task[w] = NoTask \/ v = w

\* The container of an account with a /64 carries it.
Healed(n) == blockOf[n] # None /\ carries[n] # NoRow => carries[n] = blockOf[n]

\* How far a rewire that is alone has repaired things.
RewireKnows(t) ==
    /\ t.at = "publish" => t.text = Rendered({}, {})
    /\ t.at \in {"heal", "heal_each", "end"} => answered = Rendered({}, {})
    /\ t.at = "heal_each" =>
          /\ \A h \in t.todo : h.name \in Existing /\ h.block = blockOf[h.name]
          /\ \A n \in Existing : Healed(n) \/ [name |-> n, block |-> blockOf[n]] \in t.todo
    /\ t.at = "end" => \A n \in Existing : Healed(n)

BlocksInv ==
    /\ BlocksTypeOK
    /\ \A w \in Workers : TaskKnows(task[w])
    /\ alone => Alone /\ \A w \in Workers : task[w].op = "rewire" => RewireKnows(task[w])

\* A set of naturals has a least one.
LEMMA SomeSmallest ==
    ASSUME NEW S \in SUBSET Nat, S # {}
    PROVE  \E x \in S : \A y \in S : x <= y
  <1> DEFINE Below(x) == {y \in S : y < x}
             T == {Below(x) : x \in S}
  <1>1. \A x \in S : IsFiniteSet(Below(x)) /\ Below(x) \in SUBSET Nat
    <2>1. \A x \in Nat : IsFiniteSet(0..x) BY FS_Interval
    <2>2. ASSUME NEW x \in S PROVE Below(x) \in SUBSET (0..x)
      <3>1. x \in Nat /\ \A y \in Below(x) : y \in Nat /\ y <= x OBVIOUS
      <3> HIDE DEF Below
      <3>2. \A y \in Below(x) : y \in 0..x BY <3>1
      <3> QED BY <3>2
    <2> HIDE DEF Below
    <2> QED BY <2>1, <2>2, FS_Subset
  <1>2. T \subseteq FiniteSubsetsOf(Nat) /\ T # {} BY <1>1 DEF FiniteSubsetsOf
  <1> HIDE DEF T
  <1>3. IsWellFoundedOn(StrictSubsetOrdering(Nat), FiniteSubsetsOf(Nat))
    BY FS_StrictSubsetOrderingWellFounded
  <1>4. PICK X \in T : \A Y \in T : ~(<<Y, X>> \in StrictSubsetOrdering(Nat))
    BY <1>2, <1>3, WFMin
  <1>5. PICK x \in S : X = Below(x) BY <1>4 DEF T
  <1>6. ASSUME NEW y \in S, y < x PROVE FALSE
    <2>0. Below(y) \in T BY DEF T
    <2>1. Below(y) \subseteq Below(x) /\ y \in Below(x) /\ y \notin Below(y)
      <3>1. \A z \in S : z \in Nat OBVIOUS
      <3>2. \A z \in S : z < y => z < x BY <1>6, <3>1
      <3>3. ~(y < y) BY <3>1
      <3> QED BY <1>6, <3>2, <3>3
    <2>2. Below(x) \in SUBSET Nat /\ Below(y) \in SUBSET Nat /\ Below(y) # Below(x) BY <2>1
    <2>3. <<Below(y), Below(x)>> \in StrictSubsetOrdering(Nat)
      <3> HIDE DEF Below
      <3> QED BY <2>1, <2>2 DEF StrictSubsetOrdering
    <2> QED BY <1>4, <1>5, <2>0, <2>3
  <1>7. \A y \in S : x <= y BY <1>6
  <1> QED BY <1>7

LEMMA BlocksAreNaturals == Blocks \subseteq Nat /\ None \notin Blocks /\ NoRow \notin Blocks
  BY BlocksAssumption DEF Blocks

\* pickExtraBlock returns a candidate where there is one.
LEMMA PickIsCandidate ==
    ASSUME NEW used
    PROVE  IF Candidates(used) = {} THEN PickExtraBlock(used) = None
           ELSE PickExtraBlock(used) \in Candidates(used)
  <1>1. Candidates(used) \in SUBSET Nat BY BlocksAreNaturals DEF Candidates
  <1>2. Candidates(used) # {} => \E b \in Candidates(used) : \A c \in Candidates(used) : b <= c
    BY <1>1, SomeSmallest
  <1> QED BY <1>2 DEF PickExtraBlock

\* The pigeonhole: among the first used + reserved + 1 indices one is neither.
LEMMA SomeFree ==
    ASSUME NEW used \in SUBSET Blocks, Blocks \ (used \cup Reserved) # {}
    PROVE  PickExtraBlock(used) # None
  <1>0. Reserved \in SUBSET Blocks BY BlocksAssumption DEF Blocks
  <1>1. IsFiniteSet(Blocks) BY FS_Interval, BlocksAssumption DEF Blocks
  <1>2. IsFiniteSet(used) /\ IsFiniteSet(Reserved) BY <1>0, <1>1, FS_Subset
  <1> DEFINE u == Cardinality(used)
             r == Cardinality(Reserved)
             first == 0..(u + r)
  <1>3. u \in Nat /\ r \in Nat BY <1>2, FS_CardinalityType
  <1>4. IsFiniteSet(used \cup Reserved) /\ Cardinality(used \cup Reserved) <= u + r
    <2>1. IsFiniteSet(used \cap Reserved) BY <1>2, FS_Subset
    <2>2. Cardinality(used \cap Reserved) \in Nat BY <2>1, FS_CardinalityType
    <2>3. IsFiniteSet(used \cup Reserved)
          /\ Cardinality(used \cup Reserved) = u + r - Cardinality(used \cap Reserved)
      BY <1>2, FS_Union
    <2> QED BY <1>3, <2>2, <2>3
  <1>5. Cardinality(first) = u + r + 1
    <2>1. 0 \in Int /\ u + r \in Int /\ ~(0 > u + r) BY <1>3
    <2> HIDE DEF u, r
    <2>2. Cardinality(0..(u + r)) = IF 0 > u + r THEN 0 ELSE (u + r) - 0 + 1
      BY <2>1, FS_Interval
    <2> QED BY <1>3, <2>1, <2>2
  <1>6. PICK b \in first : b \notin used \cup Reserved
    <2>1. ASSUME first \subseteq used \cup Reserved PROVE FALSE
      <3>1. Cardinality(first) <= Cardinality(used \cup Reserved)
        <4> HIDE DEF first
        <4> QED BY <1>4, <2>1, FS_Subset
      <3>2. Cardinality(used \cup Reserved) \in Nat BY <1>4, FS_CardinalityType
      <3> QED BY <1>3, <1>4, <1>5, <3>1, <3>2
    <2> QED BY <2>1
  <1>7. Candidates(used) # {}
    <2>1. PICK f \in Blocks : f \notin used \cup Reserved OBVIOUS
    <2>2. f \in Nat /\ b \in Nat /\ b <= u + r BY <1>3, <1>6, <2>1, BlocksAreNaturals
    <2>3. CASE f < u + r + 1 BY <2>1, <2>3 DEF Candidates, Limit
    <2>4. CASE ~(f < u + r + 1)
      <3>1. b \in Blocks /\ b < u + r + 1 BY <1>3, <2>1, <2>2, <2>4, BlocksAssumption DEF Blocks
      <3> QED BY <1>6, <3>1 DEF Candidates, Limit
    <2> QED BY <2>3, <2>4
  <1>8. PickExtraBlock(used) \in Blocks BY <1>7, PickIsCandidate DEF Candidates
  <1> QED BY <1>8, BlocksAreNaturals

-----------------------------------------------------------------------------

LEMMA UsedAreBlocks ==
    ASSUME BlocksTypeOK
    PROVE  UsedBlocks \in SUBSET Blocks /\ PickExtraBlock(UsedBlocks) \in Blocks \cup {None}
  <1>1. UsedBlocks \subseteq Blocks BY DEF BlocksTypeOK, UsedBlocks, Existing
  <1> QED BY <1>1, PickIsCandidate DEF Candidates

LEMMA RenderedTyped ==
    ASSUME BlocksTypeOK, NEW mine \in SUBSET (Accounts \cup Blocks), NEW drop
    PROVE  Rendered(mine, drop) \in SUBSET (Accounts \cup Blocks)
  <1>1. \A n \in Existing \ drop : RulesOf(n, blockOf[n]) \subseteq Accounts \cup Blocks
    BY DEF BlocksTypeOK, Existing, RulesOf
  <1> QED BY <1>1 DEF Rendered

LEMMA NoTaskKnows == NoTask \in TaskStates /\ TaskKnows(NoTask)
  BY DEF NoTask, TaskStates, TaskKnows

\* One process moves on.
LEMMA TaskMoves ==
    ASSUME BlocksTypeOK, \A v \in Workers : TaskKnows(task[v]), NEW w \in Workers, NEW t \in TaskStates,
           TaskKnows(t), task' = [task EXCEPT ![w] = t]
    PROVE  /\ task' \in [Workers -> TaskStates] /\ \A v \in Workers : TaskKnows(task'[v])
           /\ task'[w] = t /\ \A v \in Workers : v # w => task'[v] = task[v]
  BY DEF BlocksTypeOK

TasksTyped == task \in [Workers -> TaskStates] /\ \A v \in Workers : TaskKnows(task[v])

LEMMA StepTyped ==
    ASSUME BlocksTypeOK, \A v \in Workers : TaskKnows(task[v]), NEW w \in Workers,
           NEW at \in {"wire", "row", "unwire", "delete_box", "delete_row", "apply", "hand_back", "heal", "end"},
           Step(w, at), task[w].op # "none", task[w].op = "rewire" => at \in {"heal", "end"}
    PROVE  /\ TasksTyped'
           /\ task'[w].op = task[w].op \/ task'[w] = NoTask
           /\ task[w].op = "rewire" => task'[w].op = "rewire" /\ task'[w].at = at
           /\ \A v \in Workers : v # w => task'[v] = task[v]
  <1> DEFINE t == [task[w] EXCEPT !.at = at, !.text = {}]
             e == [NoTask EXCEPT !.op = "rewire", !.at = "end"]
  <1>0. task[w] \in TaskStates /\ TaskKnows(task[w]) BY DEF BlocksTypeOK
  <1>1. at # "end" => t \in TaskStates /\ TaskKnows(t) /\ t.op = task[w].op /\ t.at = at
    BY <1>0 DEF TaskStates, TaskKnows, NoTask
  <1>2. e \in TaskStates /\ TaskKnows(e) /\ e.op = "rewire" /\ e.at = "end" BY DEF TaskStates, TaskKnows, NoTask
  <1>3. task' = [task EXCEPT ![w] = IF at # "end" THEN t
                                    ELSE IF task[w].op = "rewire" THEN e ELSE NoTask]
    BY DEF Step
  <1> HIDE DEF t, e
  <1>4. CASE at # "end" BY <1>0, <1>1, <1>3, <1>4, TaskMoves DEF TasksTyped
  <1>5. CASE at = "end" /\ task[w].op = "rewire"
    <2>1. task' = [task EXCEPT ![w] = e] BY <1>3, <1>5
    <2> QED BY <1>2, <1>5, <2>1, TaskMoves DEF TasksTyped
  <1>6. CASE at = "end" /\ task[w].op # "rewire"
    <2>1. task' = [task EXCEPT ![w] = NoTask] BY <1>3, <1>6
    <2> QED BY <1>6, <2>1, TaskMoves, NoTaskKnows DEF TasksTyped
  <1> QED BY <1>4, <1>5, <1>6

\* What is typed but the tasks.
RestTyped ==
    /\ blockOf \in [Accounts -> Blocks \cup {None, NoRow}]
    /\ carries \in [Accounts -> Blocks \cup {None, NoRow}]
    /\ answered \subseteq Accounts \cup Blocks /\ alone \in BOOLEAN /\ begun \in 0..MaxTasks

LEMMA StartTyped ==
    ASSUME BlocksTypeOK, \A v \in Workers : TaskKnows(task[v]), NEW w \in Workers,
           NEW t \in TaskStates, TaskKnows(t), Start(w, t), UNCHANGED <<blockOf, answered>>,
           carries' \in [Accounts -> Blocks \cup {None, NoRow}]
    PROVE  BlocksTypeOK' /\ (\A v \in Workers : TaskKnows(task[v]))'
  <1>1. TasksTyped' BY TaskMoves DEF Start, TasksTyped
  <1>2. begun' \in 0..MaxTasks BY BlocksAssumption DEF Start, BlocksTypeOK
  <1>3. alone' \in BOOLEAN BY DEF Start
  <1> QED BY <1>1, <1>2, <1>3 DEF BlocksTypeOK, TasksTyped

LEMMA BlocksTypedKept ==
    ASSUME BlocksTypeOK, \A v \in Workers : TaskKnows(task[v]), [BlocksNext]_blocksVars
    PROVE  BlocksTypeOK' /\ (\A v \in Workers : TaskKnows(task[v]))'
  <1> DEFINE Goal == BlocksTypeOK' /\ (\A v \in Workers : TaskKnows(task[v]))'
  <1>t. /\ \A w \in Workers : task[w] \in TaskStates
        /\ \A w \in Workers : task[w].at # "-" => task[w].op # "none"
    BY DEF BlocksTypeOK, TaskKnows, NoTask
  <1>g. RestTyped' /\ TasksTyped' => Goal BY DEF RestTyped, TasksTyped, BlocksTypeOK
  <1>1. ASSUME NEW w \in Workers, NEW n \in Accounts, NEW want \in BOOLEAN, AddPick(w, n, want) PROVE Goal
    <2> DEFINE t == [NoTask EXCEPT !.op = "add", !.at = "launch", !.name = n,
                               !.block = IF want THEN PickExtraBlock(UsedBlocks) ELSE None]
    <2>1. t \in TaskStates /\ TaskKnows(t) BY UsedAreBlocks DEF NoTask, TaskStates, TaskKnows
    <2>2. Start(w, t) /\ UNCHANGED <<blockOf, carries, answered>> BY <1>1 DEF AddPick
    <2> HIDE DEF t
    <2> QED BY <2>1, <2>2, StartTyped DEF BlocksTypeOK
  <1>2. ASSUME NEW w \in Workers, NEW n \in Accounts, DelBox(w, n) PROVE Goal
    <2> DEFINE t == [NoTask EXCEPT !.op = "del", !.at = "unwire", !.name = n]
    <2>1. t \in TaskStates /\ TaskKnows(t) BY DEF NoTask, TaskStates, TaskKnows
    <2>2. Start(w, t) /\ UNCHANGED <<blockOf, answered>> BY <1>2 DEF DelBox
    <2>3. carries' \in [Accounts -> Blocks \cup {None, NoRow}] BY <1>2 DEF DelBox, BlocksTypeOK
    <2> HIDE DEF t
    <2> QED BY <2>1, <2>2, <2>3, StartTyped
  <1>3. ASSUME NEW w \in Workers, NEW n \in Accounts, ReinstallBox(w, n) PROVE Goal
    <2> DEFINE t == [NoTask EXCEPT !.op = "reinstall", !.at = "launch", !.name = n, !.block = blockOf[n]]
    <2>0. blockOf[n] \in Blocks \cup {None} BY <1>3 DEF ReinstallBox, BlocksTypeOK
    <2>1. t \in TaskStates /\ TaskKnows(t) BY <2>0 DEF NoTask, TaskStates, TaskKnows
    <2>2. Start(w, t) /\ UNCHANGED <<blockOf, answered>> BY <1>3 DEF ReinstallBox
    <2>3. carries' \in [Accounts -> Blocks \cup {None, NoRow}] BY <1>3 DEF ReinstallBox, BlocksTypeOK
    <2> HIDE DEF t
    <2> QED BY <2>1, <2>2, <2>3, StartTyped
  <1>4. ASSUME NEW w \in Workers, NEW n \in Accounts, AssignPick(w, n) PROVE Goal
    <2> DEFINE t == [NoTask EXCEPT !.op = "assign", !.at = "assign", !.name = n,
                               !.block = PickExtraBlock(UsedBlocks)]
    <2>1. t \in TaskStates /\ TaskKnows(t) BY UsedAreBlocks DEF NoTask, TaskStates, TaskKnows
    <2>2. Start(w, t) /\ UNCHANGED <<blockOf, carries, answered>> BY <1>4 DEF AssignPick
    <2> HIDE DEF t
    <2> QED BY <2>1, <2>2, StartTyped DEF BlocksTypeOK
  <1>5. ASSUME NEW w \in Workers, Launch(w) \/ AddRow(w) \/ DeleteBox(w) \/ DeleteRow(w) \/ AssignRow(w)
                                  \/ ApplyBlock(w) \/ HandBack(w)
        PROVE  Goal
    <2>0. /\ task[w].at \in {"launch", "row", "delete_box", "delete_row", "assign", "apply", "hand_back"}
          /\ \E at \in {"wire", "unwire", "end", "apply", "hand_back"} : Step(w, at)
          /\ UNCHANGED <<answered, alone, begun>>
      BY <1>5 DEF Launch, AddRow, DeleteBox, DeleteRow, AssignRow, ApplyBlock, HandBack
    <2>1. task[w].op # "none" /\ task[w].op # "rewire" /\ task[w].block \in Blocks \cup {None}
      BY <1>t, <2>0 DEF TaskKnows, TaskStates
    <2>2. TasksTyped' BY <2>0, <2>1, StepTyped
    <2>3. carries' \in [Accounts -> Blocks \cup {None, NoRow}]
      BY <1>5, <2>1 DEF Launch, AddRow, DeleteBox, DeleteRow, AssignRow, ApplyBlock, HandBack, BlocksTypeOK
    <2>4. blockOf' \in [Accounts -> Blocks \cup {None, NoRow}]
      BY <1>5, <2>1 DEF Launch, AddRow, DeleteBox, DeleteRow, AssignRow, ApplyBlock, HandBack, BlocksTypeOK
    <2> QED BY <1>g, <2>0, <2>2, <2>3, <2>4 DEF RestTyped, BlocksTypeOK
  <1>6. ASSUME NEW w \in Workers, Rewire(w) PROVE Goal
    <2> DEFINE t == [NoTask EXCEPT !.op = "rewire", !.at = "wire"]
    <2>1. t \in TaskStates /\ TaskKnows(t) BY DEF NoTask, TaskStates, TaskKnows
    <2>2. Start(w, t) /\ UNCHANGED <<blockOf, carries, answered>> BY <1>6 DEF Rewire
    <2> HIDE DEF t
    <2> QED BY <2>1, <2>2, StartTyped DEF BlocksTypeOK
  <1>7. ASSUME NEW w \in Workers, HealList(w) PROVE Goal
    <2> DEFINE t == [task[w] EXCEPT !.at = "heal_each", !.todo = ToHeal]
    <2>0. ToHeal \in SUBSET [name: Accounts, block: Blocks] BY DEF ToHeal, Existing, BlocksTypeOK
    <2>1. t \in TaskStates /\ TaskKnows(t)
      <3>1. task[w].at = "heal" /\ task[w].op # "none" BY <1>7, <1>t DEF HealList
      <3> HIDE DEF ToHeal
      <3> QED BY <1>t, <2>0, <3>1 DEF TaskStates, TaskKnows, NoTask
    <2>2. task' = [task EXCEPT ![w] = t] BY <1>7 DEF HealList, BlocksTypeOK
    <2> HIDE DEF t
    <2>3. TasksTyped' BY <2>1, <2>2, TaskMoves DEF TasksTyped
    <2> QED BY <1>7, <1>g, <2>3 DEF HealList, RestTyped, BlocksTypeOK
  <1>8. ASSUME NEW w \in Workers, HealEach(w) PROVE Goal
    <2>0. task[w].at = "heal_each" /\ task[w].op # "none" BY <1>8, <1>t DEF HealEach
    <2>1. CASE Step(w, "end") /\ UNCHANGED <<carries, alone>>
      <3>1. TasksTyped' BY <2>0, <2>1, StepTyped
      <3> QED BY <1>8, <1>g, <2>1, <3>1 DEF HealEach, RestTyped, BlocksTypeOK
    <2>2. ASSUME NEW h \in task[w].todo, task' = [task EXCEPT ![w].todo = @ \ {h}],
                 carries' \in {carries, [carries EXCEPT ![h.name] = h.block]}, alone' \in {alone, FALSE}
          PROVE  Goal
      <3> DEFINE t == [task[w] EXCEPT !.todo = task[w].todo \ {h}]
      <3>1. t \in TaskStates /\ TaskKnows(t) BY <1>t, <2>0 DEF TaskStates, TaskKnows, NoTask
      <3>2. task' = [task EXCEPT ![w] = t] BY <2>2 DEF BlocksTypeOK
      <3> HIDE DEF t
      <3>3. TasksTyped' BY <3>1, <3>2, TaskMoves DEF TasksTyped
      <3>4. h.block \in Blocks BY <1>t DEF TaskStates
      <3>5. carries' \in [Accounts -> Blocks \cup {None, NoRow}] BY <2>2, <3>4 DEF BlocksTypeOK
      <3> QED BY <1>8, <1>g, <2>2, <3>3, <3>5 DEF HealEach, RestTyped, BlocksTypeOK
    <2> QED BY <1>8, <2>1, <2>2 DEF HealEach
  <1>9. ASSUME NEW w \in Workers, List(w) PROVE Goal
    <2>0. task[w].at \in {"wire", "unwire"} /\ task[w].op # "none" BY <1>9, <1>t DEF List
    <2> DEFINE mine == IF task[w].op \in {"add", "reinstall"} THEN RulesOf(task[w].name, task[w].block) ELSE {}
               text == IF task[w].at = "wire" THEN Rendered(mine, {}) ELSE Rendered({}, {task[w].name})
               at == IF task[w].at = "wire" THEN "publish" ELSE "unpublish"
               t == [task[w] EXCEPT !.at = at, !.text = text]
    <2>1. mine \in SUBSET (Accounts \cup Blocks)
      <3>1. task[w].op \in {"add", "reinstall"} => task[w].name \in Accounts BY DEF TaskKnows
      <3> QED BY <1>t, <3>1 DEF RulesOf, TaskStates
    <2>2. text \in SUBSET (Accounts \cup Blocks)
      <3> HIDE DEF mine
      <3> QED BY <2>1, RenderedTyped
    <2>3. task' = [task EXCEPT ![w] = t]
      <3>1. task' = [task EXCEPT ![w].at = at, ![w].text = text] BY <1>9 DEF List
      <3> HIDE DEF at, text
      <3> QED BY <3>1 DEF BlocksTypeOK
    <2> HIDE DEF text
    <2>4. t \in TaskStates /\ TaskKnows(t)
      BY <1>t, <2>0, <2>2 DEF TaskStates, TaskKnows, NoTask
    <2> HIDE DEF t
    <2>5. TasksTyped' BY <2>3, <2>4, TaskMoves DEF TasksTyped
    <2> QED BY <1>9, <1>g, <2>5 DEF List, RestTyped, BlocksTypeOK
  <1>10. ASSUME NEW w \in Workers, PublishRules(w) PROVE Goal
    <2>0. task[w].at = "publish" /\ task[w].op # "none" BY <1>10, <1>t DEF PublishRules
    <2>1. Step(w, AfterPublish(task[w].op)) \/ Step(w, AfterPublishError(task[w].op)) BY <1>10 DEF PublishRules
    <2>2. /\ AfterPublish(task[w].op) \in {"row", "heal", "end"}
          /\ AfterPublishError(task[w].op) \in {"unwire", "end"}
          /\ task[w].op = "rewire" => AfterPublish(task[w].op) = "heal" /\ AfterPublishError(task[w].op) = "end"
      BY DEF AfterPublish, AfterPublishError
    <2>3. TasksTyped' BY <2>0, <2>1, <2>2, StepTyped
    <2>4. answered' \subseteq Accounts \cup Blocks /\ alone' \in BOOLEAN
      BY <1>10, <1>t DEF PublishRules, TaskStates, BlocksTypeOK
    <2> QED BY <1>10, <1>g, <2>3, <2>4 DEF PublishRules, RestTyped, BlocksTypeOK
  <1>11. ASSUME NEW w \in Workers, Unpublish(w) PROVE Goal
    <2>0. task[w].at = "unpublish" /\ task[w].op # "none" BY <1>11, <1>t DEF Unpublish
    <2>1. Step(w, IF task[w].op = "del" THEN "delete_row" ELSE "delete_box") BY <1>11 DEF Unpublish
    <2>2. task[w].op # "rewire" BY <2>0 DEF TaskKnows
    <2>3. TasksTyped' BY <2>0, <2>1, <2>2, StepTyped
    <2>4. answered' \subseteq Accounts \cup Blocks BY <1>11, <1>t DEF Unpublish, TaskStates, BlocksTypeOK
    <2> QED BY <1>11, <1>g, <2>3, <2>4 DEF Unpublish, RestTyped, BlocksTypeOK
  <1>12. ASSUME NEW w \in Workers, End(w) \/ Crash(w) PROVE Goal
    <2>1. task' = [task EXCEPT ![w] = NoTask] BY <1>12 DEF End, Crash, Finish
    <2>2. TasksTyped' BY <2>1, TaskMoves, NoTaskKnows DEF TasksTyped
    <2> QED BY <1>12, <1>g, <2>2 DEF End, Crash, RestTyped, BlocksTypeOK
  <1>13. CASE UNCHANGED blocksVars BY <1>13 DEF blocksVars, BlocksTypeOK
  <1> QED BY <1>1, <1>2, <1>3, <1>4, <1>5, <1>6, <1>7, <1>8, <1>9, <1>10, <1>11, <1>12, <1>13 DEF BlocksNext

-----------------------------------------------------------------------------

\* What is known while a rewire is alone.
AloneKnown == Alone /\ \A w \in Workers : task[w].op = "rewire" => RewireKnows(task[w])

\* The only task there is moves on.
LEMMA OnlyMoves ==
    ASSUME NEW w \in Workers, \A v \in Workers : v # w => task[v] = NoTask,
           \A v \in Workers : v # w => task'[v] = task[v],
           task'[w] = NoTask \/ (task'[w].op = "rewire" /\ RewireKnows(task[w])')
    PROVE  AloneKnown'
  <1>1. \A v \in Workers : v # w => task'[v] = NoTask OBVIOUS
  <1>2. NoTask.op # "rewire" BY DEF NoTask
  <1>3. Alone' BY <1>1 DEF Alone
  <1>4. \A v \in Workers : task'[v].op = "rewire" => RewireKnows(task[v])' BY <1>1, <1>2
  <1> QED BY <1>3, <1>4 DEF AloneKnown

LEMMA AloneKept ==
    ASSUME BlocksInv, [BlocksNext]_blocksVars, alone'
    PROVE  AloneKnown'
  <1> USE DEF BlocksInv
  <1>t. /\ \A w \in Workers : task[w] \in TaskStates
        /\ \A w \in Workers : task[w].at # "-" => task[w] # NoTask
        /\ alone => AloneKnown
    BY DEF BlocksTypeOK, NoTask, AloneKnown
  <1>a. ASSUME NEW w \in Workers, alone, task[w].at # "-"
        PROVE  /\ task[w].op = "rewire" /\ RewireKnows(task[w])
               /\ task[w].at \in {"wire", "publish", "heal", "heal_each", "end"}
               /\ \A v \in Workers : v # w => task[v] = NoTask
    BY <1>a, <1>t DEF Alone, TaskKnows
  <1>r. blockOf' = blockOf => Rendered({}, {})' = Rendered({}, {}) /\ Existing' = Existing
    BY DEF Rendered, Existing
  <1>s. ASSUME NEW w \in Workers, NEW at \in {"heal", "end"}, alone, task[w].at # "-", Step(w, at)
        PROVE  task'[w].op = "rewire" /\ task'[w].at = at /\ \A v \in Workers : v # w => task'[v] = task[v]
    BY <1>s, <1>a, <1>t, StepTyped, ZenonT(60) DEF TaskKnows, NoTask
  <1>1. ASSUME NEW w \in Workers, NEW n \in Accounts, NEW want \in BOOLEAN, AddPick(w, n, want) PROVE FALSE
    BY <1>1 DEF AddPick, Start, NoTask
  <1>2. ASSUME NEW w \in Workers, NEW n \in Accounts, DelBox(w, n) \/ ReinstallBox(w, n) \/ AssignPick(w, n)
        PROVE  FALSE
    BY <1>2 DEF DelBox, ReinstallBox, AssignPick, Start, NoTask
  <1>3. ASSUME NEW w \in Workers, Launch(w) \/ AddRow(w) \/ DeleteBox(w) \/ DeleteRow(w) \/ AssignRow(w)
                                  \/ ApplyBlock(w) \/ HandBack(w) \/ Unpublish(w)
        PROVE  FALSE
    <2>1. /\ task[w].at \in {"launch", "row", "delete_box", "delete_row", "assign", "apply", "hand_back",
                             "unpublish"}
          /\ alone
      BY <1>3 DEF Launch, AddRow, DeleteBox, DeleteRow, AssignRow, ApplyBlock, HandBack, Unpublish
    <2> QED BY <1>a, <2>1
  <1>4. ASSUME NEW w \in Workers, Rewire(w) PROVE AloneKnown'
    <2> DEFINE t == [NoTask EXCEPT !.op = "rewire", !.at = "wire"]
    <2>1. t.op = "rewire" /\ t.at = "wire" BY DEF NoTask
    <2>2. task' = [task EXCEPT ![w] = t] /\ (\A v \in Workers : task[v] = NoTask)
      BY <1>4 DEF Rewire, Start
    <2> HIDE DEF t
    <2>3. task'[w] = t /\ \A v \in Workers : v # w => task'[v] = task[v] BY <2>2 DEF BlocksTypeOK
    <2>4. RewireKnows(task[w])' BY <2>1, <2>3 DEF RewireKnows
    <2> QED BY <2>1, <2>2, <2>3, <2>4, OnlyMoves
  <1>5. ASSUME NEW w \in Workers, HealList(w) PROVE AloneKnown'
    <2>1. alone /\ task[w].at = "heal" /\ UNCHANGED <<blockOf, carries, answered>>
      BY <1>5 DEF HealList
    <2> DEFINE t == [task[w] EXCEPT !.at = "heal_each", !.todo = ToHeal]
    <2>2. t.op = "rewire" /\ t.at = "heal_each" /\ t.todo = ToHeal
      <3>1. task[w].op = "rewire" BY <2>1, <1>a
      <3> QED BY <3>1, <1>t DEF TaskStates
    <2>3. task' = [task EXCEPT ![w] = t] BY <1>5 DEF HealList, BlocksTypeOK
    <2> HIDE DEF t
    <2>4. task'[w] = t /\ \A v \in Workers : v # w => task'[v] = task[v] BY <2>3 DEF BlocksTypeOK
    <2>5. answered = Rendered({}, {}) BY <2>1, <1>a DEF RewireKnows
    <2>6. /\ \A h \in ToHeal : h.name \in Existing /\ h.block = blockOf[h.name]
          /\ \A n \in Existing : Healed(n) \/ [name |-> n, block |-> blockOf[n]] \in ToHeal
      BY DEF ToHeal, Healed
    <2>7. RewireKnows(task[w])'
      <3>1. /\ \A h \in ToHeal : h.name \in Existing' /\ h.block = blockOf'[h.name]
            /\ \A n \in Existing' : Healed(n)' \/ [name |-> n, block |-> blockOf'[n]] \in ToHeal
        BY <2>1, <2>6, <1>r DEF Healed
      <3>2. answered' = Rendered({}, {})' BY <2>1, <2>5, <1>r
      <3> HIDE DEF ToHeal
      <3> QED BY <2>2, <2>4, <3>1, <3>2 DEF RewireKnows
    <2> QED BY <1>a, <2>1, <2>2, <2>4, <2>7, OnlyMoves
  <1>6. ASSUME NEW w \in Workers, HealEach(w) PROVE AloneKnown'
    <2>1. alone /\ task[w].at = "heal_each" /\ UNCHANGED <<blockOf, answered>>
      BY <1>6 DEF HealEach
    <2>2. /\ answered' = Rendered({}, {})'
          /\ \A h \in task[w].todo : h.name \in Existing /\ h.block = blockOf[h.name]
          /\ \A n \in Existing : Healed(n) \/ [name |-> n, block |-> blockOf[n]] \in task[w].todo
      BY <2>1, <1>a, <1>r DEF RewireKnows
    <2>3. CASE task[w].todo = {} /\ Step(w, "end") /\ UNCHANGED <<carries, alone>>
      <3>1. task'[w].op = "rewire" /\ task'[w].at = "end" /\ \A v \in Workers : v # w => task'[v] = task[v]
        BY <2>1, <2>3, <1>s
      <3>2. \A n \in Existing' : Healed(n)' BY <2>1, <2>2, <2>3, <1>r DEF Healed
      <3>3. RewireKnows(task[w])' BY <2>2, <3>1, <3>2 DEF RewireKnows
      <3> QED BY <1>a, <2>1, <3>1, <3>3, OnlyMoves
    <2>4. ASSUME NEW h \in task[w].todo, task' = [task EXCEPT ![w].todo = @ \ {h}],
                 \/ carries' = [carries EXCEPT ![h.name] = h.block]
                 \/ carries[h.name] = NoRow /\ UNCHANGED carries
          PROVE  AloneKnown'
      <3> DEFINE t == [task[w] EXCEPT !.todo = task[w].todo \ {h}]
      <3>1. t.op = "rewire" /\ t.at = "heal_each" /\ t.todo = task[w].todo \ {h}
        BY <2>1, <1>a, <1>t DEF TaskStates
      <3>2. task' = [task EXCEPT ![w] = t] BY <2>4 DEF BlocksTypeOK
      <3> HIDE DEF t
      <3>3. task'[w] = t /\ \A v \in Workers : v # w => task'[v] = task[v] BY <3>2 DEF BlocksTypeOK
      <3>4. /\ h \in [name: Accounts, block: Blocks] /\ h.block = blockOf[h.name]
            /\ \A n \in Existing : n \in Accounts
        BY <1>t, <2>2 DEF TaskStates, Existing
      <3>5. ASSUME NEW n \in Existing PROVE Healed(n)' \/ [name |-> n, block |-> blockOf[n]] \in t.todo
        <4>1. CASE n = h.name BY <2>1, <2>4, <3>4, <4>1 DEF Healed, BlocksTypeOK
        <4>2. CASE n # h.name
          <5>1. carries'[n] = carries[n] BY <2>4, <3>4, <4>2 DEF BlocksTypeOK
          <5>2. [name |-> n, block |-> blockOf[n]] # h BY <4>2
          <5> QED BY <2>1, <2>2, <3>1, <5>1, <5>2 DEF Healed
        <4> QED BY <4>1, <4>2
      <3>6. RewireKnows(task[w])'
        <4>1. /\ \A k \in t.todo : k.name \in Existing' /\ k.block = blockOf'[k.name]
              /\ \A n \in Existing' : Healed(n)' \/ [name |-> n, block |-> blockOf'[n]] \in t.todo
          BY <2>1, <2>2, <3>1, <3>5, <1>r
        <4> QED BY <2>2, <3>1, <3>3, <4>1 DEF RewireKnows
      <3> QED BY <1>a, <2>1, <3>1, <3>3, <3>6, OnlyMoves
    <2> QED BY <1>6, <2>3, <2>4 DEF HealEach
  <1>7. ASSUME NEW w \in Workers, List(w) PROVE AloneKnown'
    <2>1. /\ alone /\ task[w].at = "wire" /\ task[w].op = "rewire" /\ UNCHANGED <<blockOf, carries, answered>>
      BY <1>7, <1>a DEF List
    <2> DEFINE t == [task[w] EXCEPT !.at = "publish", !.text = Rendered({}, {})]
    <2>2. t.op = "rewire" /\ t.at = "publish" /\ t.text = Rendered({}, {})
      BY <2>1, <1>t DEF TaskStates
    <2>3. task' = [task EXCEPT ![w] = t] BY <1>7, <2>1 DEF List, BlocksTypeOK
    <2> HIDE DEF t
    <2>4. task'[w] = t /\ \A v \in Workers : v # w => task'[v] = task[v] BY <2>3 DEF BlocksTypeOK
    <2>5. RewireKnows(task[w])' BY <1>r, <2>1, <2>2, <2>4 DEF RewireKnows
    <2> QED BY <1>a, <2>1, <2>2, <2>4, <2>5, OnlyMoves
  <1>8. ASSUME NEW w \in Workers, PublishRules(w) PROVE AloneKnown'
    <2>1. /\ alone /\ task[w].at = "publish" /\ UNCHANGED <<blockOf, carries>>
          /\ answered' = task[w].text /\ Step(w, AfterPublish(task[w].op))
      BY <1>8 DEF PublishRules
    <2>2. task[w].op = "rewire" /\ answered' = Rendered({}, {})' BY <2>1, <1>a, <1>r DEF RewireKnows
    <2>3. Step(w, "heal") BY <2>1, <2>2 DEF AfterPublish
    <2>4. task'[w].op = "rewire" /\ task'[w].at = "heal" /\ \A v \in Workers : v # w => task'[v] = task[v]
      BY <2>1, <2>3, <1>s
    <2>5. RewireKnows(task[w])' BY <2>2, <2>4 DEF RewireKnows
    <2> QED BY <1>a, <2>1, <2>4, <2>5, OnlyMoves
  <1>9. ASSUME NEW w \in Workers, End(w) \/ Crash(w) PROVE AloneKnown'
    <2>1. alone /\ task[w].at # "-" /\ task' = [task EXCEPT ![w] = NoTask]
      BY <1>9 DEF End, Crash, Finish
    <2>2. task'[w] = NoTask /\ \A v \in Workers : v # w => task'[v] = task[v] BY <2>1 DEF BlocksTypeOK
    <2> QED BY <1>a, <2>1, <2>2, OnlyMoves
  <1>10. CASE UNCHANGED blocksVars
    <2>1. alone /\ UNCHANGED <<blockOf, carries, answered, task>> BY <1>10 DEF blocksVars
    <2> QED BY <2>1, <1>t, <1>r DEF AloneKnown, Alone, RewireKnows, Healed
  <1> QED BY <1>1, <1>2, <1>3, <1>4, <1>5, <1>6, <1>7, <1>8, <1>9, <1>10 DEF BlocksNext

\* By pigeonhole a new /64 is found whenever there is one, whatever the holes,
\* and a rewire that ran alone leaves the responder answering for exactly the
\* accounts there are and their containers carrying their /64
\* (pickExtraBlock, RewireAllIPv6).
THEOREM BlocksAreSafe == BlocksSpec => [](BlocksTypeOK /\ BlocksSafe)
  <1>1. BlocksInit => BlocksInv
    <2>1. SUFFICES ASSUME BlocksInit PROVE BlocksInv OBVIOUS
    <2>2. BlocksTypeOK
      <3>1. begun \in 0..MaxTasks BY <2>1, BlocksAssumption DEF BlocksInit
      <3>2. task \in [Workers -> TaskStates] BY <2>1, NoTaskKnows DEF BlocksInit
      <3> QED BY <2>1, <3>1, <3>2 DEF BlocksInit, BlocksTypeOK
    <2> QED BY <2>1, <2>2, NoTaskKnows DEF BlocksInit, BlocksInv
  <1>2. BlocksInv /\ [BlocksNext]_blocksVars => BlocksInv'
    <2>1. SUFFICES ASSUME BlocksInv, [BlocksNext]_blocksVars PROVE BlocksInv' OBVIOUS
    <2>2. BlocksTypeOK' /\ (\A w \in Workers : TaskKnows(task[w]))' BY <2>1, BlocksTypedKept DEF BlocksInv
    <2>3. alone' => AloneKnown' BY <2>1, AloneKept
    <2> QED BY <2>2, <2>3 DEF BlocksInv, AloneKnown
  <1>3. BlocksInv => BlocksTypeOK /\ BlocksSafe
    <2>1. SUFFICES ASSUME BlocksInv PROVE BlocksTypeOK /\ BlocksSafe OBVIOUS
    <2>2. FreeBlockFound BY <2>1, UsedAreBlocks, SomeFree DEF BlocksInv, FreeBlockFound
    <2>3. RewireHeals BY <2>1 DEF BlocksInv, RewireKnows, Healed, RewireHeals
    <2> QED BY <2>1, <2>2, <2>3 DEF BlocksInv, BlocksSafe
  <1> QED BY <1>1, <1>2, <1>3, PTL DEF BlocksSpec

-----------------------------------------------------------------------------
(***************************************************************************)
(* Pool mode (Ipv6Pool)                                                    *)
(***************************************************************************)

PoolValues == Addresses \cup {None, Gone}
CreateSteps == {"create", "wire_new", "insert"}
AssignSteps == {"stop", "reshape", "start", "detach", "restore"}

PoolTypes ==
    /\ address \in [Tenants -> PoolValues] /\ shape \in [Tenants -> PoolValues]
    /\ work \in [at: {"none"} \cup CreateSteps \cup AssignSteps,
                 tenant: Tenants \cup {None}, pick: Addresses \cup {None}]
    /\ work.at = "none" => work = NoWork
    /\ work.at # "none" => work.tenant \in Tenants

\* No two rows have the same address, and a row differs from its container only
\* in the account that opMu's holder works on.
RowsInv ==
    /\ \A s, t \in Tenants : s # t /\ address[s] \in Addresses => address[s] # address[t]
    /\ \A t \in Tenants : work.at = "none" \/ t # work.tenant => shape[t] = address[t]

\* What a create or an assignment knows of its account at each of its steps.
WorkInv ==
    /\ work.at \in CreateSteps =>
        /\ address[work.tenant] = Gone
        /\ shape[work.tenant] = IF work.at = "create" THEN Gone ELSE work.pick
        /\ work.pick \in Addresses => \A t \in Tenants : address[t] # work.pick
    /\ work.at \in AssignSteps =>
        /\ work.pick \in Addresses /\ address[work.tenant] = work.pick
        /\ work.at \in {"start", "detach"} => shape[work.tenant] = work.pick

\* Once the boot unit has run, the host holds no address of the pool.
HostInv == booted => bound \cap pool = {}

PoolInv == PoolTypes /\ RowsInv /\ WorkInv /\ HostInv

LEMMA PoolInitially == PoolInit => PoolInv
  <1> SUFFICES ASSUME PoolInit PROVE PoolInv
    OBVIOUS
  <1>1. PoolTypes
    BY DEF PoolInit, PoolTypes, NoWork, PoolValues
  <1>2. RowsInv
    BY PoolAssumption DEF PoolInit, RowsInv
  <1>3. WorkInv
    BY DEF PoolInit, WorkInv, NoWork, CreateSteps, AssignSteps
  <1>4. HostInv
    BY DEF PoolInit, HostInv
  <1> QED
    BY <1>1, <1>2, <1>3, <1>4 DEF PoolInv

\* The host's side never gives the host an address back, but at a reboot.
LEMMA HostStep ==
    ASSUME HostInv,
           \/ UNCHANGED <<booted, pool>> /\ bound' \subseteq bound
           \/ UNCHANGED <<booted, bound>> /\ pool' \subseteq pool
           \/ bound' \cap pool' = {}
           \/ booted' = FALSE
    PROVE  HostInv'
  BY DEF HostInv

LEMMA AddTenantStep ==
    ASSUME PoolInv, NEW t \in Tenants, NEW pick \in Addresses \cup {None}, AddTenant(t, pick)
    PROVE  PoolInv'
  <1>1. /\ work' = [at |-> "create", tenant |-> t, pick |-> pick]
        /\ UNCHANGED <<pool, address, shape, bound, booted>>
        /\ work = NoWork /\ address[t] = Gone /\ shape[t] = Gone
    BY DEF AddTenant
  <1>2. PoolTypes'
    BY <1>1 DEF PoolInv, PoolTypes, CreateSteps
  <1>3. RowsInv'
    BY <1>1 DEF PoolInv, RowsInv, NoWork
  <1>4. pick \in Addresses => \A u \in Tenants : address[u] # pick
    BY PoolAssumption DEF AddTenant, PickPoolIPv6, UsedIPv6Addresses
  <1>5. WorkInv'
    BY <1>1, <1>4 DEF WorkInv, CreateSteps, AssignSteps
  <1> QED
    BY <1>1, <1>2, <1>3, <1>5, HostStep DEF PoolInv

LEMMA PoolCreateStep ==
    ASSUME PoolInv, CreateBox \/ WireNew \/ InsertTenant
    PROVE  PoolInv'
  <1> DEFINE t == work.tenant
  <1>0. work.at \in CreateSteps /\ t \in Tenants
    BY DEF CreateBox, WireNew, InsertTenant, CreateSteps, PoolInv, PoolTypes
  <1>1. CASE CreateBox
    <2>1. UNCHANGED <<pool, address, bound, booted>>
      BY <1>1 DEF CreateBox
    <2>2. CASE shape' = [shape EXCEPT ![t] = work.pick] /\ work' = [work EXCEPT !.at = "wire_new"]
      <3>1. PoolTypes'
        BY <1>0, <2>1, <2>2 DEF PoolInv, PoolTypes, CreateSteps, PoolValues, NoWork
      <3>2. RowsInv' /\ WorkInv'
        BY <1>0, <1>1, <2>1, <2>2
           DEF CreateBox, PoolInv, PoolTypes, RowsInv, WorkInv, CreateSteps, AssignSteps
      <3> QED
        BY <2>1, <3>1, <3>2, HostStep DEF PoolInv
    <2>3. CASE shape' = shape /\ work' = NoWork
      <3>1. PoolTypes'
        BY <2>1, <2>3 DEF PoolInv, PoolTypes, NoWork
      <3>2. RowsInv' /\ WorkInv'
        BY <1>0, <1>1, <2>1, <2>3
           DEF CreateBox, PoolInv, RowsInv, WorkInv, CreateSteps, AssignSteps, NoWork
      <3> QED
        BY <2>1, <3>1, <3>2, HostStep DEF PoolInv
    <2> QED
      BY <1>1, <2>2, <2>3 DEF CreateBox, WorkAt
  <1>2. CASE WireNew
    <2>1. UNCHANGED <<pool, address, booted>> /\ bound' \subseteq bound
      BY <1>2 DEF WireNew, LetGo
    <2>2. CASE shape' = shape /\ work' = [work EXCEPT !.at = "insert"]
      <3>1. PoolTypes'
        BY <1>0, <2>1, <2>2 DEF PoolInv, PoolTypes, CreateSteps, PoolValues, NoWork
      <3>2. RowsInv' /\ WorkInv'
        BY <1>0, <1>2, <2>1, <2>2
           DEF WireNew, PoolInv, PoolTypes, RowsInv, WorkInv, CreateSteps, AssignSteps
      <3> QED
        BY <2>1, <3>1, <3>2, HostStep DEF PoolInv
    <2>3. CASE shape' = [shape EXCEPT ![t] = Gone] /\ work' = NoWork
      <3>1. PoolTypes'
        BY <1>0, <2>1, <2>3 DEF PoolInv, PoolTypes, NoWork, PoolValues
      <3>2. RowsInv' /\ WorkInv'
        BY <1>0, <2>1, <2>3
           DEF PoolInv, PoolTypes, RowsInv, WorkInv, CreateSteps, AssignSteps, NoWork
      <3> QED
        BY <2>1, <3>1, <3>2, HostStep DEF PoolInv
    <2> QED
      BY <1>2, <2>2, <2>3 DEF WireNew, WorkAt
  <1>3. CASE InsertTenant
    <2>1. /\ UNCHANGED <<pool, shape, bound, booted>>
          /\ address' = [address EXCEPT ![t] = work.pick] /\ work' = NoWork
          /\ work.at = "insert"
      BY <1>3 DEF InsertTenant
    <2>2. PoolTypes'
      BY <1>0, <2>1 DEF PoolInv, PoolTypes, NoWork, PoolValues
    <2>3. RowsInv'
      BY <1>0, <2>1, PoolAssumption DEF PoolInv, PoolTypes, RowsInv, WorkInv, CreateSteps, NoWork
    <2>4. WorkInv'
      BY <2>1 DEF WorkInv, CreateSteps, AssignSteps, NoWork
    <2> QED
      BY <2>1, <2>2, <2>3, <2>4, HostStep DEF PoolInv
  <1> QED
    BY <1>1, <1>2, <1>3

LEMMA DelTenantStep ==
    ASSUME PoolInv, NEW t \in Tenants, DelTenant(t)
    PROVE  PoolInv'
  <1>1. /\ work = NoWork /\ UNCHANGED <<pool, bound, work, booted>>
        /\ address' = [address EXCEPT ![t] = Gone] /\ shape' = [shape EXCEPT ![t] = Gone]
    BY DEF DelTenant
  <1>2. PoolTypes'
    BY <1>1 DEF PoolInv, PoolTypes, PoolValues, NoWork
  <1>3. RowsInv' /\ WorkInv'
    BY <1>1, PoolAssumption
       DEF PoolInv, PoolTypes, RowsInv, WorkInv, CreateSteps, AssignSteps, NoWork
  <1> QED
    BY <1>1, <1>2, <1>3, HostStep DEF PoolInv

LEMMA AssignBegins ==
    ASSUME PoolInv, NEW t \in Tenants, NEW pick \in Addresses, Assign(t, pick)
    PROVE  PoolInv'
  <1>1. /\ UNCHANGED <<pool, shape, bound, booted>> /\ work = NoWork
        /\ address' = [address EXCEPT ![t] = pick]
        /\ work' = [at |-> "stop", tenant |-> t, pick |-> pick]
    BY DEF Assign
  <1>2. \A u \in Tenants : address[u] # pick
    BY PoolAssumption DEF Assign, PickPoolIPv6, UsedIPv6Addresses
  <1>3. PoolTypes'
    BY <1>1 DEF PoolInv, PoolTypes, AssignSteps, PoolValues
  <1>4. RowsInv' /\ WorkInv'
    BY <1>1, <1>2 DEF PoolInv, PoolTypes, RowsInv, WorkInv, CreateSteps, AssignSteps, NoWork
  <1> QED
    BY <1>1, <1>3, <1>4, HostStep DEF PoolInv

\* Between the stop and the detach an assignment touches its own container only.
LEMMA AssignStep ==
    ASSUME PoolInv, AssignStop \/ AssignReshape \/ AssignStart
    PROVE  PoolInv'
  <1> DEFINE t == work.tenant
  <1>0. work.at \in AssignSteps /\ t \in Tenants
    BY DEF AssignStop, AssignReshape, AssignStart, AssignSteps, PoolInv, PoolTypes
  <1>1. /\ UNCHANGED <<pool, address, bound, booted>>
        /\ shape' = shape \/ shape' = [shape EXCEPT ![t] = work.pick]
    BY DEF AssignStop, AssignReshape, AssignStart
  <1>2. PICK at \in {"reshape", "start", "detach", "restore"} :
            /\ work' = [work EXCEPT !.at = at]
            /\ at \in {"start", "detach"} => shape'[t] = work.pick
    <2>1. CASE AssignStop
      BY <2>1 DEF AssignStop, WorkAt
    <2>2. CASE AssignReshape
      BY <1>0, <2>2 DEF AssignReshape, WorkAt, PoolInv, PoolTypes
    <2>3. CASE AssignStart
      BY <2>3 DEF AssignStart, WorkAt, PoolInv, WorkInv, AssignSteps
    <2> QED
      BY <2>1, <2>2, <2>3
  <1>3. PoolTypes'
    BY <1>0, <1>1, <1>2 DEF PoolInv, PoolTypes, AssignSteps, PoolValues, NoWork
  <1>4. RowsInv'
    BY <1>0, <1>1, <1>2 DEF PoolInv, PoolTypes, RowsInv, AssignSteps
  <1>5. WorkInv'
    BY <1>0, <1>1, <1>2 DEF PoolInv, PoolTypes, WorkInv, CreateSteps, AssignSteps
  <1> QED
    BY <1>1, <1>3, <1>4, <1>5, HostStep DEF PoolInv

LEMMA AssignEnds ==
    ASSUME PoolInv, ~CanFail("restore"), AssignDetach \/ RestoreShape
    PROVE  PoolInv'
  <1> DEFINE t == work.tenant
  <1>0. work.at \in AssignSteps /\ t \in Tenants
    BY DEF AssignDetach, RestoreShape, AssignSteps, PoolInv, PoolTypes
  <1>1. CASE AssignDetach
    <2>1. /\ UNCHANGED <<pool, address, shape, booted>> /\ bound' \subseteq bound
          /\ work' = NoWork /\ work.at = "detach"
      BY <1>1 DEF AssignDetach, LetGo
    <2>2. PoolTypes'
      BY <2>1 DEF PoolInv, PoolTypes, NoWork
    <2>3. RowsInv' /\ WorkInv'
      BY <1>0, <2>1 DEF PoolInv, RowsInv, WorkInv, CreateSteps, AssignSteps, NoWork
    <2> QED
      BY <2>1, <2>2, <2>3, HostStep DEF PoolInv
  <1>2. CASE RestoreShape
    <2>1. /\ UNCHANGED <<pool, bound, booted>> /\ work' = NoWork
          /\ address' = [address EXCEPT ![t] = None]
          /\ shape' = [shape EXCEPT ![t] = None]
      BY <1>2 DEF RestoreShape, OldShape
    <2>2. PoolTypes'
      BY <1>0, <2>1 DEF PoolInv, PoolTypes, NoWork, PoolValues
    <2>3. RowsInv' /\ WorkInv'
      BY <1>0, <2>1, PoolAssumption
         DEF PoolInv, PoolTypes, RowsInv, WorkInv, CreateSteps, AssignSteps, NoWork
    <2> QED
      BY <2>1, <2>2, <2>3, HostStep DEF PoolInv
  <1> QED
    BY <1>1, <1>2

\* The forms and the host leave the accounts alone.
LEMMA FormStep ==
    ASSUME PoolInv,
           \/ \E a \in Addresses : AddPoolIPv6(a)
           \/ \E e \in PoolEditors : RemoveSave(e) \/ \E a \in Addresses : RemoveCheck(e, a)
           \/ HostReboots \/ RewireAllIPv6Pool
    PROVE  PoolInv'
  <1>1. UNCHANGED <<address, shape, work>>
    BY DEF AddPoolIPv6, RemoveSave, RemoveCheck, HostReboots, RewireAllIPv6Pool
  <1>2. HostInv'
    BY HostStep DEF PoolInv, AddPoolIPv6, RemoveSave, RemoveCheck, HostReboots,
                    RewireAllIPv6Pool, LetGo
  <1> QED
    BY <1>1, <1>2 DEF PoolInv, PoolTypes, RowsInv, WorkInv

LEMMA PoolInductive ==
    ASSUME ~CanFail("restore")
    PROVE  PoolInv /\ [PoolNext]_poolVars => PoolInv'
  <1> SUFFICES ASSUME PoolInv, [PoolNext]_poolVars PROVE PoolInv'
    OBVIOUS
  <1>1. CASE UNCHANGED poolVars
    BY <1>1 DEF poolVars, PoolInv, PoolTypes, RowsInv, WorkInv, HostInv
  <1>2. CASE PoolNext
    BY <1>2, AddTenantStep, PoolCreateStep, DelTenantStep, AssignBegins, AssignStep, AssignEnds,
       FormStep DEF PoolNext
  <1> QED
    BY <1>1, <1>2

LEMMA InvIsSafe == PoolInv => PoolSafe
  <1> SUFFICES ASSUME PoolInv PROVE PoolSafe
    OBVIOUS
  <1>1. ShapeFollowsRow
    <2> SUFFICES ASSUME work = NoWork
                 PROVE  /\ shape = address
                        /\ \A s, t \in Tenants : s # t /\ shape[s] \in Addresses
                                                    => shape[s] # shape[t]
      BY DEF ShapeFollowsRow
    <2>1. \A t \in Tenants : shape[t] = address[t]
      BY DEF PoolInv, RowsInv, NoWork
    <2>2. shape = address
      BY <2>1 DEF PoolInv, PoolTypes
    <2> QED
      BY <2>2 DEF PoolInv, RowsInv
  <1>2. HostLetsGo
    BY DEF PoolInv, HostInv, HostLetsGo
  <1> QED
    BY <1>1, <1>2 DEF PoolSafe

\* Whatever an assignment or a create fails at, row and container agree at rest,
\* no two containers have one address, and the host holds none that a container
\* has, over changes of the pool and reboots (AssignPoolIPv6, WireIPv6Pool,
\* RewireAllIPv6Pool) -- if Incus takes the configuration that is put back.
THEOREM PoolIsSafe ==
    ASSUME ~CanFail("restore")
    PROVE  PoolSpec => []PoolSafe
  BY PoolInitially, PoolInductive, InvIsSafe, PTL DEF PoolSpec

=============================================================================
