----------------------------- MODULE Host_proofs -----------------------------
(***************************************************************************)
(* Theorems about all the components of the host together: the composed    *)
(* specification lets one component act at a time and the others rest, so  *)
(* it implements each of them and inherits what is proved of each.         *)
(***************************************************************************)
EXTENDS MCHost, Limits_proofs, Containers_proofs, Ipv6_proofs, Panel_proofs, Transfer_proofs

LEMMA PartsInitially ==
    ASSUME HostInit
    PROVE  /\ ThrottleInit /\ CpuInit /\ PowerInit /\ SnapInit /\ NdpInit /\ BlocksInit /\ PoolInit
           /\ SessionsInit /\ AdminInit /\ MigrationsInit /\ TerminalInit /\ StreamInit
           /\ BatchInit /\ TransferInit /\ ImportInit
  BY DEF HostInit

\* A step of the host is a step or a stutter of every component.
LEMMA PartsStep ==
    ASSUME [HostNext]_hostVars
    PROVE  /\ [ThrottleNext]_throttleVars
           /\ [CpuNext]_cpuVars
           /\ [PowerNext]_powerVars
           /\ [SnapNext]_snapVars
           /\ [NdpNext]_ndpVars
           /\ [BlocksNext]_blocksVars
           /\ [PoolNext]_poolVars
           /\ [SessionsNext]_sessionVars
           /\ [AdminNext]_adminVars
           /\ [MigrationsNext]_migrationVars
           /\ [TerminalNext]_terminalVars
           /\ [StreamNext]_streamVars
           /\ [BatchNext]_batchVars
           /\ [TransferNext]_transferVars
           /\ [ImportNext]_importVars
  <1>1. CASE HostNext
    BY <1>1 DEF HostNext, Turn
  <1>2. CASE UNCHANGED hostVars
    BY <1>2 DEF hostVars
  <1> QED
    BY <1>1, <1>2

\* The host implements each of its components: HostInit restricts their initial
\* states and HostNext gives each of them its own steps or none.
THEOREM HostHasParts ==
    HostSpec => /\ ThrottleSpec /\ CpuSpec /\ PowerSpec /\ SnapSpec /\ NdpSpec /\ BlocksSpec /\ PoolSpec
                /\ SessionsSpec /\ AdminSpec /\ MigrationsSpec /\ TerminalSpec /\ StreamSpec
                /\ BatchSpec /\ TransferSpec /\ ImportSpec
  BY PartsInitially, PartsStep, PTL
     DEF HostSpec, ThrottleSpec, CpuSpec, PowerSpec, SnapSpec, NdpSpec, BlocksSpec, PoolSpec, SessionsSpec, AdminSpec, MigrationsSpec, TerminalSpec, StreamSpec, BatchSpec, TransferSpec, ImportSpec

-----------------------------------------------------------------------------
(***************************************************************************)
(* The types of the components whose own theorems do not state them        *)
(***************************************************************************)

\* The handler that resets is the one variable ThrottleInv leaves out.
LEMMA ThrottleTypes == ThrottleSpec => []ThrottleTypeOK
  <1> DEFINE Inv == ThrottleInv /\ resetting \in BOOLEAN
  <1>1. ThrottleInit => Inv
    BY ThrottleInitially DEF ThrottleInit
  <1>2. Inv /\ [ThrottleNext]_throttleVars => Inv'
    <2> SUFFICES ASSUME Inv, [ThrottleNext]_throttleVars PROVE resetting' \in BOOLEAN
      BY ThrottleInductive
    <2>1. CASE UNCHANGED throttleVars
      BY <2>1 DEF throttleVars
    <2>2. CASE Traffic \/ Restart \/ NextMonth \/ SetAllowance
      BY <2>2 DEF Traffic, Restart, NextMonth, SetAllowance
    <2>3. CASE Sampler
      BY <2>3 DEF Sampler, SampleResources, RecordResourceSamples, ListAndPrime, Decide, SetLimit
    <2>4. CASE ResetTotals \/ ResetLimit \/ PanelRestart
      BY <2>4 DEF ResetTotals, ResetLimit, PanelRestart
    <2>5. CASE ReinstallDelete \/ ReinstallLaunch
      BY <2>5 DEF ReinstallDelete, ReinstallLaunch, DeleteContainer
    <2>6. CASE ReinstallRollback \/ ReinstallReady \/ ReinstallDropFlag
      BY <2>6 DEF ReinstallRollback, ReinstallReady, ReinstallDropFlag, DeleteContainer
    <2> QED
      BY <2>1, <2>2, <2>3, <2>4, <2>5, <2>6 DEF ThrottleNext
  <1>3. Inv => ThrottleTypeOK
    BY DEF ThrottleInv, ThrottleTyped, ThrottleTypeOK, BoxStates, PassStates
  <1> QED
    BY <1>1, <1>2, <1>3, PTL DEF ThrottleSpec

\* What Run holds, of the file and of a solicitation.
FileTypes ==
    /\ rulefile \in [set: SUBSET AllBlocks, mtime: 1..MaxPublished] \cup {None}
    /\ published \in 0..MaxPublished
RunTypes ==
    /\ rules \in [set: SUBSET Allowed, mtime: 0..MaxPublished]
    /\ loop \in [at: {"top", "stat", "sync", "recv", "check", "reload", "answer"},
                 target: AllBlocks \cup {None}, mtime: 0..MaxPublished]
SenderTypes ==
    /\ last \subseteq AllBlocks /\ queue \subseteq AllBlocks /\ told \subseteq AllBlocks
    /\ sender \in AllBlocks \cup {None, "drain", "leaving"}
FlagTypes == due \in BOOLEAN /\ refresh \in BOOLEAN /\ woken \in BOOLEAN /\ fresh \in BOOLEAN

LEMMA FileMoves ==
    ASSUME FileTypes, [NdpNext]_ndpVars
    PROVE  FileTypes'
  <1>1. CASE RulesPublished
    <2>1. MaxPublished \in Nat /\ published' \in 0..MaxPublished /\ published + 1 \in 1..MaxPublished
      BY <1>1, NdpAssumption DEF RulesPublished, FileTypes
    <2>2. ASSUME NEW blocks \in Renderable, rulefile' = [set |-> blocks, mtime |-> published + 1]
          PROVE  FileTypes'
      BY <2>1, <2>2 DEF FileTypes, Renderable, AllBlocks
    <2> QED
      BY <1>1, <2>1, <2>2 DEF RulesPublished, FileTypes
  <1>2. CASE UNCHANGED <<rulefile, published>>
    BY <1>2 DEF FileTypes
  <1> QED
    BY <1>1, <1>2
       DEF NdpNext, ndpVars, Second, Interval, Solicit, Run, ResponderExit, Announcer, UNS, UNR,
           Reload, StatAfterReload, Sync, RecvTimeout, NotDue, CheckFile, ReloadForSolicitation,
           AnswerSolicitation, Park, Wake, Pop, SendAnnouncement

\* A file that is there holds blocks and the time it was written.
LEMMA FileThere ==
    ASSUME FileTypes, rulefile # None
    PROVE  rulefile.set \in SUBSET AllBlocks /\ rulefile.mtime \in 0..MaxPublished
  BY DEF FileTypes

LEMMA RulesFiltered == \A blocks : Filtered(blocks) \in SUBSET Allowed
  BY DEF Filtered

LEMMA LoopMoves ==
    ASSUME NEW target \in AllBlocks \cup {None}, NEW mtime \in 0..MaxPublished,
           NEW step \in {"top", "stat", "sync", "recv", "check", "reload", "answer"}
    PROVE  Loop(step, target, mtime) \in [at: {"top", "stat", "sync", "recv", "check", "reload", "answer"},
                                          target: AllBlocks \cup {None}, mtime: 0..MaxPublished]
  BY DEF Loop

LEMMA RunMoves ==
    ASSUME FileTypes, RunTypes, [NdpNext]_ndpVars
    PROVE  RunTypes'
  <1> DEFINE RuleStates == [set: SUBSET Allowed, mtime: 0..MaxPublished]
             LoopStates == [at: {"top", "stat", "sync", "recv", "check", "reload", "answer"},
                            target: AllBlocks \cup {None}, mtime: 0..MaxPublished]
  <1>0. /\ 0 \in 0..MaxPublished /\ rules \in RuleStates /\ loop \in LoopStates
        /\ Cleared(rules) \in RuleStates /\ loop.target \in AllBlocks \cup {None}
        /\ loop.mtime \in 0..MaxPublished
    BY NdpAssumption DEF RunTypes, Cleared
  <1>1. \A step \in {"top", "stat", "sync", "recv", "check", "reload", "answer"} :
            At(step) => loop' \in LoopStates
    BY <1>0 DEF At, Loop
  <1>2. ASSUME rules' \in RuleStates, loop' \in LoopStates PROVE RunTypes'
    BY <1>2 DEF RunTypes
  <1>3. CASE Reload
    <2>1. loop' \in LoopStates
      BY <1>1, <1>3 DEF Reload
    <2>2. rules' \in RuleStates
      BY <1>0, <1>3, RulesFiltered DEF Reload
    <2> QED
      BY <1>2, <2>1, <2>2
  <1>4. CASE StatAfterReload
    <2>1. loop' \in LoopStates
      BY <1>1, <1>4 DEF StatAfterReload
    <2>2. rules' \in RuleStates
      BY <1>0, <1>4, FileThere DEF StatAfterReload
    <2> QED
      BY <1>2, <2>1, <2>2
  <1>5. CASE Sync \/ RecvTimeout \/ NotDue \/ AnswerSolicitation
    BY <1>0, <1>1, <1>2, <1>5 DEF Sync, RecvTimeout, NotDue, AnswerSolicitation
  <1>6. ASSUME NEW target \in AllBlocks, Solicit(target)
        PROVE  RunTypes'
    <2>1. loop' \in LoopStates
      BY <1>0, <1>6, LoopMoves DEF Solicit
    <2> QED
      BY <1>0, <1>2, <1>6, <2>1 DEF Solicit
  <1>7. CASE CheckFile
    <2>1. Loop("answer", loop.target, 0) \in LoopStates
      BY <1>0, LoopMoves
    <2>2. CASE rulefile # None
      <3>1. Loop("reload", loop.target, rulefile.mtime) \in LoopStates
        BY <1>0, <2>2, FileThere, LoopMoves
      <3> QED
        BY <1>0, <1>2, <1>7, <2>1, <2>2, <3>1 DEF CheckFile
    <2>3. CASE rulefile = None
      <3>1. loop' \in LoopStates
        BY <1>7, <2>1, <2>3 DEF CheckFile
      <3>2. rules' \in RuleStates
        BY <1>0, <1>7, <2>3 DEF CheckFile
      <3> QED
        BY <1>2, <3>1, <3>2
    <2> QED
      BY <2>2, <2>3
  <1>8. CASE ReloadForSolicitation
    <2>1. loop' \in LoopStates
      BY <1>0, <1>8, LoopMoves DEF ReloadForSolicitation
    <2>2. rules' \in RuleStates
      BY <1>0, <1>8, RulesFiltered DEF ReloadForSolicitation
    <2> QED
      BY <1>2, <2>1, <2>2
  <1>9. CASE ResponderExit
    <2>1. loop' \in LoopStates
      BY <1>0, <1>9, LoopMoves DEF ResponderExit
    <2> QED
      BY <1>0, <1>2, <1>9, <2>1 DEF ResponderExit
  <1>10. CASE UNCHANGED <<rules, loop>>
    BY <1>10 DEF RunTypes
  <1> QED
    BY <1>3, <1>4, <1>5, <1>6, <1>7, <1>8, <1>9, <1>10
       DEF NdpNext, ndpVars, RulesPublished, Second, Interval, Run, Announcer, UNR,
           Park, Wake, Pop, SendAnnouncement

LEMMA SenderMoves ==
    ASSUME RunTypes, SenderTypes, [NdpNext]_ndpVars
    PROVE  SenderTypes'
  <1>0. rules.set \subseteq AllBlocks
    BY DEF RunTypes, Allowed, AllBlocks
  <1>1. CASE Sync
    BY <1>0, <1>1 DEF Sync, SenderTypes
  <1>2. CASE ResponderExit
    BY <1>2 DEF ResponderExit, SenderTypes
  <1>3. CASE Announcer
    BY <1>3 DEF Announcer, UNR, Park, Wake, Pop, SendAnnouncement, SenderTypes
  <1>4. CASE UNCHANGED <<last, queue, told, sender>>
    BY <1>4 DEF SenderTypes
  <1> QED
    BY <1>1, <1>2, <1>3, <1>4
       DEF NdpNext, ndpVars, RulesPublished, Second, Interval, Solicit, Run, UNS, Reload,
           StatAfterReload, RecvTimeout, NotDue, CheckFile, ReloadForSolicitation, AnswerSolicitation

LEMMA FlagMoves ==
    ASSUME FlagTypes, [NdpNext]_ndpVars
    PROVE  FlagTypes'
  <1>1. CASE RulesPublished \/ Second \/ Interval
    BY <1>1 DEF RulesPublished, Second, Interval, FlagTypes
  <1>2. CASE Run \/ ResponderExit
    BY <1>2, NdpAssumption
       DEF Run, ResponderExit, Reload, StatAfterReload, Sync, Woke, RecvTimeout, NotDue, CheckFile,
           ReloadForSolicitation, AnswerSolicitation, UNS, FlagTypes
  <1>3. CASE Announcer
    BY <1>3 DEF Announcer, UNR, Park, Wake, Pop, SendAnnouncement, FlagTypes
  <1>4. ASSUME NEW target \in AllBlocks, Solicit(target) PROVE FlagTypes'
    BY <1>4 DEF Solicit, UNS, FlagTypes
  <1>5. CASE UNCHANGED ndpVars
    BY <1>5 DEF ndpVars, FlagTypes
  <1> QED
    BY <1>1, <1>2, <1>3, <1>4, <1>5 DEF NdpNext

LEMMA NdpTypes == NdpSpec => []NdpTypeOK
  <1> DEFINE Inv == FileTypes /\ RunTypes /\ SenderTypes /\ FlagTypes
  <1>1. NdpInit => Inv
    <2> SUFFICES ASSUME NdpInit PROVE Inv
      OBVIOUS
    <2>1. FileTypes /\ SenderTypes
      BY NdpAssumption DEF NdpInit, FileTypes, SenderTypes
    <2>2. RunTypes
      BY NdpAssumption DEF NdpInit, RunTypes, Loop
    <2>3. FlagTypes
      BY NdpAssumption DEF NdpInit, FlagTypes
    <2> QED
      BY <2>1, <2>2, <2>3
  <1>2. Inv /\ [NdpNext]_ndpVars => Inv'
    BY FileMoves, RunMoves, SenderMoves, FlagMoves
  <1>3. Inv => NdpTypeOK
    <2>1. FlagTypes => {due, refresh, woken, fresh} \subseteq BOOLEAN
      BY Zenon DEF FlagTypes
    <2> QED
      BY <2>1 DEF NdpTypeOK, FileTypes, RunTypes, SenderTypes
  <1> QED
    BY <1>1, <1>2, <1>3, PTL DEF NdpSpec

\* Whether or not a failed reshape can be undone, the pool's variables keep
\* their types: PoolInv needs that only for what they say.
PoolTyped ==
    /\ PoolTypes /\ tenantsUp \subseteq Tenants /\ booted \in BOOLEAN
    /\ pool \subseteq Addresses /\ bound \subseteq Addresses
    /\ editor \in [PoolEditors -> Addresses \cup {None}]

\* A step of the operation under way moves it on or ends it.
LEMMA WorkMoves ==
    ASSUME PoolTypes, work.at # "none",
           \/ work' = NoWork
           \/ \E at \in CreateSteps \cup AssignSteps : WorkAt(at)
    PROVE  /\ work' \in [at: {"none"} \cup CreateSteps \cup AssignSteps,
                         tenant: Tenants \cup {None}, pick: Addresses \cup {None}]
           /\ work'.at = "none" => work' = NoWork
           /\ work'.at # "none" => work'.tenant \in Tenants
  <1>1. CASE work' = NoWork
    BY <1>1 DEF NoWork
  <1>2. ASSUME NEW at \in CreateSteps \cup AssignSteps, WorkAt(at)
        PROVE  /\ work' \in [at: {"none"} \cup CreateSteps \cup AssignSteps,
                             tenant: Tenants \cup {None}, pick: Addresses \cup {None}]
               /\ work'.at = at /\ work'.tenant = work.tenant
    BY <1>2 DEF WorkAt, PoolTypes
  <1>3. \A at \in CreateSteps \cup AssignSteps : at # "none"
    BY DEF CreateSteps, AssignSteps
  <1> QED
    BY <1>1, <1>2, <1>3 DEF PoolTypes

LEMMA OperationMoves ==
    ASSUME PoolTypes, CreateBox \/ WireNew \/ InsertTenant \/ AssignStop \/ AssignReshape
                      \/ AssignStart \/ AssignDetach \/ RestoreShape
    PROVE  PoolTypes'
  <1>1. work.at # "none"
    BY DEF CreateBox, WireNew, InsertTenant, AssignStop, AssignReshape, AssignStart, AssignDetach,
           RestoreShape
  <1>2. \/ work' = NoWork
        \/ \E at \in CreateSteps \cup AssignSteps : WorkAt(at)
    BY DEF CreateBox, WireNew, InsertTenant, AssignStop, AssignReshape, AssignStart, AssignDetach,
           RestoreShape, CreateSteps, AssignSteps
  <1>3. work.pick \in PoolValues /\ None \in PoolValues /\ Gone \in PoolValues
    BY DEF PoolTypes, PoolValues
  <1>4. address' \in [Tenants -> PoolValues]
    BY <1>3 DEF PoolTypes, CreateBox, WireNew, InsertTenant, AssignStop, AssignReshape, AssignStart,
                AssignDetach, RestoreShape
  <1>5. shape' \in [Tenants -> PoolValues]
    BY <1>3 DEF PoolTypes, CreateBox, WireNew, InsertTenant, AssignStop, AssignReshape, AssignStart,
                AssignDetach, RestoreShape, OldShape
  <1> QED
    BY <1>1, <1>2, <1>4, <1>5, WorkMoves DEF PoolTypes

LEMMA PoolTypedKept ==
    ASSUME PoolTyped, [PoolNext]_poolVars
    PROVE  PoolTyped'
  <1> USE DEF PoolTyped
  <1>1. CASE UNCHANGED poolVars
    BY <1>1 DEF poolVars, PoolTypes
  <1>2. ASSUME NEW t \in Tenants, NEW pick \in Addresses \cup {None}, AddTenant(t, pick)
        PROVE  PoolTyped'
    BY <1>2 DEF AddTenant, PoolTypes, CreateSteps, NoWork
  <1>3. ASSUME NEW t \in Tenants, NEW pick \in Addresses, Assign(t, pick)
        PROVE  PoolTyped'
    <2>1. pick \in PoolValues
      BY DEF PoolValues
    <2> QED
      BY <1>3, <2>1 DEF Assign, PoolTypes, AssignSteps, NoWork
  <1>4. ASSUME NEW t \in Tenants, DelTenant(t)
        PROVE  PoolTyped'
    <2>1. Gone \in PoolValues
      BY DEF PoolValues
    <2> QED
      BY <1>4, <2>1 DEF DelTenant, PoolTypes
  <1>5. CASE CreateBox \/ WireNew \/ InsertTenant \/ AssignStop \/ AssignReshape
             \/ AssignStart \/ AssignDetach \/ RestoreShape
    <2>1. work.tenant \in Tenants
      BY <1>5 DEF PoolTypes, CreateBox, WireNew, InsertTenant, AssignStop, AssignReshape,
                  AssignStart, AssignDetach, RestoreShape
    <2>2. tenantsUp' \subseteq Tenants
      BY <1>5, <2>1 DEF CreateBox, WireNew, InsertTenant, AssignStop, AssignReshape, AssignStart,
                        AssignDetach, RestoreShape
    <2>3. bound' \subseteq bound /\ UNCHANGED <<pool, editor, booted>>
      BY <1>5 DEF CreateBox, WireNew, InsertTenant, AssignStop, AssignReshape, AssignStart,
                  AssignDetach, RestoreShape, LetGo
    <2> QED
      BY <1>5, <2>2, <2>3, OperationMoves
  <1>6. ASSUME NEW a \in Addresses, AddPoolIPv6(a)
        PROVE  PoolTyped'
    BY <1>6 DEF AddPoolIPv6, LetGo, PoolTypes
  <1>7. ASSUME NEW e \in PoolEditors, NEW a \in Addresses, RemoveCheck(e, a)
        PROVE  PoolTyped'
    BY <1>7 DEF RemoveCheck, PoolTypes
  <1>8. ASSUME NEW e \in PoolEditors, RemoveSave(e)
        PROVE  PoolTyped'
    BY <1>8 DEF RemoveSave, PoolTypes
  <1>9. CASE HostReboots \/ RewireAllIPv6Pool
    BY <1>9 DEF HostReboots, RewireAllIPv6Pool, LetGo, PoolTypes
  <1> QED
    BY <1>1, <1>2, <1>3, <1>4, <1>5, <1>6, <1>7, <1>8, <1>9 DEF PoolNext

LEMMA PoolKeepsTypes == PoolSpec => []PoolTypeOK
  <1>1. PoolInit => PoolTyped
    BY PoolInitially DEF PoolInit, PoolInv, PoolTyped
  <1>2. PoolTyped => PoolTypeOK
    BY DEF PoolTyped, PoolTypes, PoolValues, PoolTypeOK
  <1> QED
    BY <1>1, <1>2, PoolTypedKept, PTL DEF PoolSpec

\* Rows are numbered in the order they are inserted.
LEMMA AdminTypes == AdminSpec => []AdminTypeOK
  <1>1. AdminInit => AdminTypeOK
    BY AdminAssumption DEF AdminInit, AdminTypeOK
  <1>2. AdminTypeOK /\ [AdminNext]_adminVars => AdminTypeOK'
    <2> SUFFICES ASSUME AdminTypeOK, [AdminNext]_adminVars PROVE AdminTypeOK'
      OBVIOUS
    <2>1. ASSUME operator' \subseteq operator, outdated' \subseteq operator', UNCHANGED opened,
                 signIn' \in [SignIns -> {"idle", "prune", "create"}]
          PROVE  AdminTypeOK'
      BY <2>1 DEF AdminTypeOK
    <2>2. ASSUME NEW r \in SignIns, AdminLogin(r) PROVE AdminTypeOK'
      BY <2>1, <2>2 DEF AdminLogin, AdminTypeOK
    <2>3. ASSUME NEW r \in SignIns, PruneAdminSessions(r) PROVE AdminTypeOK'
      <3>1. operator' \subseteq operator
        BY <2>3 DEF PruneAdminSessions, KeptTokens, Newest
      <3> QED
        BY <2>1, <2>3, <3>1 DEF PruneAdminSessions, AdminTypeOK
    <2>4. ASSUME NEW r \in SignIns, CreateAdminSession(r) PROVE AdminTypeOK'
      <3>1. opened' = opened + 1 /\ opened' \in 0..MaxOpened /\ opened \in Nat
        BY <2>4, AdminAssumption DEF CreateAdminSession, AdminTypeOK
      <3>2. operator' \subseteq 1..opened' /\ outdated' \subseteq operator'
        BY <2>4, <3>1 DEF CreateAdminSession, AdminTypeOK
      <3> QED
        BY <2>4, <3>1, <3>2 DEF CreateAdminSession, AdminTypeOK
    <2>5. ASSUME NEW t \in operator, Outdate(t) \/ DeleteAdminSession(t) PROVE AdminTypeOK'
      <3>1. CASE Outdate(t)
        BY <2>1, <3>1 DEF Outdate, AdminTypeOK
      <3>2. CASE DeleteAdminSession(t)
        BY <2>1, <3>2 DEF DeleteAdminSession, AdminTypeOK
      <3> QED
        BY <2>5, <3>1, <3>2
    <2>6. ASSUME NEW keep, ClearAdminSessionsExcept(keep) PROVE AdminTypeOK'
      BY <2>1, <2>6 DEF ClearAdminSessionsExcept, AdminTypeOK
    <2>7. CASE UNCHANGED adminVars
      BY <2>7 DEF adminVars, AdminTypeOK
    <2> QED
      BY <2>2, <2>3, <2>4, <2>5, <2>6, <2>7 DEF AdminNext
  <1> QED
    BY <1>1, <1>2, PTL DEF AdminSpec

\* MigrationsInv says it of the records; a process runs a version it read of.
LEMMA MigrationsTypes == MigrationsSpec => []MigrationsTypeOK
  <1> DEFINE Inv == MigrationsInv /\ schema \subseteq Versions
  <1>1. MigrationsInit => Inv
    <2>1. MigrationsInit => schema \subseteq Versions
      BY MigrationsAssumption DEF MigrationsInit, Versions
    <2> QED
      BY <2>1, MigrationsInitially
  <1>2. Inv /\ [MigrationsNext]_migrationVars => Inv'
    <2> SUFFICES ASSUME Inv, [MigrationsNext]_migrationVars PROVE schema' \subseteq Versions
      BY MigrationsInductive
    <2>1. ASSUME NEW p \in Openers, Migrate(p) PROVE schema' \subseteq Versions
      <3>1. \/ schema' = schema
            \/ opener[p].next \in Versions /\ schema' = schema \cup {opener[p].next}
        <4>1. opener[p].at = "migrating" /\ opener[p].next <= BinaryVersion[p]
          BY <2>1 DEF Migrate
        <4>2. PICK k \in Versions : UpTo(k)
          BY <4>1 DEF MigrationsInv, HasGap, Closed
        <4>3. opener[p].next \in Versions
          BY <4>1, <4>2, MigrationsAssumption DEF UpTo, Versions
        <4> QED
          BY <2>1, <4>3 DEF Migrate
      <3> QED
        BY <3>1
    <2>2. CASE UNCHANGED schema
      BY <2>2
    <2> QED
      BY <2>1, <2>2 DEF MigrationsNext, ReadApplied, Opened, CloseDatabase, migrationVars
  <1>3. Inv => MigrationsTypeOK
    BY DEF MigrationsInv, OpenerType, MigrationsTypeOK
  <1> QED
    BY <1>1, <1>2, <1>3, PTL DEF MigrationsSpec

LEMMA StreamTypes == StreamSpec => []StreamTypeOK
  <1> DEFINE Flags == torn \in BOOLEAN /\ shellAlive \in BOOLEAN /\ sentOnClosed \in BOOLEAN
             Inv == StreamInv /\ Flags /\ queued \in 0..Backlog /\ output \in {"open", "closed"}
  <1>1. StreamInit => Inv
    <2> SUFFICES ASSUME StreamInit PROVE Flags /\ queued \in 0..Backlog /\ output \in {"open", "closed"}
      BY StreamInitially
    <2>1. Flags
      BY DEF StreamInit
    <2> QED
      BY <2>1, StreamAssumption DEF StreamInit
  <1>2. Inv /\ [StreamNext]_streamVars => Inv'
    <2> SUFFICES ASSUME Inv, [StreamNext]_streamVars
                 PROVE  Flags' /\ queued' \in 0..Backlog /\ output' \in {"open", "closed"}
      BY StreamInductive
    <2>1. Flags'
      BY DEF StreamNext, streamVars, StartReader, ReadMessage, ReadError, SendOutput, SeeDone,
             Consume, ShellExits, TearDown, CloseOutput
    <2>2. queued' \in 0..Backlog
      BY StreamAssumption
         DEF StreamNext, streamVars, StartReader, ReadMessage, ReadError, SendOutput, SeeDone,
             Consume, ShellExits, TearDown, CloseOutput
    <2>3. output' \in {"open", "closed"}
      BY DEF StreamNext, streamVars, StartReader, ReadMessage, ReadError, SendOutput, SeeDone,
             Consume, ShellExits, TearDown, CloseOutput
    <2> QED
      BY <2>1, <2>2, <2>3
  <1>3. Inv => StreamTypeOK
    <2>1. Flags => {torn, shellAlive, sentOnClosed} \subseteq BOOLEAN
      BY Zenon
    <2> QED
      BY <2>1 DEF StreamInv, StreamTypeOK
  <1> QED
    BY <1>1, <1>2, <1>3, PTL DEF StreamSpec

\* A download that is not complete lacks a chunk, and an attempt that begins
\* is not one too many.
TransferTyped ==
    /\ FilesInv /\ TargetsInv
    /\ interrupted \subseteq Pids /\ killed \subseteq Pids /\ frozen \subseteq Pids
    /\ conns \subseteq Pids /\ stopped \in BOOLEAN
CopyTyped ==
    files \subseteq [pid : Pids, kind : {"archive", "meta", "part"}]
ClockTyped == idleFor \in 0..Patience /\ silentFor \in 0..Stall
HaveTyped ==
    /\ have \in [Pids -> 0..Size]
    /\ \A p \in Pids :
          process[p] \in {"unborn", "meta", "fetch", "download", "wait"} => have[p] < Size
AttemptTyped ==
    /\ attempt \in [Pids -> 0..Attempts]
    /\ \A p \in Pids :
          process[p] \in {"unborn", "meta", "fetch", "wait"} => attempt[p] < Attempts

LEMMA CopyMoves ==
    ASSUME CopyTyped, [TransferNext]_transferVars
    PROVE  CopyTyped'
  <1>1. ASSUME files' \subseteq files PROVE CopyTyped'
    BY <1>1 DEF CopyTyped
  <1>2. ASSUME NEW p \in Pids, NEW kind \in {"archive", "meta", "part"},
               files' \subseteq files \cup {File(p, kind)}
        PROVE  CopyTyped'
    BY <1>2 DEF CopyTyped, File
  <1>3. ASSUME NEW p \in Pids, SendStarts(p) \/ SendStep(p)
        PROVE  CopyTyped'
    BY <1>1, <1>2, <1>3, SweptInFiles
       DEF SendStarts, SendStep, ExportEnds, ExportBreaks, Publishes, ServeTick, ServeInterrupted,
           ProcessReturns
  <1>4. ASSUME NEW p \in Pids, ReceiveStep(p)
        PROVE  CopyTyped'
    BY <1>1, <1>2, <1>4, SweptInFiles
       DEF ReceiveStep, MetaFetched, MetaFails, FetchConnects, ChunkArrives, FetchFails, FetchAgain,
           ChecksumHolds, ImportReturns, ProcessReturns
  <1>5. ASSUME NEW p \in Pids, NEW s \in Pids \ {p},
               ReceiveStarts(p, s) \/ FirstSignal(p) \/ KilledOutright(p) \/ ReceiverFreezes(p)
        PROVE  CopyTyped'
    BY <1>1, <1>5 DEF ReceiveStarts, FirstSignal, KilledOutright, ReceiverFreezes
  <1>6. ASSUME NEW p \in Pids, FirstSignal(p) \/ KilledOutright(p) \/ ReceiverFreezes(p)
        PROVE  CopyTyped'
    BY <1>1, <1>6 DEF FirstSignal, KilledOutright, ReceiverFreezes
  <1>7. CASE SourceChanges \/ UNCHANGED transferVars
    BY <1>1, <1>7 DEF SourceChanges, transferVars
  <1> QED
    BY <1>3, <1>4, <1>5, <1>6, <1>7 DEF TransferNext

LEMMA ClockMoves ==
    ASSUME ClockTyped, [TransferNext]_transferVars
    PROVE  ClockTyped'
  <1>0. 0 \in 0..Patience /\ 0 \in 0..Stall
    BY TransferAssumption
  <1>1. ASSUME idleFor' \in {idleFor, 0}, silentFor' \in {silentFor, 0} PROVE ClockTyped'
    BY <1>0, <1>1 DEF ClockTyped
  <1>2. ASSUME NEW p \in Pids, ServeTick(p)
        PROVE  ClockTyped'
    <2>1. CASE ProcessReturns(p)
      BY <1>1, <2>1 DEF ProcessReturns
    <2>2. ASSUME NEW open, IdleCount(open) < Patience, idleFor' = IdleCount(open),
                 silentFor' \in {0, Capped(silentFor + 1)}
          PROVE  ClockTyped'
      <3>1. idleFor' \in 0..Patience
        BY <2>2, TransferAssumption DEF IdleCount, ClockTyped
      <3>2. silentFor' \in 0..Stall
        BY <1>0, <2>2, TransferAssumption DEF Capped, ClockTyped
      <3> QED
        BY <3>1, <3>2 DEF ClockTyped
    <2>3. \A open : IdleCount(open) \in Nat
      BY TransferAssumption DEF IdleCount, ClockTyped
    <2> QED
      BY <1>2, <2>1, <2>2, <2>3, TransferAssumption DEF ServeTick
  <1>3. ASSUME NEW p \in Pids, SendStarts(p) \/ SendStep(p)
        PROVE  ClockTyped'
    BY <1>1, <1>2, <1>3
       DEF SendStarts, SendStep, ExportEnds, ExportBreaks, Publishes, ServeInterrupted, ProcessReturns
  <1>4. ASSUME NEW p \in Pids, ReceiveStep(p)
        PROVE  ClockTyped'
    BY <1>1, <1>4
       DEF ReceiveStep, MetaFetched, MetaFails, FetchConnects, ChunkArrives, FetchFails, FetchAgain,
           ChecksumHolds, ImportReturns, ProcessReturns
  <1>5. ASSUME NEW p \in Pids, NEW s \in Pids \ {p}, ReceiveStarts(p, s)
        PROVE  ClockTyped'
    BY <1>1, <1>5 DEF ReceiveStarts
  <1>6. ASSUME NEW p \in Pids, FirstSignal(p) \/ KilledOutright(p) \/ ReceiverFreezes(p)
        PROVE  ClockTyped'
    BY <1>1, <1>6 DEF FirstSignal, KilledOutright, ReceiverFreezes
  <1>7. CASE SourceChanges \/ UNCHANGED transferVars
    BY <1>1, <1>7 DEF SourceChanges, transferVars
  <1> QED
    BY <1>3, <1>4, <1>5, <1>6, <1>7 DEF TransferNext

\* A phase follows another; only fetching and what follows it may count.
LEMMA PhaseMoves ==
    ASSUME FilesInv, NEW p \in Pids, NEW phase, Phase(p, phase)
    PROVE  process'[p] = phase /\ \A q \in Pids : q # p => process'[q] = process[q]
  BY DEF Phase, FilesInv

LEMMA HaveMoves ==
    ASSUME FilesInv, HaveTyped, [TransferNext]_transferVars
    PROVE  HaveTyped'
  <1> DEFINE Begun == {"unborn", "meta", "fetch", "download", "wait"}
  <1>1. ASSUME NEW p \in Pids, UNCHANGED have,
               \A q \in Pids : q # p => process'[q] = process[q],
               process'[p] \in Begun => process[p] \in Begun
        PROVE  HaveTyped'
    BY <1>1 DEF HaveTyped
  <1>2. ASSUME NEW p \in Pids, ChunkArrives(p)
        PROVE  HaveTyped'
    <2>1. have[p] \in 0..Size /\ have[p] < Size /\ have' = [have EXCEPT ![p] = @ + 1]
      BY <1>2 DEF ChunkArrives, HaveTyped
    <2>2. have' \in [Pids -> 0..Size] /\ have'[p] = have[p] + 1
      BY <2>1, TransferAssumption DEF HaveTyped
    <2>3. CASE have[p] + 1 = Size
      <3>1. process'[p] = "verify" /\ \A q \in Pids : q # p => process'[q] = process[q]
        BY <1>2, <2>3, PhaseMoves DEF ChunkArrives
      <3> QED
        BY <2>1, <2>2, <3>1 DEF HaveTyped
    <2>4. CASE have[p] + 1 # Size
      <3>1. UNCHANGED process /\ have'[p] < Size
        BY <1>2, <2>1, <2>2, <2>4, TransferAssumption DEF ChunkArrives
      <3> QED
        BY <2>1, <2>2, <3>1 DEF HaveTyped
    <2> QED
      BY <2>3, <2>4
  <1>3. ASSUME NEW p \in Pids, SendStarts(p) \/ SendStep(p) \/ KilledOutright(p)
        PROVE  HaveTyped'
    <2>1. \/ UNCHANGED <<process, have>>
          \/ \E phase \in {"export", "publish", "serve", "gone"} : Phase(p, phase) /\ UNCHANGED have
      BY <1>3 DEF SendStarts, SendStep, ExportEnds, ExportBreaks, Publishes, ServeTick,
                  ServeInterrupted, ProcessReturns, KilledOutright
    <2> QED
      BY <1>1, <2>1, PhaseMoves DEF HaveTyped
  <1>4. ASSUME NEW p \in Pids, ReceiveStep(p), ~ChunkArrives(p)
        PROVE  HaveTyped'
    <2>1. /\ UNCHANGED have /\ process[p] \in ReceivePhases
          /\ \E phase \in ReceivePhases \cup {"gone"} :
                /\ Phase(p, phase)
                /\ phase \in Begun => process[p] \in Begun
      BY <1>4 DEF ReceiveStep, MetaFetched, MetaFails, FetchConnects, FetchFails, FetchAgain,
                  ChecksumHolds, ImportReturns, ProcessReturns, ReceivePhases
    <2> QED
      BY <1>1, <2>1, PhaseMoves
  <1>5. ASSUME NEW p \in Pids, NEW s \in Pids \ {p}, ReceiveStarts(p, s)
        PROVE  HaveTyped'
    BY <1>1, <1>5, PhaseMoves DEF ReceiveStarts
  <1>6. ASSUME NEW p \in Pids, FirstSignal(p) \/ ReceiverFreezes(p)
        PROVE  HaveTyped'
    BY <1>6 DEF FirstSignal, ReceiverFreezes, HaveTyped
  <1>7. CASE SourceChanges \/ UNCHANGED transferVars
    BY <1>7 DEF SourceChanges, transferVars, HaveTyped
  <1> QED
    BY <1>2, <1>3, <1>4, <1>5, <1>6, <1>7 DEF TransferNext

LEMMA AttemptMoves ==
    ASSUME FilesInv, AttemptTyped, [TransferNext]_transferVars
    PROVE  AttemptTyped'
  <1> DEFINE Before == {"unborn", "meta", "fetch", "wait"}
  <1>1. ASSUME NEW p \in Pids, UNCHANGED attempt,
               \A q \in Pids : q # p => process'[q] = process[q],
               process'[p] \in Before => attempt[p] < Attempts
        PROVE  AttemptTyped'
    BY <1>1 DEF AttemptTyped
  <1>2. ASSUME NEW p \in Pids, process[p] = "fetch", attempt' = [attempt EXCEPT ![p] = @ + 1],
               \A q \in Pids : q # p => process'[q] = process[q],
               process'[p] \in Before => attempt'[p] # Attempts
        PROVE  AttemptTyped'
    <2>1. attempt[p] \in 0..Attempts /\ attempt[p] < Attempts
      BY <1>2 DEF AttemptTyped
    <2>2. attempt' \in [Pids -> 0..Attempts] /\ attempt'[p] = attempt[p] + 1
      BY <1>2, <2>1, TransferAssumption DEF AttemptTyped
    <2>3. process'[p] \in Before => attempt'[p] < Attempts
      BY <1>2, <2>1, <2>2, TransferAssumption
    <2> QED
      BY <1>2, <2>2, <2>3 DEF AttemptTyped
  <1>3. ASSUME NEW p \in Pids, SendStarts(p) \/ SendStep(p) \/ KilledOutright(p)
        PROVE  AttemptTyped'
    <2>1. \/ UNCHANGED <<process, attempt>>
          \/ \E phase \in {"export", "publish", "serve", "gone"} : Phase(p, phase) /\ UNCHANGED attempt
      BY <1>3 DEF SendStarts, SendStep, ExportEnds, ExportBreaks, Publishes, ServeTick,
                  ServeInterrupted, ProcessReturns, KilledOutright
    <2> QED
      BY <1>1, <2>1, PhaseMoves DEF AttemptTyped
  <1>4. ASSUME NEW p \in Pids, FetchConnects(p)
        PROVE  AttemptTyped'
    <2>1. process'[p] = "download" /\ \A q \in Pids : q # p => process'[q] = process[q]
      BY <1>4, PhaseMoves DEF FetchConnects
    <2>2. process'[p] \notin Before
      BY <2>1
    <2> QED
      BY <1>2, <1>4, <2>1, <2>2 DEF FetchConnects
  <1>5. ASSUME NEW p \in Pids, FetchFails(p)
        PROVE  AttemptTyped'
    <2>1. /\ \A q \in Pids : q # p => process'[q] = process[q]
          /\ process'[p] = "gone" \/ (process'[p] = "wait" /\ attempt'[p] # Attempts)
      BY <1>5, PhaseMoves DEF FetchFails, Final
    <2>2. CASE process[p] = "fetch"
      BY <1>2, <1>5, <2>1, <2>2 DEF FetchFails
    <2>3. CASE process[p] = "download"
      <3>1. UNCHANGED attempt /\ attempt[p] \in 0..Attempts
        BY <1>5, <2>3 DEF FetchFails, AttemptTyped
      <3>2. process'[p] \in Before => attempt[p] < Attempts
        BY <2>1, <3>1, TransferAssumption
      <3> QED
        BY <1>1, <2>1, <3>1, <3>2
    <2> QED
      BY <1>5, <2>2, <2>3 DEF FetchFails
  <1>6. ASSUME NEW p \in Pids, MetaFetched(p) \/ MetaFails(p) \/ ChunkArrives(p) \/ FetchAgain(p)
                               \/ ChecksumHolds(p) \/ ImportReturns(p)
        PROVE  AttemptTyped'
    <2>1. /\ UNCHANGED attempt
          /\ \/ UNCHANGED process
             \/ \E phase \in {"verify", "import", "gone"} : Phase(p, phase)
             \/ process[p] \in {"meta", "wait"} /\ Phase(p, "fetch")
      BY <1>6 DEF MetaFetched, MetaFails, ChunkArrives, FetchAgain, ChecksumHolds, ImportReturns,
                  ProcessReturns
    <2> QED
      BY <1>1, <2>1, PhaseMoves DEF AttemptTyped
  <1>7. ASSUME NEW p \in Pids, NEW s \in Pids \ {p}, ReceiveStarts(p, s)
        PROVE  AttemptTyped'
    BY <1>1, <1>7, PhaseMoves DEF ReceiveStarts, AttemptTyped
  <1>8. ASSUME NEW p \in Pids, FirstSignal(p) \/ ReceiverFreezes(p)
        PROVE  AttemptTyped'
    BY <1>8 DEF FirstSignal, ReceiverFreezes, AttemptTyped
  <1>9. CASE SourceChanges \/ UNCHANGED transferVars
    BY <1>9 DEF SourceChanges, transferVars, AttemptTyped
  <1> QED
    BY <1>3, <1>4, <1>5, <1>6, <1>7, <1>8, <1>9 DEF TransferNext, ReceiveStep

LEMMA TransferSetsMove ==
    ASSUME TransferTyped, TransferNext
    PROVE  /\ interrupted' \subseteq Pids /\ killed' \subseteq Pids /\ frozen' \subseteq Pids
           /\ conns' \subseteq Pids /\ stopped' \in BOOLEAN
  <1> USE DEF TransferTyped
  <1>1. ASSUME NEW p \in Pids, SendStarts(p) \/ SendStep(p)
        PROVE  /\ conns' \subseteq conns
               /\ UNCHANGED <<interrupted, killed, frozen, stopped>>
    BY <1>1 DEF SendStarts, SendStep, ExportEnds, ExportBreaks, Publishes, ServeTick,
                ServeInterrupted, ProcessReturns
  <1>2. ASSUME NEW p \in Pids, ReceiveStep(p)
        PROVE  /\ conns' \subseteq conns \cup {p}
               /\ UNCHANGED <<interrupted, killed, frozen, stopped>>
    BY <1>2 DEF ReceiveStep, MetaFetched, MetaFails, FetchConnects, ChunkArrives, FetchFails,
                FetchAgain, ChecksumHolds, ImportReturns, ProcessReturns
  <1>3. ASSUME NEW p \in Pids, FirstSignal(p) \/ KilledOutright(p) \/ ReceiverFreezes(p)
        PROVE  /\ conns' \subseteq conns /\ interrupted' \subseteq interrupted \cup {p}
               /\ killed' \subseteq killed \cup {p} /\ frozen' \subseteq frozen \cup {p}
               /\ UNCHANGED stopped
    BY <1>3 DEF FirstSignal, KilledOutright, ReceiverFreezes
  <1>4. ASSUME NEW p \in Pids, NEW s \in Pids \ {p}, ReceiveStarts(p, s)
        PROVE  UNCHANGED <<conns, interrupted, killed, frozen, stopped>>
    BY <1>4 DEF ReceiveStarts
  <1>5. CASE SourceChanges
    BY <1>5 DEF SourceChanges
  <1> QED
    BY <1>1, <1>2, <1>3, <1>4, <1>5 DEF TransferNext

LEMMA TransferTypes == TransferSpec => []TransferTypeOK
  <1> DEFINE Inv == TransferTyped /\ CopyTyped /\ ClockTyped /\ HaveTyped /\ AttemptTyped
  <1>1. TransferInit => Inv
    <2> SUFFICES ASSUME TransferInit PROVE Inv
      OBVIOUS
    <2>1. TargetsInv /\ FilesInv
      BY PhasesApart, FilesInitially DEF TransferInit, TargetsInv
    <2>2. TransferTyped /\ CopyTyped
      BY <2>1 DEF TransferInit, TransferTyped, CopyTyped
    <2>3. ClockTyped /\ HaveTyped /\ AttemptTyped
      BY TransferAssumption DEF TransferInit, ClockTyped, HaveTyped, AttemptTyped
    <2> QED
      BY <2>2, <2>3
  <1>2. Inv /\ [TransferNext]_transferVars => Inv'
    <2> SUFFICES ASSUME Inv, [TransferNext]_transferVars PROVE Inv'
      OBVIOUS
    <2>1. CopyTyped' /\ ClockTyped' /\ HaveTyped' /\ AttemptTyped'
      BY CopyMoves, ClockMoves, HaveMoves, AttemptMoves DEF TransferTyped
    <2>2. CASE TransferNext
      BY <2>1, <2>2, FilesStep, TransferSetsMove DEF TransferTyped
    <2>3. CASE UNCHANGED transferVars
      BY <2>1, <2>3, FilesUntouched DEF TransferTyped, TargetsInv, transferVars
    <2> QED
      BY <2>2, <2>3
  <1>3. Inv => TransferTypeOK
    BY DEF TransferTyped, CopyTyped, ClockTyped, HaveTyped, AttemptTyped, FilesInv, TargetsInv,
           TransferTypeOK
  <1> QED
    BY <1>1, <1>2, <1>3, PTL DEF TransferSpec

-----------------------------------------------------------------------------
(***************************************************************************)
(* The host                                                                *)
(***************************************************************************)

\* No account has more shells than its share, none runs unaccounted for, and no
\* read loop sends on a channel that was closed (Terminal, PtyStream).
THEOREM TerminalIsSafe == HostSpec => []TerminalSafe
  <1>1. TerminalTypeOK /\ ShellsAccounted /\ NoSendOnClosed => TerminalSafe
    BY DEF TerminalSafe
  <1> QED
    BY <1>1, HostHasParts, ShellsAreAccounted, OutputNeverReopened, PTL

LEMMA QuotaTypes == CpuSpec => []CpuTypeOK
  <1>1. CpuTyped => CpuTypeOK
    BY DEF CpuTyped
  <1>2. CpuTyped /\ [CpuNext]_cpuVars => CpuTyped'
    BY CpuTypedKept
  <1> QED
    BY <1>1, <1>2, CpuTypedInitially, PTL DEF CpuSpec

LEMMA ImportTypes == ImportSpec => []ImportTypeOK
  <1>1. ImportInv => ImportTypeOK
    BY DEF ImportInv
  <1> QED
    BY <1>1, ImportInductive, PTL

\* Type correctness of the whole host, for any number of accounts, processes,
\* requests, blocks and versions, whatever fails.
THEOREM HostTypes == HostSpec => []TypesOK
  <1>1. /\ ThrottleTypeOK /\ CpuTypeOK /\ PowerTypeOK /\ SnapTypeOK /\ NdpTypeOK /\ BlocksTypeOK
        /\ PoolTypeOK /\ SessionsTypeOK /\ AdminTypeOK /\ MigrationsTypeOK /\ TerminalTypeOK
        /\ StreamTypeOK /\ BatchTypeOK /\ TransferTypeOK /\ ImportTypeOK
        => TypesOK
    BY DEF TypesOK
  <1>2. HostSpec => []ThrottleTypeOK /\ []CpuTypeOK /\ []PowerTypeOK /\ []SnapTypeOK
    BY HostHasParts, ThrottleTypes, QuotaTypes, PowerTyped, SnapshotsAreSafe, PTL
  <1>3. HostSpec => []NdpTypeOK /\ []BlocksTypeOK /\ []PoolTypeOK
    BY HostHasParts, NdpTypes, BlocksAreSafe, PoolKeepsTypes, PTL
  <1>4. HostSpec => []SessionsTypeOK /\ []AdminTypeOK /\ []MigrationsTypeOK
    BY HostHasParts, SessionsAreSafe, AdminTypes, MigrationsTypes, PTL
  <1>5. HostSpec => []TerminalTypeOK /\ []StreamTypeOK /\ []BatchTypeOK
    BY HostHasParts, ShellsAreAccounted, StreamTypes, BatchIsHonest, PTL
  <1>6. HostSpec => []TransferTypeOK /\ []ImportTypeOK
    BY HostHasParts, TransferTypes, ImportTypes, PTL
  <1> QED
    BY <1>1, <1>2, <1>3, <1>4, <1>5, <1>6, PTL

\* What the host promises whatever fails, in one sentence; the promises that
\* need more (CapRecorded, PoolSafe) are stated by the theorems of their components.
THEOREM HostIsSafe ==
    HostSpec => [](/\ ThrottleSafe /\ QuotaAgrees /\ ExpiredStaysDown /\ SnapshotsSafe
                   /\ WakeNotLost /\ BlocksSafe
                   /\ SessionsSafe /\ AdminCapped /\ MigrationsSafe /\ TerminalSafe /\ BatchHonest
                   /\ FilesAccounted /\ ImportSafe)
  <1>1. HostSpec => []ThrottleSafe /\ []QuotaAgrees /\ []ExpiredStaysDown /\ []SnapshotsSafe
    BY HostHasParts, ThrottleIsSafe, QuotasAgree, ExpiredAccountsStayDown, SnapshotsAreSafe, PTL
  <1>2. HostSpec => []WakeNotLost /\ []BlocksSafe
    BY HostHasParts, QueueIsDrained, BlocksAreSafe, PTL
  <1>3. HostSpec => []SessionsSafe /\ []AdminCapped /\ []MigrationsSafe /\ []BatchHonest
    BY HostHasParts, SessionsAreSafe, AdminSessionsCapped, MigrationsAreSafe, BatchIsHonest, PTL
  <1>4. HostSpec => []FilesAccounted /\ []ImportSafe
    BY HostHasParts, CopiesAccounted, ImportIsSafe, PTL
  <1> QED
    BY <1>1, <1>2, <1>3, <1>4, TerminalIsSafe, PTL

=============================================================================
