------------------------------ MODULE CpuQuota ------------------------------
(***************************************************************************)
(* The dynamic CPU limit (mgr/cpu_limit.go) and the quota edits            *)
(* (Manager.UpdateQuotas) for one account: both write the container's CPU, *)
(* and no lock is common to them.                                          *)
(*                                                                         *)
(*   quota   users.cpu and users.mem_mb; None when the account is gone     *)
(*   live    limits.cpu and limits.memory of the container; None: no       *)
(*           container                                                     *)
(*   ruleOn  the rule of the settings table: enabled and valid             *)
(*   capped  the account's entry of the persisted active limits: None or   *)
(*           whether it has expired                                        *)
(*   enforce, edit   what each enforcing process and each quota form holds *)
(*   relaunch   the row a Reinstall has read and will launch with          *)
(*   incident   history: two of them were under way at once ("overlap"); a *)
(*              best-effort undo failed, or nobody was left to do it, and   *)
(*              a cap stayed without a record ("lost_cap") or an edit half  *)
(*              done ("half_done")                                         *)
(*                                                                         *)
(* Memory stands for memory and disk, which follow the same path.          *)
(***************************************************************************)
EXTENDS Host

CONSTANTS
    Enforcers,   \* processes that run EnforceCPULimits: the panel, vps install
    Editors,     \* quota forms and `vps quota` calls
    CpuValues, MemValues, \* quotas an account may have
    Cap          \* CoresX10 of the rule

ASSUME CpuAssumption ==
    /\ CpuValues \subseteq Nat /\ Cap \in Nat \ CpuValues
    /\ MemValues \subseteq Nat /\ None \notin Nat \cup BOOLEAN

VARIABLES quota, live, ruleOn, capped, enforce, edit, relaunch, incident

cpuVars == <<quota, live, ruleOn, capped, enforce, edit, relaunch, incident>>

Rows == [cpu: CpuValues, mem: MemValues]
Limits == [cpu: CpuValues \cup {Cap}, mem: MemValues]
Asked == [cpu: CpuValues \cup {None}, mem: MemValues \cup {None}] \ {[cpu |-> None, mem |-> None]}

ASSUME AbsentAssumption == None \notin Limits \cup Asked

NoEnforce == [at |-> "idle", on |-> FALSE, capped |-> None, row |-> None, changed |-> FALSE,
              applied |-> FALSE]

Dead == [NoEnforce EXCEPT !.at = "dead"]
Between(e) == enforce[e] \in {NoEnforce, Dead}

NoEdit == [at |-> "idle", row |-> None, ask |-> None]

CpuInit ==
    /\ quota \in Rows /\ live = [cpu |-> quota.cpu, mem |-> quota.mem]
    /\ ruleOn = FALSE /\ capped = None
    /\ enforce = [e \in Enforcers |-> NoEnforce]
    /\ edit = [e \in Editors |-> NoEdit]
    /\ relaunch = None /\ incident = {}

Busy == (\E e \in Enforcers : ~Between(e)) \/ (\E e \in Editors : edit[e] # NoEdit)
        \/ relaunch # None

Happened(what) == incident' = incident \cup {what}
BeginPass == incident' = IF Busy THEN incident \cup {"overlap"} ELSE incident

\* lx.SetCPU, a PATCH; it fails when there is no container.
SetCPU(c) == live # None /\ live' = [live EXCEPT !.cpu = c]
SetMem(m) == live # None /\ live' = [live EXCEPT !.mem = m]
CallFails == (live = None \/ CanFail("incus")) /\ UNCHANGED live

-----------------------------------------------------------------------------
(* The clock, the rule and the account *)

\* Until passes; it is compared with the clock at the start of a pass.
Elapse == capped = FALSE /\ capped' = TRUE
          /\ UNCHANGED <<quota, live, ruleOn, enforce, edit, relaunch, incident>>

SetCPULimitRule == ruleOn' = ~ruleOn
                   /\ UNCHANGED <<quota, live, capped, enforce, edit, relaunch, incident>>

DropUser ==
    /\ quota # None /\ relaunch = None
    /\ quota' = None /\ live' = None
    /\ UNCHANGED <<ruleOn, capped, enforce, edit, relaunch, incident>>

\* Reinstall reads the row, deletes the container and launches with what it read.
RelaunchRead ==
    /\ relaunch = None /\ quota # None /\ BeginPass
    /\ relaunch' = quota
    /\ UNCHANGED <<quota, live, ruleOn, capped, enforce, edit>>

Relaunch ==
    /\ relaunch # None /\ relaunch' = None
    /\ \/ live' = [cpu |-> relaunch.cpu, mem |-> relaunch.mem]
       \/ CanFail("relaunch") /\ live' = None
    /\ UNCHANGED <<quota, ruleOn, capped, enforce, edit, incident>>

-----------------------------------------------------------------------------
(* EnforceCPULimits, under the mutex of its process *)

UNC == UNCHANGED <<quota, ruleOn, edit, relaunch>>

EnforceRead(e) ==
    /\ enforce[e].at = "idle" /\ BeginPass
    /\ enforce' = [enforce EXCEPT ![e] = [NoEnforce EXCEPT !.at = "restore", !.on = ruleOn,
                                             !.capped = capped, !.row = quota]]
    /\ UNCHANGED <<live, capped>> /\ UNC

\* Limits of deleted accounts are forgotten, expired ones and those of a rule
\* that is off are lifted; a failure leaves the record for the next pass.
LiftsExpired(p) == p.capped # None /\ p.row # None /\ p.capped     \* mutant
Lifted(p) == p.capped # None /\ p.row # None /\ (~p.on \/ p.capped)
RestoreQuota(e) ==
    LET p == enforce[e]
        Next_(q) == enforce' = [enforce EXCEPT ![e] = [q EXCEPT !.at = "apply"]]
        Forget == [p EXCEPT !.capped = None, !.changed = TRUE]
    IN
    /\ p.at = "restore"
    /\ \/ Lifted(p) /\ SetCPU(p.row.cpu) /\ Next_(Forget)
       \/ Lifted(p) /\ CallFails /\ Next_(p)
       \/ p.capped # None /\ p.row = None /\ Next_(Forget) /\ UNCHANGED live
       \/ ~Lifted(p) /\ (p.capped = None \/ p.row # None) /\ Next_(p) /\ UNCHANGED live
    /\ UNCHANGED <<capped, incident>> /\ UNC

\* A cap at or above the quota would raise it.
RaisesQuota(p) == p.row.cpu <= Cap

\* What is left to do: write the limits, and the caps to lift should that fail.
ToSave(q) ==
    [NoEnforce EXCEPT !.at = "save", !.capped = q.capped, !.applied = q.applied,
                      !.row = IF q.applied THEN q.row ELSE None]

\* cpuOverStreak of the stored samples may say anything.
ApplyCap(e) == \E over \in BOOLEAN :
    LET p == enforce[e]
        wanted == over /\ p.on /\ p.capped = None /\ p.row # None /\ ~RaisesQuota(p)
        Next_(q) == enforce' = [enforce EXCEPT ![e] = IF q.changed THEN ToSave(q) ELSE NoEnforce]
    IN
    /\ p.at = "apply"
    /\ \/ wanted /\ SetCPU(Cap)
          /\ Next_([p EXCEPT !.capped = FALSE, !.changed = TRUE, !.applied = TRUE])
       \/ wanted /\ CallFails /\ Next_(p)
       \/ ~wanted /\ Next_(p) /\ UNCHANGED live
    /\ UNCHANGED <<capped, incident>> /\ UNC

Save(e) ==
    /\ enforce[e].at = "save"
    /\ \/ capped' = enforce[e].capped
          /\ enforce' = [enforce EXCEPT ![e] = NoEnforce]
       \/ CanFail("save") /\ UNCHANGED capped
          /\ enforce' = [enforce EXCEPT ![e].at = "rollback"]
    /\ UNCHANGED <<live, incident>> /\ UNC

\* rollbackCaps lifts what could not be recorded, best effort.
RollbackCap(p) == IF p.applied THEN SetCPU(p.row.cpu) ELSE UNCHANGED live
RollbackCaps(e) ==
    LET p == enforce[e] IN
    /\ p.at = "rollback"
    /\ \/ RollbackCap(p) /\ UNCHANGED incident
       \/ p.applied /\ live = None /\ UNCHANGED <<live, incident>>
       \/ p.applied /\ CanFail("rollback") /\ UNCHANGED live /\ Happened("lost_cap")
    /\ enforce' = [enforce EXCEPT ![e] = NoEnforce]
    /\ UNCHANGED capped /\ UNC

\* The process dies in the middle of a pass and is started again.
EnforceCrash(e) ==
    /\ CanFail("enforcer") /\ ~Between(e)
    /\ enforce' = [enforce EXCEPT ![e] = Dead]
    /\ IF enforce[e].applied /\ enforce[e].at \in {"save", "rollback"}
       THEN Happened("lost_cap") ELSE UNCHANGED incident
    /\ UNCHANGED <<live, capped>> /\ UNC

EnforceRestart(e) ==
    /\ enforce[e] = Dead
    /\ enforce' = [enforce EXCEPT ![e] = NoEnforce]
    /\ UNCHANGED <<live, capped, incident>> /\ UNC

Enforce(e) ==
    \/ EnforceRead(e) \/ EnforceRestart(e) \/ RestoreQuota(e) \/ ApplyCap(e) \/ Save(e)
    \/ RollbackCaps(e)

-----------------------------------------------------------------------------
(* UpdateQuotas *)

UNE == UNCHANGED <<ruleOn, capped, enforce, relaunch>>
EditAt(e, step) ==
    edit' = [edit EXCEPT ![e] = IF step = "idle" THEN NoEdit ELSE [@ EXCEPT !.at = step]]

\* The step of a form after this one.
After(ask, step) ==
    IF step = "start" /\ ask.cpu # None THEN "cpu"
    ELSE IF step \in {"start", "cpu"} /\ ask.mem # None THEN "mem" ELSE "row"

\* Where the undo list starts after a failure.
UndoNothing(ask, step) == "idle"                             \* mutant
Undone(ask, step) ==
    IF step = "row" /\ ask.mem # None THEN "undo_mem"
    ELSE IF step \in {"row", "mem"} /\ ask.cpu # None THEN "undo_cpu" ELSE "idle"

EditRead(e) ==
    /\ edit[e] = NoEdit /\ quota # None /\ BeginPass
    /\ \E ask \in Asked :
          edit' = [edit EXCEPT ![e] = [at |-> After(ask, "start"), row |-> quota, ask |-> ask]]
    /\ UNCHANGED <<quota, live>> /\ UNE

EditCall(e, step) ==
    LET d == edit[e] IN
    /\ d.at = step
    /\ \/ /\ IF step = "cpu" THEN SetCPU(d.ask.cpu) ELSE SetMem(d.ask.mem)
          /\ EditAt(e, After(d.ask, step))
       \/ CallFails /\ EditAt(e, Undone(d.ask, step))
    /\ UNCHANGED <<quota, incident>> /\ UNE

\* UPDATE users SET cpu, mem_mb, disk_gb: what was asked, else what was read.
AsAsked(asked, read) == asked                                      \* mutant
Chosen(asked, read) == IF asked = None THEN read ELSE asked
EditRow(e) ==
    LET d == edit[e] IN
    /\ d.at = "row"
    /\ \/ /\ quota' = IF quota = None THEN None
                      ELSE [quota EXCEPT !.cpu = Chosen(d.ask.cpu, d.row.cpu),
                                         !.mem = Chosen(d.ask.mem, d.row.mem)]
          /\ edit' = [edit EXCEPT ![e] = NoEdit]
       \/ CanFail("row") /\ EditAt(e, Undone(d.ask, "row")) /\ UNCHANGED quota
    /\ UNCHANGED <<live, incident>> /\ UNE

EditUndo(e) ==
    LET d == edit[e]
        back(set) == \/ set /\ UNCHANGED incident
                     \/ live = None /\ UNCHANGED <<live, incident>>
                     \/ CanFail("rollback") /\ UNCHANGED live /\ Happened("half_done")
    IN
    /\ \/ /\ d.at = "undo_mem" /\ back(SetMem(d.row.mem))
          /\ EditAt(e, IF d.ask.cpu # None THEN "undo_cpu" ELSE "idle")
       \/ /\ d.at = "undo_cpu" /\ back(SetCPU(d.row.cpu))
          /\ EditAt(e, "idle")
    /\ UNCHANGED quota /\ UNE

Edit(e) == EditRead(e) \/ EditCall(e, "cpu") \/ EditCall(e, "mem") \/ EditRow(e) \/ EditUndo(e)

CpuNext ==
    \/ Elapse \/ SetCPULimitRule \/ DropUser \/ RelaunchRead \/ Relaunch
    \/ \E e \in Enforcers : Enforce(e) \/ EnforceCrash(e)
    \/ \E e \in Editors : Edit(e)

CpuSpec == CpuInit /\ [][CpuNext]_cpuVars

\* The sampler's ticker never stops, no call waits for ever and none fails for
\* ever; the panel does not die for ever.
CpuFairness ==
    /\ <>[][\A e \in Enforcers : ~EnforceCrash(e)]_cpuVars
    /\ \A e \in Enforcers :
          WF_cpuVars(Enforce(e)) /\ SF_cpuVars(RestoreQuota(e) /\ enforce'[e].capped = None)
          /\ SF_cpuVars(Save(e) /\ enforce'[e] = NoEnforce)
    /\ WF_cpuVars(Relaunch)

-----------------------------------------------------------------------------
(* Properties *)

EnforceStates ==
    [at: {"idle", "restore", "apply", "save", "rollback", "dead"}, on: BOOLEAN,
     capped: BOOLEAN \cup {None}, row: Rows \cup {None}, changed: BOOLEAN, applied: BOOLEAN]

EditStates ==
    [at: {"idle", "cpu", "mem", "row", "undo_mem", "undo_cpu"}, row: Rows \cup {None},
     ask: Asked \cup {None}]

CpuTypeOK ==
    /\ quota \in Rows \cup {None}
    /\ live \in Limits \cup {None}
    /\ ruleOn \in BOOLEAN /\ incident \subseteq {"overlap", "lost_cap", "half_done"}
    /\ capped \in BOOLEAN \cup {None}
    /\ enforce \in [Enforcers -> EnforceStates] /\ edit \in [Editors -> EditStates]
    /\ relaunch \in Rows \cup {None}

\* "a cap without one [a row] is never expired" (rollbackCaps): between passes
\* no container is capped without a record, whatever edits, reinstalls and
\* failed writes did meanwhile, but for a rollback that fails too or a process
\* that dies before it.
CapRecorded ==
    "lost_cap" \notin incident =>
        ((\A e \in Enforcers : Between(e)) /\ live # None /\ live.cpu = Cap
            => capped # None)

\* Once the rule is off for good, every cap is lifted, and a deleted account is
\* forgotten (EnforceCPULimits' first loop).
CapEnds ==
    /\ <>[](~ruleOn) /\ [](incident \subseteq {"overlap"}) => <>[](live # None => live.cpu # Cap)
    /\ <>[](quota = None) => <>[](capped = None)

\* When no two of them overlap, edits, failed edits and the limit leave the
\* container and the row in agreement ("the live config and the database cannot
\* disagree"), the cap being the only difference and never above the quota.
QuotaAgrees ==
    incident = {} /\ ~Busy /\ live # None =>
        /\ live.mem = quota.mem
        /\ live.cpu = quota.cpu \/ (live.cpu = Cap /\ capped # None /\ Cap < quota.cpu)

\* What the limit and the edits promise of the container's CPU.
CpuSafe == CapRecorded /\ QuotaAgrees

=============================================================================
