------------------------------ MODULE BatchJob ------------------------------
(***************************************************************************)
(* Batch creation of accounts from a share (internal/admin/job.go,         *)
(* internal/mgr/batchcreate.go): a request checks the whole list, takes    *)
(* the one slot and leaves a goroutine that creates the accounts one by    *)
(* one and reports into an in-memory job, which the page polls and which   *)
(* is the only place that holds the one-time passwords.                    *)
(***************************************************************************)
EXTENDS Host

CONSTANTS
    Forms,      \* the admin requests that may submit a batch
    Entrants,   \* the account names
    JobIds      \* the job ids handed out; bounds the batches started

ASSUME BatchAssumption ==
    /\ IsFiniteSet(Entrants)
    /\ None \notin JobIds \cup Entrants \cup {"fresh", "inherited", "failed"}
    /\ \A names \in SUBSET Entrants : None # names

VARIABLES
    form,       \* Forms -> the validated list of a request, None before
    jobs,       \* batchJobs.jobs: a function on the ids of the jobs kept
    running,    \* batchJobs.running, None when the slot is free
    batch,      \* the AddBatch goroutine, None when there is none
    sharePinned,\* whether the share code still resolves
    made        \* history: what the Add of a job made of a name: "no" account,
                \* one with a "fresh" password or one "inherited" from its group,
                \* or a "leftover" of an Add that failed but kept the row

batchVars == <<form, jobs, running, batch, sharePinned, made>>

Item(state, password) == [state |-> state, password |-> password]
Job(names) == [items |-> [n \in names |-> Item("pending", FALSE)],
               done |-> 0, finished |-> FALSE, old |-> FALSE]

BatchInit ==
    /\ form = [f \in Forms |-> None]
    /\ jobs = [j \in {} |-> Job({})]
    /\ running = None /\ batch = None
    /\ sharePinned = TRUE
    /\ made = [j \in JobIds |-> [n \in Entrants |-> "no"]]

-----------------------------------------------------------------------------
\* pruneLocked keeps a running batch, however old it is.
PruneAll(registry) == {j \in DOMAIN registry : ~registry[j].old}    \* mutant
Pruned(registry) == {j \in DOMAIN registry : registry[j].old => j = running}

\* newJobID is random: it repeats no id that anything still refers to.
FreshIds == {j \in JobIds \ DOMAIN jobs : \A n \in Entrants : made[j][n] = "no"}

KeepJobs(ids) == [j \in ids |-> jobs[j]]

\* ValidateBatchNames, then ResolveShare: nothing is reserved by either, and other
\* accounts come and go at any time.
ValidateBatch(f, names) ==
    /\ form[f] = None /\ sharePinned
    /\ form' = [form EXCEPT ![f] = names]
    /\ UNCHANGED <<jobs, running, batch, sharePinned, made>>

\* batches.start prunes first, also when it then refuses.
StartBatch(f) ==
    /\ form[f] # None
    /\ LET kept == Pruned(jobs) IN
        IF running = None
        THEN \E j \in FreshIds :
                /\ jobs' = [i \in kept \cup {j} |->
                                IF i = j THEN Job(form[f]) ELSE jobs[i]]
                /\ running' = j
                /\ batch' = [job |-> j, todo |-> form[f], name |-> None, result |-> None]
        ELSE /\ jobs' = KeepJobs(kept)
             /\ UNCHANGED <<running, batch>>
    /\ form' = [form EXCEPT ![f] = None]
    /\ UNCHANGED <<sharePinned, made>>

CountsDone(state) == state = "done"                                \* mutant
IsSettled(state) == state \in {"done", "failed"}

\* batchJobs.update: a report about a job that is no longer kept is dropped.
Reported(j, n, state, password) ==
    IF j \notin DOMAIN jobs THEN jobs
    ELSE [jobs EXCEPT ![j].items[n] = Item(state, @.password \/ password),
                      ![j].done = IF IsSettled(state) THEN @ + 1 ELSE @]

\* AddBatch announces the next name...
NextEntry ==
    /\ batch # None /\ batch.name = None
    /\ \E n \in batch.todo :
        /\ batch' = [batch EXCEPT !.name = n, !.todo = @ \ {n}]
        /\ jobs' = Reported(batch.job, n, "running", FALSE)
    /\ UNCHANGED <<form, running, sharePinned, made>>

\* ...calls Add, which fails for reasons of its own, as when the name was taken
\* since the list was checked: without a row, or with one that it keeps (the ready
\* status cannot be written, or cleanup has left something behind)...
CreateEntry ==
    LET Make(how, result) ==
            /\ made' = [made EXCEPT ![batch.job][batch.name] = how]
            /\ batch' = [batch EXCEPT !.result = result]
    IN
    /\ batch # None /\ batch.name # None /\ batch.result = None
    /\ \/ sharePinned /\ \E how \in {"fresh", "inherited"} : Make(how, how)
       \/ sharePinned /\ CanFail("status") /\ Make("leftover", "failed")
       \/ /\ ~sharePinned \/ CanFail("launch")
          /\ batch' = [batch EXCEPT !.result = "failed"]
          /\ UNCHANGED made
    /\ UNCHANGED <<form, jobs, running, sharePinned>>

\* ...and reports the outcome, with the panel password unless it was inherited; a
\* failed key grant is a warning on a done item.
ReportEntry ==
    LET state == IF batch.result = "failed" THEN "failed" ELSE "done" IN
    /\ batch # None /\ batch.result # None
    /\ jobs' = Reported(batch.job, batch.name, state, batch.result = "fresh")
    /\ batch' = [batch EXCEPT !.name = None, !.result = None]
    /\ UNCHANGED <<form, running, sharePinned, made>>

\* finish releases the slot only through a job that is still kept.
FinishBatch ==
    /\ batch # None /\ batch.name = None /\ batch.todo = {}
    /\ batch' = None
    /\ IF batch.job \in DOMAIN jobs
       THEN /\ jobs' = [jobs EXCEPT ![batch.job].finished = TRUE]
            /\ running' = IF running = batch.job THEN None ELSE running
       ELSE UNCHANGED <<jobs, running>>
    /\ UNCHANGED <<form, sharePinned, made>>

-----------------------------------------------------------------------------
\* More than batchJobTTL has passed since the job's createdAt.
JobAges(j) ==
    /\ j \in DOMAIN jobs /\ ~jobs[j].old
    /\ jobs' = [jobs EXCEPT ![j].old = TRUE]
    /\ UNCHANGED <<form, running, batch, sharePinned, made>>

\* The donor withdraws the share code.
ShareWithdrawn ==
    /\ sharePinned /\ sharePinned' = FALSE
    /\ UNCHANGED <<form, jobs, running, batch, made>>

\* A restart of the panel loses the jobs; the accounts stay.
BatchPanelRestart ==
    /\ CanFail("panel") /\ (DOMAIN jobs # {} \/ \E f \in Forms : form[f] # None)
    /\ form' = [f \in Forms |-> None]
    /\ jobs' = KeepJobs({})
    /\ running' = None /\ batch' = None
    /\ UNCHANGED <<sharePinned, made>>

BatchStep == NextEntry \/ CreateEntry \/ ReportEntry \/ FinishBatch

BatchNext ==
    \/ BatchStep
    \/ \E f \in Forms, names \in SUBSET Entrants \ {{}} : ValidateBatch(f, names)
    \/ \E f \in Forms : StartBatch(f)
    \/ \E j \in JobIds : JobAges(j)
    \/ ShareWithdrawn
    \/ BatchPanelRestart

\* The goroutine runs on: every call it makes returns.
BatchFairness == WF_batchVars(BatchStep)

BatchSpec == BatchInit /\ [][BatchNext]_batchVars

-----------------------------------------------------------------------------
Items(names) == [names -> [state : {"pending", "running", "done", "failed"}, password : BOOLEAN]]
JobStates == [items : UNION {Items(names) : names \in SUBSET Entrants}, done : Nat,
              finished : BOOLEAN, old : BOOLEAN]

BatchStates == [job : JobIds, todo : SUBSET Entrants, name : Entrants \cup {None},
                result : {None, "fresh", "inherited", "failed"}]

ASSUME NoBatchAssumption == None \notin BatchStates

\* Type invariant: the forms, the job registry, its slot, the goroutine and
\* the accounts have their types.
BatchTypeOK ==
    /\ form \in [Forms -> {None} \cup SUBSET Entrants]
    /\ DOMAIN jobs \subseteq JobIds /\ jobs \in [DOMAIN jobs -> JobStates]
    /\ running \in JobIds \cup {None}
    /\ batch \in BatchStates \cup {None}
    /\ made \in [JobIds -> [Entrants -> {"no", "fresh", "inherited", "leftover"}]]
    /\ sharePinned \in BOOLEAN

Reporting(j, n) == batch # None /\ batch.job = j /\ batch.name = n

Tells(item, how) ==
    /\ item.state = "done" <=> how \in {"fresh", "inherited"}
    /\ item.password <=> how = "fresh"
    /\ how = "leftover" => item.state = "failed"

\* The job tells the truth: while it is kept, an account that the batch's Add has
\* made is shown as done and no other is, the item holds a password exactly if the
\* account was given one of its own, what a failed Add has left behind is shown as
\* failed, the counter is the number of settled items, a finished job has none
\* unsettled, and the goroutine always has the job that holds the slot to report
\* to (job.go:55-114, BatchResult).
BatchHonest ==
    /\ \A j \in DOMAIN jobs :
        LET items == jobs[j].items IN
        /\ \A n \in DOMAIN items : ~Reporting(j, n) => Tells(items[n], made[j][n])
        /\ jobs[j].done = Cardinality({n \in DOMAIN items : IsSettled(items[n].state)})
        /\ jobs[j].finished => jobs[j].done = Cardinality(DOMAIN items)
    /\ batch # None => batch.job \in DOMAIN jobs /\ batch.job = running

\* The slot is given back: however often a second batch is tried, and however
\* many creates fail, no batch keeps the slot for ever (job.go:96-107).
BatchSlotFreed == running # None ~> running = None

=============================================================================
