------------------------------- MODULE MCHost -------------------------------
(***************************************************************************)
(* The components around the account lifecycle, for model checking.  They  *)
(* share no state, so a behaviour lets one of them act, the one chosen in  *)
(* `part`, and the states of a run are the sum of theirs, not the product. *)
(***************************************************************************)
EXTENDS Throttle, CpuQuota, Power, Snapshots, NdpResponder, Ipv6Blocks, Ipv6Pool,
        PanelSessions, AdminSessions, Migrations, Terminal, PtyStream, BatchJob,
        Transfer, TransferImport, TLC

CONSTANT Parts  \* the components that act in a run

VARIABLE part

hostVars ==
    <<part, throttleVars, cpuVars, powerVars, snapVars, ndpVars, blocksVars, poolVars,
      sessionVars, adminVars, migrationVars, terminalVars, streamVars, batchVars,
      transferVars, importVars>>

\* A component that does not act stays in one of its initial states.
Rests(name, fixed) == part # name => fixed

HostInit ==
    /\ part \in Parts
    /\ Rests("cpu", quota = CHOOSE r \in Rows : TRUE)
    /\ Rests("power", deadline = None)
    /\ Rests("pool", pool = {})
    /\ Rests("migrations", schema = Versions /\ recorded = 2..SchemaVersion)
    /\ ThrottleInit /\ CpuInit /\ PowerInit /\ SnapInit /\ NdpInit /\ BlocksInit /\ PoolInit
    /\ SessionsInit /\ AdminInit /\ MigrationsInit /\ TerminalInit /\ StreamInit
    /\ BatchInit /\ TransferInit /\ ImportInit
    /\ Rests("import", mode = "none" /\ importer.source = "none" /\ importer.stack = "networkd"
                          /\ ~importer.active)

Turn(name, step, vars) == IF part = name THEN step ELSE UNCHANGED vars

HostNext ==
    /\ UNCHANGED part
    /\ Turn("throttle", ThrottleNext, throttleVars)
    /\ Turn("cpu", CpuNext, cpuVars)
    /\ Turn("power", PowerNext, powerVars)
    /\ Turn("snapshots", SnapNext, snapVars)
    /\ Turn("ndp", NdpNext, ndpVars)
    /\ Turn("blocks", BlocksNext, blocksVars)
    /\ Turn("pool", PoolNext, poolVars)
    /\ Turn("sessions", SessionsNext, sessionVars)
    /\ Turn("admin", AdminNext, adminVars)
    /\ Turn("migrations", MigrationsNext, migrationVars)
    /\ Turn("terminal", TerminalNext, terminalVars)
    /\ Turn("pty", StreamNext, streamVars)
    /\ Turn("batch", BatchNext, batchVars)
    /\ Turn("transfer", TransferNext, transferVars)
    /\ Turn("import", ImportNext, importVars)

HostSpec == HostInit /\ [][HostNext]_hostVars

\* The fairness of the component that acts.
HostFairness ==
    \/ part = "throttle" /\ ThrottleFairness
    \/ part = "cpu" /\ CpuFairness
    \/ part = "power" /\ PowerFairness
    \/ part = "ndp" /\ NdpFairness
    \/ part = "terminal" /\ TerminalFairness
    \/ part = "batch" /\ BatchFairness
    \/ part = "transfer" /\ TransferFairness

HostLiveSpec == HostSpec /\ HostFairness

\* The binary named "older" is three versions behind.
MCBinaryVersion == [p \in Openers |-> IF p = "older" THEN SchemaVersion - 3 ELSE SchemaVersion]

\* Accounts are alike in every component, and so are the processes, requests,
\* connections and forms that act on them.
HostSymmetry ==
    Permutations(Accounts) \cup Permutations(Workers)

\* Type invariant: the variables of every component have their types.
TypesOK ==
    /\ ThrottleTypeOK /\ CpuTypeOK /\ PowerTypeOK /\ SnapTypeOK /\ NdpTypeOK /\ BlocksTypeOK
    /\ PoolTypeOK /\ SessionsTypeOK /\ AdminTypeOK /\ MigrationsTypeOK /\ TerminalTypeOK
    /\ StreamTypeOK /\ BatchTypeOK /\ TransferTypeOK /\ ImportTypeOK

\* What the registry of shells and the stream of each of them promise.
TerminalSafe == ShellsAccounted /\ NoSendOnClosed

=============================================================================
