------------------------------ MODULE Transfer ------------------------------
(***************************************************************************)
(* `vps transfer`: one process exports a stopped container to a file and   *)
(* serves it from a temporary listener, others download it and import it   *)
(* (main_transfer.go, internal/mgr/transfersrv.go, internal/lx/backup.go). *)
(* The import itself is TransferImport.                                    *)
(*                                                                         *)
(* A process is named by its pid, which is also in the names of its files; *)
(* every launch is a new one.  Ticks are the listener's clock, and Size,   *)
(* Patience, Stall and Attempts are the archive's length in chunks, the    *)
(* idle budget and stallTimeout in ticks, and transferMaxAttempts.         *)
(***************************************************************************)
EXTENDS Host

CONSTANTS
    Pids,       \* the processes launched, all told: a bound
    Size, Patience, Stall, Attempts

ASSUME TransferAssumption ==
    /\ Size \in Nat \ {0} /\ Patience \in Nat \ {0}
    /\ Stall \in Nat \ {0} /\ Attempts \in Nat \ {0}

VARIABLES
    process,    \* Pids -> the phase of each process
    interrupted,\* the processes whose context a first signal has cancelled
    killed,     \* the processes that died without running their clean-up
    files,      \* the transfer files on disk, as [pid, kind]
    sent,       \* Pids -> the sender whose URL a receiver was given
    have,       \* Pids -> chunks a receiver has on disk
    attempt,    \* Pids -> download attempts a receiver has made
    conns,      \* open connections of the listener, as pids of receivers
    idleFor, silentFor, \* the listener's counters, in ticks
    frozen,     \* receivers that are suspended, with their connections open
    stopped     \* whether the container is stopped and has not expired

transferVars == <<process, interrupted, killed, files, sent, have, attempt,
                  conns, idleFor, silentFor, frozen, stopped>>

SendPhases == {"export", "publish", "serve"}
ReceivePhases == {"meta", "fetch", "download", "wait", "verify", "import"}

\* processAlive: a signal 0 reaches it.
Alive(p) == process[p] \in SendPhases \cup ReceivePhases
Serving(p) == process[p] = "serve"

File(p, kind) == [pid |-> p, kind |-> kind]
FilesOf(p) == {f \in files : f.pid = p}

TransferInit ==
    /\ process = [p \in Pids |-> "unborn"]
    /\ interrupted = {} /\ killed = {} /\ files = {}
    /\ sent = [p \in Pids |-> None]
    /\ have = [p \in Pids |-> 0]
    /\ attempt = [p \in Pids |-> 0]
    /\ conns = {} /\ idleFor = 0 /\ silentFor = 0
    /\ frozen = {}
    /\ stopped = TRUE

-----------------------------------------------------------------------------
(* The files, the signals and the end of a process *)

\* sweepTransferArchives: the leftovers of processes that are gone.
LeftoverAny(f) == TRUE                                             \* mutant
Leftover(f) == ~Alive(f.pid)
Swept == {f \in files : ~Leftover(f)}

Phase(p, phase) == process' = [process EXCEPT ![p] = phase]

\* A process that returns closes its connections or its listener and runs its
\* deferred removals.
ProcessReturns(p) ==
    /\ Phase(p, "gone")
    /\ files' = files \ FilesOf(p)
    /\ conns' = IF process[p] \in SendPhases THEN {} ELSE conns \ {p}
    /\ UNCHANGED <<interrupted, killed, sent, have, attempt, idleFor, silentFor, frozen, stopped>>

\* interruptible: the first signal cancels the context; the handler is then
\* gone, and a second one ends the process at once.
FirstSignal(p) ==
    /\ CanFail("signal") /\ Alive(p) /\ p \notin interrupted
    /\ interrupted' = interrupted \cup {p}
    /\ UNCHANGED <<process, killed, files, sent, have, attempt, conns, idleFor,
                   silentFor, frozen, stopped>>

KilledOutright(p) ==
    /\ Alive(p) /\ (p \in interrupted \/ CanFail("kill"))
    /\ Phase(p, "gone")
    /\ killed' = killed \cup {p}
    /\ conns' = IF process[p] \in SendPhases THEN {} ELSE conns \ {p}
    /\ UNCHANGED <<interrupted, files, sent, have, attempt, idleFor, silentFor, frozen, stopped>>

-----------------------------------------------------------------------------
(* vps transfer send *)

\* One sender at a time in an instance: a second listener has a port of its own.
SendStarts(p) ==
    /\ process[p] = "unborn" /\ stopped
    /\ \A q \in Pids : process[q] \notin SendPhases
    /\ Phase(p, "export")
    /\ files' = Swept \cup {File(p, "archive")}
    /\ UNCHANGED <<interrupted, killed, sent, have, attempt, conns, idleFor, silentFor,
                   frozen, stopped>>

\* TransferExport checks that the container is stopped and its account has
\* not expired, and streams it; the space guard or Incus may break it off.
ExportEnds(p) ==
    /\ process[p] = "export" /\ stopped /\ p \notin interrupted
    /\ Phase(p, "publish")
    /\ UNCHANGED <<interrupted, killed, files, sent, have, attempt, conns, idleFor,
                   silentFor, frozen, stopped>>

ExportBreaks(p) ==
    /\ process[p] = "export" /\ (~stopped \/ CanFail("export") \/ p \in interrupted)
    /\ ProcessReturns(p)

\* The metadata goes beside the archive and the listener opens.
Publishes(p) ==
    /\ process[p] = "publish"
    /\ Phase(p, "serve")
    /\ files' = files \cup {File(p, "meta")}
    /\ conns' = {} /\ idleFor' = 0 /\ silentFor' = 0
    /\ UNCHANGED <<interrupted, killed, sent, have, attempt, frozen, stopped>>

\* Serve's tick: it drops connections that moved nothing for stallTimeout,
\* counts the idle time while nobody is connected, and closes at its end.
StalledNever == FALSE                                              \* mutant
Stalled == conns # {} /\ silentFor >= Stall
IdleCount(open) == IF open = {} THEN idleFor + 1 ELSE 0
Capped(n) == IF n > Stall THEN Stall ELSE n

ServeTick(p) ==
    /\ Serving(p) /\ p \notin interrupted
    /\ LET open == IF Stalled THEN {} ELSE conns IN
        IF IdleCount(open) >= Patience
        THEN ProcessReturns(p)
        ELSE /\ conns' = open
             /\ idleFor' = IdleCount(open)
             /\ silentFor' = IF Stalled \/ conns = {} THEN 0 ELSE Capped(silentFor + 1)
             /\ UNCHANGED <<process, interrupted, killed, files, sent, have, attempt,
                            frozen, stopped>>

ServeInterrupted(p) == Serving(p) /\ p \in interrupted /\ ProcessReturns(p)

\* The owner or the operator starts the container, or its account expires.
SourceChanges ==
    /\ stopped' = ~stopped
    /\ UNCHANGED <<process, interrupted, killed, files, sent, have, attempt, conns,
                   idleFor, silentFor, frozen>>

-----------------------------------------------------------------------------
(* vps transfer receive *)

Acts(p) == p \notin frozen

\* The operator pastes the command a sender has printed.
ReceiveStarts(p, s) ==
    /\ process[p] = "unborn" /\ Serving(s)
    /\ Phase(p, "meta")
    /\ sent' = [sent EXCEPT ![p] = s]
    /\ UNCHANGED <<interrupted, killed, files, have, attempt, conns, idleFor, silentFor,
                   frozen, stopped>>

\* A listener answers, and its certificate is the one the command pins.
Reached(p) == Serving(sent[p]) /\ p \notin interrupted
OtherAnswers(p) == \E q \in Pids \ {sent[p]} : Serving(q)

\* fetchMeta and the checks that need it; the connection stays open and the
\* part file is made after a sweep.
MetaFetched(p) ==
    /\ process[p] = "meta" /\ Acts(p) /\ Reached(p)
    /\ Phase(p, "fetch")
    /\ files' = Swept \cup {File(p, "part")}
    /\ conns' = conns \cup {p} /\ silentFor' = 0
    /\ UNCHANGED <<interrupted, killed, sent, have, attempt, idleFor, frozen, stopped>>

MetaFails(p) ==
    /\ process[p] = "meta" /\ Acts(p)
    /\ ~Reached(p) \/ CanFail("link")
    /\ ProcessReturns(p)

\* fetchOnce connects and asks for what is missing...
FetchConnects(p) ==
    /\ process[p] = "fetch" /\ Acts(p) /\ Reached(p)
    /\ Phase(p, "download")
    /\ attempt' = [attempt EXCEPT ![p] = @ + 1]
    /\ conns' = conns \cup {p} /\ silentFor' = 0
    /\ UNCHANGED <<interrupted, killed, files, sent, have, idleFor, frozen, stopped>>

\* ...the archive arrives chunk by chunk...
ChunkArrives(p) ==
    /\ process[p] = "download" /\ Acts(p) /\ p \in conns /\ Reached(p)
    /\ have' = [have EXCEPT ![p] = @ + 1]
    /\ silentFor' = 0
    /\ IF have[p] + 1 = Size THEN Phase(p, "verify") ELSE UNCHANGED process
    /\ UNCHANGED <<interrupted, killed, files, sent, attempt, conns, idleFor, frozen, stopped>>

\* ...or the attempt fails: the last one, a cancelled one and one in which
\* another listener's certificate was rejected are final, any other is
\* retried after a pause.
Final(p) == attempt'[p] = Attempts \/ p \in interrupted

FetchFails(p) ==
    /\ Acts(p)
    /\ \/ /\ process[p] = "fetch"
          /\ ~Reached(p) \/ CanFail("link")
          /\ attempt' = [attempt EXCEPT ![p] = @ + 1]
       \/ /\ process[p] = "download"
          /\ ~Reached(p) \/ p \notin conns \/ CanFail("link")
          /\ UNCHANGED attempt
    /\ \/ /\ Final(p) \/ OtherAnswers(p)
          /\ Phase(p, "gone") /\ files' = files \ FilesOf(p)
       \/ /\ ~Final(p)
          /\ Phase(p, "wait") /\ UNCHANGED files
    /\ conns' = conns \ {p}
    /\ UNCHANGED <<interrupted, killed, sent, have, idleFor, silentFor, frozen, stopped>>

FetchAgain(p) ==
    /\ process[p] = "wait" /\ Acts(p)
    /\ Phase(p, "fetch")
    /\ UNCHANGED <<interrupted, killed, files, sent, have, attempt, conns, idleFor,
                   silentFor, frozen, stopped>>

\* The checksum is compared and the import begins; it honours the context.
ChecksumHolds(p) ==
    /\ process[p] = "verify" /\ Acts(p) /\ have[p] = Size
    /\ Phase(p, "import")
    /\ UNCHANGED <<interrupted, killed, files, sent, have, attempt, conns, idleFor,
                   silentFor, frozen, stopped>>

ImportReturns(p) == process[p] = "import" /\ Acts(p) /\ ProcessReturns(p)

\* A receiver is suspended; its kernel keeps the connection open.
ReceiverFreezes(p) ==
    /\ CanFail("freeze") /\ process[p] \in ReceivePhases /\ Acts(p)
    /\ frozen' = frozen \cup {p}
    /\ UNCHANGED <<process, interrupted, killed, files, sent, have, attempt, conns,
                   idleFor, silentFor, stopped>>

-----------------------------------------------------------------------------
SendStep(p) ==
    \/ ExportEnds(p) \/ ExportBreaks(p) \/ Publishes(p)
    \/ ServeTick(p) \/ ServeInterrupted(p)

ReceiveStep(p) ==
    \/ MetaFetched(p) \/ MetaFails(p) \/ FetchConnects(p) \/ ChunkArrives(p)
    \/ FetchFails(p) \/ FetchAgain(p) \/ ChecksumHolds(p) \/ ImportReturns(p)

TransferNext ==
    \/ \E p \in Pids :
        \/ SendStarts(p) \/ \E s \in Pids \ {p} : ReceiveStarts(p, s)
        \/ SendStep(p) \/ ReceiveStep(p)
        \/ FirstSignal(p) \/ KilledOutright(p) \/ ReceiverFreezes(p)
    \/ SourceChanges

\* A process runs on: a call to the daemon returns, the listener's ticker
\* ticks, and a read from a connection ends or is ended by the keep-alive.
TransferFairness ==
    /\ WF_transferVars(\E p \in Pids : SendStep(p))
    /\ WF_transferVars(\E p \in Pids : ReceiveStep(p))

TransferSpec == TransferInit /\ [][TransferNext]_transferVars

-----------------------------------------------------------------------------
\* Type invariant: the processes, their files and the listener's counters.
TransferTypeOK ==
    /\ process \in [Pids -> {"unborn", "gone"} \cup SendPhases \cup ReceivePhases]
    /\ interrupted \subseteq Pids /\ killed \subseteq Pids /\ frozen \subseteq Pids
    /\ files \subseteq [pid : Pids, kind : {"archive", "meta", "part"}]
    /\ sent \in [Pids -> Pids \cup {None}]
    /\ have \in [Pids -> 0..Size] /\ attempt \in [Pids -> 0..Attempts]
    /\ conns \subseteq Pids
    /\ idleFor \in 0..Patience /\ silentFor \in 0..Stall
    /\ stopped \in BOOLEAN

\* Copies of a disk are accounted for: whatever file lies around belongs to a
\* process that still runs or was killed without a chance to clean up, and no
\* process that needs its file loses it to another's sweep
\* (main_transfer.go:171-178, 216-224, 725-762).
FilesAccounted ==
    /\ \A f \in files : Alive(f.pid) \/ f.pid \in killed
    /\ \A p \in Pids :
        /\ process[p] \in SendPhases => File(p, "archive") \in files
        /\ Serving(p) => File(p, "meta") \in files
        /\ process[p] \in ReceivePhases \ {"meta"} => File(p, "part") \in files
    /\ conns # {} => \E p \in Pids : Serving(p)

\* The listener does not stay up for a peer that went away or hangs: a send
\* comes to its end, and with it the archive (transfersrv.go:33-37, 177-214).
SendEnds ==
    \A p \in Pids : process[p] \in SendPhases ~>
        process[p] = "gone" /\ (FilesOf(p) = {} \/ p \in killed)

=============================================================================
