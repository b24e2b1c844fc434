-------------------------- MODULE Transfer_proofs ---------------------------
(***************************************************************************)
(* Theorems about moving an account to another host: the files of `vps     *)
(* transfer` and the import on the receiving host.                         *)
(***************************************************************************)
EXTENDS Transfer, TransferImport, TLAPS

-----------------------------------------------------------------------------
(***************************************************************************)
(* The files of both sides (Transfer)                                      *)
(***************************************************************************)

\* A process that needs a file has it, whoever sweeps.
HasFiles(p) ==
    /\ process[p] \in SendPhases => File(p, "archive") \in files
    /\ Serving(p) => File(p, "meta") \in files
    /\ process[p] \in ReceivePhases \ {"meta"} => File(p, "part") \in files

FilesInv ==
    /\ process \in [Pids -> {"unborn", "gone"} \cup SendPhases \cup ReceivePhases]
    /\ \A f \in files : f.pid \in Pids /\ (Alive(f.pid) \/ f.pid \in killed)
    /\ \A p \in Pids : HasFiles(p)
    /\ \A p, q \in Pids :
          process[p] \in SendPhases /\ process[q] \in SendPhases => p = q
    /\ conns # {} => \E p \in Pids : Serving(p)

LEMMA PhasesApart ==
    /\ SendPhases \cap ReceivePhases = {} /\ "serve" \in SendPhases
    /\ {"unborn", "gone"} \cap (SendPhases \cup ReceivePhases) = {}
  BY DEF SendPhases, ReceivePhases

LEMMA FilesInitially == TransferInit => FilesInv
  BY PhasesApart DEF TransferInit, FilesInv, HasFiles, Alive, Serving

\* A process ends: its files go with it, or it was killed and they stay; the
\* listener's connections end with the listener.
LEMMA EndStep ==
    ASSUME FilesInv, NEW p \in Pids, Alive(p), Phase(p, "gone"),
           \/ files' = files \ FilesOf(p) /\ killed' = killed
           \/ files' = files /\ killed' = killed \cup {p},
           conns' = IF process[p] \in SendPhases THEN {} ELSE conns \ {p}
    PROVE  FilesInv'
  <1>1. process' = [process EXCEPT ![p] = "gone"]
    BY DEF Phase
  <1>2. process' \in [Pids -> {"unborn", "gone"} \cup SendPhases \cup ReceivePhases]
    BY <1>1 DEF FilesInv
  <1>3. \A q \in Pids : q # p => process'[q] = process[q]
    BY <1>1 DEF FilesInv
  <1>4. process'[p] = "gone"
    BY <1>1 DEF FilesInv
  <1>5. \A f \in files' : f.pid \in Pids /\ (Alive(f.pid)' \/ f.pid \in killed')
    BY <1>3 DEF FilesInv, FilesOf, Alive
  <1>6. \A q \in Pids : HasFiles(q)'
    <2>1. ASSUME NEW q \in Pids, q # p, NEW kind, File(q, kind) \in files
          PROVE  File(q, kind) \in files'
      BY <2>1 DEF FilesOf, File
    <2>2. ASSUME NEW q \in Pids, q # p PROVE HasFiles(q)'
      BY <1>3, <2>1, <2>2 DEF FilesInv, HasFiles, Serving
    <2> QED
      BY <1>4, <2>2, PhasesApart DEF HasFiles, Serving
  <1>7. \A q, r \in Pids :
            process'[q] \in SendPhases /\ process'[r] \in SendPhases => q = r
    BY <1>3, <1>4, PhasesApart DEF FilesInv
  <1>8. conns' # {} => \E q \in Pids : Serving(q)'
    BY <1>3, PhasesApart DEF FilesInv, Serving
  <1> QED
    BY <1>2, <1>5, <1>6, <1>7, <1>8 DEF FilesInv

\* A process goes on, with the file that its next phase needs; a sweep takes only
\* files of processes that are gone.
LEMMA GoesOn ==
    ASSUME FilesInv, NEW p \in Pids, Phase(p, process'[p]),
           process'[p] \in SendPhases \cup ReceivePhases,
           Swept \subseteq files',
           \A f \in files' : f \in files \/ f.pid = p,
           killed' = killed,
           process'[p] \in SendPhases =>
               \/ process[p] \in SendPhases
               \/ (\A q \in Pids : process[q] \notin SendPhases) /\ File(p, "archive") \in files',
           process'[p] = "serve" => File(p, "meta") \in files',
           process'[p] \in ReceivePhases \ {"meta"} =>
               File(p, "part") \in files' \/ process[p] \in ReceivePhases \ {"meta"},
           process[p] = "serve" => process'[p] = "serve",
           conns' # {} => conns # {} \/ \E q \in Pids : Serving(q)
    PROVE  FilesInv'
  <1>1. process' = [process EXCEPT ![p] = process'[p]]
    BY DEF Phase
  <1>2. process' \in [Pids -> {"unborn", "gone"} \cup SendPhases \cup ReceivePhases]
    BY <1>1 DEF FilesInv
  <1>3. \A q \in Pids : q # p => process'[q] = process[q]
    BY <1>1 DEF FilesInv
  <1>4. \A q \in Pids : Alive(q) => Alive(q)'
    BY <1>3 DEF Alive
  <1>5. Alive(p)'
    BY DEF Alive
  <1>6. \A f \in files' : f.pid \in Pids /\ (Alive(f.pid)' \/ f.pid \in killed')
    BY <1>4, <1>5 DEF FilesInv
  <1>7. \A f \in files : Alive(f.pid) => f \in files'
    BY DEF Swept, Leftover
  <1>8. ASSUME NEW q \in Pids, Alive(q), NEW kind, File(q, kind) \in files
        PROVE  File(q, kind) \in files'
    BY <1>7, <1>8 DEF File
  <1>9. ASSUME NEW q \in Pids PROVE HasFiles(q)'
    <2>1. CASE q # p
      BY <1>3, <1>8, <2>1, PhasesApart DEF FilesInv, HasFiles, Serving, Alive
    <2>2. CASE q = p
      <3>1. process'[p] \in SendPhases => File(p, "archive") \in files'
        BY <1>8 DEF FilesInv, HasFiles, Alive
      <3>2. process'[p] \in ReceivePhases \ {"meta"} => File(p, "part") \in files'
        BY <1>8 DEF FilesInv, HasFiles, Alive
      <3> QED
        BY <2>2, <3>1, <3>2 DEF HasFiles, Serving
    <2> QED
      BY <2>1, <2>2
  <1>10. \A q, r \in Pids :
            process'[q] \in SendPhases /\ process'[r] \in SendPhases => q = r
    BY <1>3, PhasesApart DEF FilesInv
  <1>11. conns' # {} => \E q \in Pids : Serving(q)'
    BY <1>3 DEF FilesInv, Serving
  <1> QED
    BY <1>2, <1>6, <1>9, <1>10, <1>11 DEF FilesInv

\* What changing a process' phase does.
LEMMA PhaseIs ==
    ASSUME FilesInv, NEW p \in Pids, NEW phase, Phase(p, phase)
    PROVE  process'[p] = phase /\ Phase(p, process'[p])
  BY DEF FilesInv, Phase

LEMMA SweptInFiles == Swept \subseteq files
  BY DEF Swept

\* A step that leaves the processes and their files alone.
LEMMA FilesUntouched ==
    ASSUME FilesInv, UNCHANGED <<process, killed, files>>,
           conns' # {} => conns # {}
    PROVE  FilesInv'
  BY DEF FilesInv, HasFiles, Alive, Serving

-----------------------------------------------------------------------------
LEMMA ReturnStep ==
    ASSUME FilesInv, NEW p \in Pids, Alive(p), ProcessReturns(p)
    PROVE  FilesInv'
  BY EndStep DEF ProcessReturns

LEMMA SignalStep ==
    ASSUME FilesInv, NEW p \in Pids,
           FirstSignal(p) \/ KilledOutright(p) \/ ReceiverFreezes(p) \/ SourceChanges
    PROVE  FilesInv'
  <1>1. CASE FirstSignal(p) \/ ReceiverFreezes(p) \/ SourceChanges
    BY <1>1, FilesUntouched DEF FirstSignal, ReceiverFreezes, SourceChanges
  <1>2. CASE KilledOutright(p)
    BY <1>2, EndStep DEF KilledOutright
  <1> QED
    BY <1>1, <1>2

LEMMA SendSteps ==
    ASSUME FilesInv, NEW p \in Pids, SendStarts(p) \/ SendStep(p)
    PROVE  FilesInv'
  <1>1. CASE SendStarts(p)
    <2>1. /\ process[p] = "unborn" /\ Phase(p, "export") /\ files' = Swept \cup {File(p, "archive")}
          /\ killed' = killed /\ conns' = conns /\ \A q \in Pids : process[q] \notin SendPhases
      BY <1>1 DEF SendStarts
    <2>2. process'[p] = "export" /\ Phase(p, process'[p])
      BY <2>1, PhaseIs
    <2>3. \A f \in files' : f \in files \/ f.pid = p
      BY <2>1, SweptInFiles DEF File
    <2> QED
      BY <2>1, <2>2, <2>3, GoesOn DEF SendPhases, ReceivePhases
  <1>2. CASE ExportEnds(p)
    <2>1. /\ process[p] = "export" /\ Phase(p, "publish") /\ files' = files
          /\ killed' = killed /\ conns' = conns
      BY <1>2 DEF ExportEnds
    <2>2. process'[p] = "publish" /\ Phase(p, process'[p])
      BY <2>1, PhaseIs
    <2> QED
      BY <2>1, <2>2, SweptInFiles, GoesOn DEF SendPhases, ReceivePhases
  <1>3. CASE Publishes(p)
    <2>1. /\ process[p] = "publish" /\ Phase(p, "serve") /\ files' = files \cup {File(p, "meta")}
          /\ killed' = killed /\ conns' = {}
      BY <1>3 DEF Publishes
    <2>2. process'[p] = "serve" /\ Phase(p, process'[p])
      BY <2>1, PhaseIs
    <2>3. \A f \in files' : f \in files \/ f.pid = p
      BY <2>1 DEF File
    <2> QED
      BY <2>1, <2>2, <2>3, SweptInFiles, GoesOn DEF SendPhases, ReceivePhases
  <1>4. CASE ExportBreaks(p) \/ ServeInterrupted(p)
    BY <1>4, ReturnStep DEF ExportBreaks, ServeInterrupted, Serving, Alive, SendPhases
  <1>5. CASE ServeTick(p)
    <2>1. CASE ProcessReturns(p)
      BY <1>5, <2>1, ReturnStep DEF ServeTick, Serving, Alive, SendPhases
    <2>2. CASE ~ProcessReturns(p)
      BY <1>5, <2>2, FilesUntouched DEF ServeTick
    <2> QED
      BY <2>1, <2>2
  <1> QED
    BY <1>1, <1>2, <1>3, <1>4, <1>5 DEF SendStep

\* A receiver was given the URL of a process of this instance.
TargetsInv ==
    /\ sent \in [Pids -> Pids \cup {None}]
    /\ \A p \in Pids : process[p] \in ReceivePhases => sent[p] \in Pids

LEMMA ReceiveStartStep ==
    ASSUME FilesInv, TargetsInv, NEW p \in Pids, NEW s \in Pids, ReceiveStarts(p, s)
    PROVE  FilesInv' /\ TargetsInv'
  <1>1. /\ process[p] = "unborn" /\ Phase(p, "meta") /\ files' = files
        /\ killed' = killed /\ conns' = conns /\ sent' = [sent EXCEPT ![p] = s]
    BY DEF ReceiveStarts
  <1>2. process'[p] = "meta" /\ Phase(p, process'[p])
    BY <1>1, PhaseIs
  <1>3. FilesInv'
    BY <1>1, <1>2, SweptInFiles, GoesOn DEF SendPhases, ReceivePhases
  <1>4. TargetsInv'
    BY <1>1 DEF TargetsInv, FilesInv, Phase
  <1> QED
    BY <1>3, <1>4

\* A step that gives nobody a URL and makes nobody a receiver.
LEMMA TargetsKept ==
    ASSUME FilesInv, TargetsInv, sent' = sent,
           \A q \in Pids : process'[q] \in ReceivePhases => process[q] \in ReceivePhases
    PROVE  TargetsInv'
  BY DEF TargetsInv

LEMMA ReceiveGoesOn ==
    ASSUME FilesInv, TargetsInv, NEW p \in Pids,
           \/ MetaFetched(p) \/ FetchConnects(p) \/ ChunkArrives(p)
           \/ FetchAgain(p) \/ ChecksumHolds(p)
    PROVE  FilesInv'
  <1>1. CASE MetaFetched(p)
    <2>1. /\ process[p] = "meta" /\ Phase(p, "fetch") /\ killed' = killed
          /\ files' = Swept \cup {File(p, "part")} /\ Serving(sent[p])
      BY <1>1 DEF MetaFetched, Reached
    <2>2. process'[p] = "fetch" /\ Phase(p, process'[p])
      BY <2>1, PhaseIs
    <2>3. \A f \in files' : f \in files \/ f.pid = p
      BY <2>1, SweptInFiles DEF File
    <2>4. \E q \in Pids : Serving(q)
      BY <2>1 DEF TargetsInv, ReceivePhases
    <2> QED
      BY <2>1, <2>2, <2>3, <2>4, GoesOn DEF SendPhases, ReceivePhases
  <1>2. CASE FetchConnects(p)
    <2>1. /\ process[p] = "fetch" /\ Phase(p, "download") /\ killed' = killed
          /\ files' = files /\ Serving(sent[p])
      BY <1>2 DEF FetchConnects, Reached
    <2>2. process'[p] = "download" /\ Phase(p, process'[p])
      BY <2>1, PhaseIs
    <2>3. \E q \in Pids : Serving(q)
      BY <2>1 DEF TargetsInv, ReceivePhases
    <2> QED
      BY <2>1, <2>2, <2>3, SweptInFiles, GoesOn DEF SendPhases, ReceivePhases
  <1>3. CASE ChunkArrives(p)
    <2>1. /\ process[p] = "download" /\ UNCHANGED <<files, killed, conns>>
          /\ Phase(p, "verify") \/ process' = process
      BY <1>3 DEF ChunkArrives
    <2>2. CASE process' = process
      BY <2>1, <2>2, FilesUntouched
    <2>3. CASE Phase(p, "verify")
      <3>1. process'[p] = "verify" /\ Phase(p, process'[p])
        BY <2>3, PhaseIs
      <3> QED
        BY <2>1, <3>1, SweptInFiles, GoesOn DEF SendPhases, ReceivePhases
    <2> QED
      BY <2>1, <2>2, <2>3
  <1>4. CASE FetchAgain(p)
    <2>1. process[p] = "wait" /\ Phase(p, "fetch") /\ UNCHANGED <<files, killed, conns>>
      BY <1>4 DEF FetchAgain
    <2>2. process'[p] = "fetch" /\ Phase(p, process'[p])
      BY <2>1, PhaseIs
    <2> QED
      BY <2>1, <2>2, SweptInFiles, GoesOn DEF SendPhases, ReceivePhases
  <1>5. CASE ChecksumHolds(p)
    <2>1. process[p] = "verify" /\ Phase(p, "import") /\ UNCHANGED <<files, killed, conns>>
      BY <1>5 DEF ChecksumHolds
    <2>2. process'[p] = "import" /\ Phase(p, process'[p])
      BY <2>1, PhaseIs
    <2> QED
      BY <2>1, <2>2, SweptInFiles, GoesOn DEF SendPhases, ReceivePhases
  <1> QED
    BY <1>1, <1>2, <1>3, <1>4, <1>5

LEMMA FetchFailsStep ==
    ASSUME FilesInv, NEW p \in Pids, FetchFails(p)
    PROVE  FilesInv'
  <1>1. /\ process[p] \in {"fetch", "download"} /\ killed' = killed /\ conns' = conns \ {p}
        /\ \/ Phase(p, "gone") /\ files' = files \ FilesOf(p)
           \/ Phase(p, "wait") /\ files' = files
    BY DEF FetchFails
  <1>2. CASE Phase(p, "gone") /\ files' = files \ FilesOf(p)
    BY <1>1, <1>2, EndStep DEF Alive, SendPhases, ReceivePhases
  <1>3. CASE Phase(p, "wait") /\ files' = files
    <2>1. process'[p] = "wait" /\ Phase(p, process'[p])
      BY <1>3, PhaseIs
    <2> QED
      BY <1>1, <1>3, <2>1, SweptInFiles, GoesOn DEF SendPhases, ReceivePhases
  <1> QED
    BY <1>1, <1>2, <1>3

LEMMA ReceiveSteps ==
    ASSUME FilesInv, TargetsInv, NEW p \in Pids, ReceiveStep(p)
    PROVE  FilesInv'
  <1>1. CASE MetaFails(p) \/ ImportReturns(p)
    BY <1>1, ReturnStep DEF MetaFails, ImportReturns, Alive, ReceivePhases
  <1> QED
    BY <1>1, ReceiveGoesOn, FetchFailsStep DEF ReceiveStep

\* Every step but the start of a receiver keeps who was given which URL.
LEMMA TargetsSteps ==
    ASSUME FilesInv, TargetsInv, NEW p \in Pids,
           \/ SendStarts(p) \/ SendStep(p) \/ ReceiveStep(p)
           \/ FirstSignal(p) \/ KilledOutright(p) \/ ReceiverFreezes(p) \/ SourceChanges
    PROVE  TargetsInv'
  <1> DEFINE Kept == /\ sent' = sent
                     /\ \A q \in Pids : process'[q] \in ReceivePhases => process[q] \in ReceivePhases
  <1>1. ASSUME NEW phase, Phase(p, phase), sent' = sent,
               phase \in ReceivePhases => process[p] \in ReceivePhases
        PROVE  Kept
    BY <1>1 DEF FilesInv, Phase
  <1>2. CASE SendStarts(p)
    <2>1. Phase(p, "export") /\ sent' = sent
      BY <1>2 DEF SendStarts
    <2>2. "export" \notin ReceivePhases
      BY DEF ReceivePhases
    <2>3. Kept
      BY <1>1, <2>1, <2>2
    <2> QED
      BY <2>3, TargetsKept
  <1>3. ASSUME ProcessReturns(p) PROVE Kept
    <2>1. Phase(p, "gone") /\ sent' = sent
      BY <1>3 DEF ProcessReturns
    <2> QED
      BY <1>1, <2>1, PhasesApart
  <1>4. CASE SendStep(p)
    <2>1. ASSUME ExportEnds(p) \/ Publishes(p) PROVE Kept
      BY <2>1 DEF ExportEnds, Publishes, FilesInv, Phase, ReceivePhases
    <2>2. ASSUME ExportBreaks(p) \/ ServeInterrupted(p) \/ ServeTick(p) PROVE Kept
      BY <1>3, <2>2 DEF ExportBreaks, ServeInterrupted, ServeTick
    <2>3. Kept
      BY <1>4, <2>1, <2>2 DEF SendStep
    <2> QED
      BY <2>3, TargetsKept
  <1>5. CASE ReceiveStep(p)
    <2>1. ASSUME MetaFails(p) \/ ImportReturns(p) PROVE Kept
      BY <1>3, <2>1 DEF MetaFails, ImportReturns
    <2>2. ASSUME \/ MetaFetched(p) \/ FetchConnects(p) \/ ChunkArrives(p)
                 \/ FetchFails(p) \/ FetchAgain(p) \/ ChecksumHolds(p)
          PROVE  Kept
      BY <2>2 DEF MetaFetched, FetchConnects, ChunkArrives, FetchFails, FetchAgain,
                  ChecksumHolds, FilesInv, Phase, ReceivePhases
    <2>3. Kept
      BY <1>5, <2>1, <2>2 DEF ReceiveStep
    <2> QED
      BY <2>3, TargetsKept
  <1>6. CASE FirstSignal(p) \/ ReceiverFreezes(p) \/ SourceChanges
    BY <1>6, TargetsKept DEF FirstSignal, ReceiverFreezes, SourceChanges
  <1>7. CASE KilledOutright(p)
    <2>1. Phase(p, "gone") /\ sent' = sent
      BY <1>7 DEF KilledOutright
    <2>2. Kept
      BY <1>1, <2>1, PhasesApart
    <2> QED
      BY <2>2, TargetsKept
  <1> QED
    BY <1>2, <1>4, <1>5, <1>6, <1>7

-----------------------------------------------------------------------------
LEMMA FilesStep ==
    ASSUME FilesInv, TargetsInv, TransferNext
    PROVE  FilesInv' /\ TargetsInv'
  <1>1. ASSUME NEW p \in Pids, NEW s \in Pids, ReceiveStarts(p, s)
        PROVE  FilesInv' /\ TargetsInv'
    BY <1>1, ReceiveStartStep
  <1>2. ASSUME NEW p \in Pids,
               \/ SendStarts(p) \/ SendStep(p) \/ ReceiveStep(p)
               \/ FirstSignal(p) \/ KilledOutright(p) \/ ReceiverFreezes(p)
        PROVE  FilesInv' /\ TargetsInv'
    <2>1. FilesInv'
      BY <1>2, SendSteps, ReceiveSteps, SignalStep
    <2>2. TargetsInv'
      BY <1>2, TargetsSteps
    <2> QED
      BY <2>1, <2>2
  <1>3. CASE SourceChanges
    BY <1>3, FilesUntouched DEF SourceChanges, TargetsInv
  <1> QED
    BY <1>1, <1>2, <1>3 DEF TransferNext

\* However many senders and receivers come, are signalled, are killed and sweep,
\* a file on disk belongs to a process that runs or was killed outright, and no
\* process loses the file it works on to another's sweep (main_transfer.go).
THEOREM CopiesAccounted == TransferSpec => []FilesAccounted
  <1>1. TransferInit => FilesInv /\ TargetsInv
    <2>1. TransferInit => TargetsInv
      BY PhasesApart DEF TransferInit, TargetsInv
    <2> QED
      BY <2>1, FilesInitially
  <1>2. FilesInv /\ TargetsInv /\ [TransferNext]_transferVars => (FilesInv /\ TargetsInv)'
    <2>1. ASSUME FilesInv, TargetsInv, UNCHANGED transferVars
          PROVE  (FilesInv /\ TargetsInv)'
      BY <2>1, FilesUntouched DEF transferVars, TargetsInv
    <2> QED
      BY <2>1, FilesStep
  <1>3. FilesInv => FilesAccounted
    BY DEF FilesInv, HasFiles, FilesAccounted
  <1> QED
    BY <1>1, <1>2, <1>3, PTL DEF TransferSpec

-----------------------------------------------------------------------------
(***************************************************************************)
(* The import (TransferImport)                                             *)
(***************************************************************************)

\* Which values the container of the import takes.
LEMMA GuestMade ==
    ASSUME ImportTypeOK, NEW account \in 1..MaxAccounts
    PROVE  /\ Fresh(account) \in Guests
           /\ \A source \in Modes, stack \in Stacks : Moved(account, source, stack) \in Guests
  <1>1. Fresh(account) \in Guests
    BY DEF Fresh, Guests, Stacks, Keys
  <1>2. ASSUME NEW source \in Modes, NEW stack \in Stacks PROVE Moved(account, source, stack) \in Guests
    BY DEF Moved, Guests, Keys
  <1> QED BY <1>1, <1>2

LEMMA GuestChanged ==
    ASSUME NEW g \in Guests
    PROVE  /\ \A a \in Address(g.v4) : [g EXCEPT !.running = TRUE, !.address = a] \in Guests
           /\ [g EXCEPT !.identity = "own", !.keys = {}] \in Guests
           /\ [g EXCEPT !.identity = "own"] \in Guests
           /\ [g EXCEPT !.keys = (g.keys \ {"marked"}) \cup {"owner"}] \in Guests
           /\ \A v4 \in {"dhcp", "static"}, v6 \in SUBSET {"own", "source"},
                 unit \in {"own", "source", "none"}, a \in {"reserved", "dynamic", "none"} :
                [g EXCEPT !.v4 = v4, !.v6 = v6, !.unit = unit, !.address = a] \in Guests
  <1>1. ASSUME NEW a \in Address(g.v4)
        PROVE  [g EXCEPT !.running = TRUE, !.address = a] \in Guests
    BY DEF Guests, Address
  <1>2. [g EXCEPT !.identity = "own", !.keys = {}] \in Guests
    BY DEF Guests
  <1>3. [g EXCEPT !.identity = "own"] \in Guests
    BY DEF Guests
  <1>4. [g EXCEPT !.keys = (g.keys \ {"marked"}) \cup {"owner"}] \in Guests
    <2>1. (g.keys \ {"marked"}) \cup {"owner"} \in SUBSET Keys BY DEF Guests, Keys
    <2> QED BY <2>1 DEF Guests
  <1>5. ASSUME NEW v4 \in {"dhcp", "static"}, NEW v6 \in SUBSET {"own", "source"},
               NEW unit \in {"own", "source", "none"}, NEW a \in {"reserved", "dynamic", "none"}
        PROVE  [g EXCEPT !.v4 = v4, !.v6 = v6, !.unit = unit, !.address = a] \in Guests
    BY DEF Guests
  <1> QED BY <1>1, <1>2, <1>3, <1>4, <1>5

\* What this host's network setup makes of a container when the nmcli calls in
\* `failed` have failed and DHCP has answered with `a`.
Networked(g, failed, a) ==
    [g EXCEPT !.v4 = BridgedIPv4(g.v4, failed),
              !.v6 = OwnAdded(SourceDropped(g.v6, failed), failed),
              !.unit = Unit(g), !.address = IF g.address = "none" THEN a ELSE g.address]

LEMMA NetworkSets ==
    ASSUME NEW g \in Guests, NEW failed, NEW a \in Address(BridgedIPv4(g.v4, failed))
    PROVE  /\ Networked(g, failed, a) \in Guests
           /\ Networked(g, failed, a).v4 \in {g.v4, "dhcp"}
           /\ Networked(g, failed, a).address # "none" =>
                g.address # "none" \/ Networked(g, failed, a).v4 = "dhcp"
           /\ "ipv6" \notin failed =>
                Networked(g, failed, a).v6 = IF mode = "prefix" THEN {"own"} ELSE {}
           /\ Networked(g, failed, a).unit = "source" =>
                mode # "prefix" /\ Networked(g, failed, a).stack = "manager"
           /\ Networked(g, failed, a).disk = g.disk
           /\ Networked(g, failed, a).devices = g.devices
           /\ Networked(g, failed, a).running = g.running
           /\ Networked(g, failed, a).identity = g.identity
           /\ Networked(g, failed, a).keys = g.keys
  <1>1. BridgedIPv4(g.v4, failed) \in {g.v4, "dhcp"} /\ g.v4 \in {"dhcp", "static"}
    BY DEF BridgedIPv4, Guests
  <1>2. OwnAdded(SourceDropped(g.v6, failed), failed) \in SUBSET {"own", "source"}
    BY DEF OwnAdded, SourceDropped, Guests
  <1>3. /\ Unit(g) \in {"own", "source", "none"}
        /\ Unit(g) = "source" => mode # "prefix" /\ g.stack = "manager"
    BY DEF Unit, Guests, Stacks
  <1>4. (IF g.address = "none" THEN a ELSE g.address) \in {"reserved", "dynamic", "none"}
    BY DEF Address, Guests
  <1>5. a # "none" => BridgedIPv4(g.v4, failed) = "dhcp"
    BY DEF Address
  <1>6. "ipv6" \notin failed => OwnAdded(SourceDropped(g.v6, failed), failed)
                                  = IF mode = "prefix" THEN {"own"} ELSE {}
    BY DEF OwnAdded, SourceDropped
  <1>7. Networked(g, failed, a) \in Guests
    <2> DEFINE v4 == BridgedIPv4(g.v4, failed)
               v6 == OwnAdded(SourceDropped(g.v6, failed), failed)
               ad == IF g.address = "none" THEN a ELSE g.address
    <2>1. v4 \in {"dhcp", "static"} BY <1>1
    <2>2. v6 \in SUBSET {"own", "source"} /\ ad \in {"reserved", "dynamic", "none"} BY <1>2, <1>4
    <2> HIDE DEF v4, v6, ad
    <2>3. [g EXCEPT !.v4 = v4, !.v6 = v6, !.unit = Unit(g), !.address = ad] \in Guests
      BY <1>3, <2>1, <2>2, GuestChanged
    <2> QED BY <2>3 DEF Networked, v4, v6, ad
  <1>8. /\ Networked(g, failed, a).v4 = BridgedIPv4(g.v4, failed)
        /\ Networked(g, failed, a).v6 = OwnAdded(SourceDropped(g.v6, failed), failed)
        /\ Networked(g, failed, a).unit = Unit(g)
        /\ Networked(g, failed, a).address = IF g.address = "none" THEN a ELSE g.address
        /\ Networked(g, failed, a).stack = g.stack
        /\ Networked(g, failed, a).disk = g.disk
        /\ Networked(g, failed, a).devices = g.devices
        /\ Networked(g, failed, a).running = g.running
        /\ Networked(g, failed, a).identity = g.identity
        /\ Networked(g, failed, a).keys = g.keys
    BY DEF Networked, Guests
  <1> QED BY <1>1, <1>3, <1>5, <1>6, <1>7, <1>8

LEMMA ImporterMoves ==
    ASSUME ImportTypeOK, NEW at \in Stages, Import(at)
    PROVE  importer' \in Importers
  BY DEF ImportTypeOK, Import, Importers

LEMMA ImporterQuietly ==
    ASSUME ImportTypeOK, NEW from, NEW to \in Stages,
           NEW failed \in SUBSET {"clear", "ipv4", "ipv6", "apply"}, Quietly(from, to, failed)
    PROVE  /\ importer' \in Importers
           /\ importer.at = from /\ importer'.at = to
           /\ importer'.account = importer.account /\ importer'.active = importer.active
           /\ importer'.quiet = importer.quiet \cup failed
           /\ importer'.warned = importer.warned
  <1>1. importer.quiet \cup failed \in SUBSET {"clear", "ipv4", "ipv6", "apply"}
    BY DEF ImportTypeOK, Importers
  <1>2. importer \in Importers BY DEF ImportTypeOK
  <1> QED BY <1>1, <1>2 DEF Quietly, Importers

LEMMA QuietlyFailed == QuietFailures \subseteq SUBSET {"clear", "ipv4", "ipv6", "apply"}
  BY DEF QuietFailures

\* The import has added an account, which was the last one or has come after.
ImportNamed == importer.at \notin {"target", "refused"} => importer.account \in 1..created

LEMMA ImportTypedKept ==
    ASSUME ImportTypeOK, ImportNamed, [ImportNext]_importVars
    PROVE  ImportTypeOK'
  <1> USE ImportAssumption DEF ImportTypeOK
  <1> DEFINE At == importer' \in Importers
  <1>1. CASE AccountAdded \/ PanelCreates
    <2>1. created + 1 \in 1..MaxAccounts /\ created' = created + 1
          /\ owner' = [account |-> created + 1, meta |-> {}] /\ guest' = Fresh(created + 1)
          /\ UNCHANGED mode /\ meddled' \in BOOLEAN
      <3>1. CASE AccountAdded BY <3>1 DEF AccountAdded
      <3>2. CASE PanelCreates BY <3>2 DEF PanelCreates
      <3> QED BY <1>1, <3>1, <3>2
    <2>2. guest' \in Guests BY <2>1, GuestMade
    <2>3. owner' \in Owners BY <2>1 DEF Owners, Meta
    <2>4. At
      <3>1. CASE AccountAdded
        <4>1. importer' = [importer EXCEPT !.at = "meta", !.account = created + 1]
              /\ created + 1 \in 0..MaxAccounts
          BY <3>1, <2>1 DEF AccountAdded
        <4> QED BY <4>1 DEF Importers, Stages
      <3>2. CASE PanelCreates BY <3>2 DEF PanelCreates, Importers
      <3> QED BY <1>1, <3>1, <3>2
    <2> QED BY <2>1, <2>2, <2>3, <2>4 DEF Importers
  <1>2. CASE TargetRefused \/ ImportFails \/ MetaOrphaned \/ StopMissing \/ ContainerMissing
             \/ ImporterKilled
    <2>1. At BY <1>2, ImporterMoves DEF TargetRefused, ImportFails, MetaOrphaned, StopMissing,
                                        ContainerMissing, ImporterKilled, Stages, Stage
    <2> QED
      BY <1>2, <2>1 DEF TargetRefused, ImportFails, MetaOrphaned, StopMissing, ContainerMissing,
                        ImporterKilled, Importers
  <1>3. CASE MetaApplied
    <2>1. At BY <1>3, ImporterMoves DEF MetaApplied, Stages, Stage
    <2> QED BY <1>3, <2>1 DEF MetaApplied, Meta, Owners, Importers
  <1>4. CASE ContainerStopped \/ ContainerRemoved
    <2>1. At BY <1>4, ImporterMoves DEF ContainerStopped, ContainerRemoved, Stages, Stage
    <2> QED BY <1>4, <2>1, ZenonT(60) DEF ContainerStopped, ContainerRemoved, Guests, Importers
  <1>5. CASE ArchiveRestored
    <2>1. At BY <1>5, ImporterMoves DEF ArchiveRestored, Stages
    <2>2. importer.account \in 1..MaxAccounts /\ importer.source \in Modes /\ importer.stack \in Stacks
      BY <1>5 DEF ArchiveRestored, ImportNamed, Importers
    <2>4. Moved(importer.account, importer.source, importer.stack) \in Guests BY <2>2, GuestMade
    <2>3. guest' \in Guests \cup {None}
      BY <1>5, <2>4 DEF ArchiveRestored
    <2> QED BY <1>5, <2>1, <2>3 DEF ArchiveRestored, Importers
  <1>6. CASE ConfigReplaced
    <2>1. At BY <1>6, ImporterMoves DEF ConfigReplaced, Stages, Stage
    <2> QED BY <1>6, <2>1 DEF ConfigReplaced, Guests, Importers
  <1>7. CASE ContainerStarted
    <2>1. At BY <1>7, ImporterMoves DEF ContainerStarted, Stages, Stage
    <2>2. guest \in Guests BY <1>7 DEF ContainerStarted
    <2>3. PICK a \in Address(guest.v4) : guest' = [guest EXCEPT !.running = TRUE, !.address = a]
      BY <1>7 DEF ContainerStarted
    <2>4. guest' \in Guests BY <2>2, <2>3, GuestChanged
    <2> QED BY <1>7, <2>1, <2>4 DEF ContainerStarted, Importers
  <1>8. CASE IdentityRenewed
    <2>1. guest \in Guests BY <1>8 DEF IdentityRenewed
    <2>2. guest' \in {[guest EXCEPT !.identity = "own", !.keys = {}], [guest EXCEPT !.identity = "own"]}
      BY <1>8 DEF IdentityRenewed
    <2>3. guest' \in Guests BY <2>1, <2>2, GuestChanged
    <2>4. At
      <3>1. CASE Quietly("identity", "network", {}) BY <3>1, ImporterQuietly DEF Stages
      <3>2. CASE Quietly("identity", "network", {"clear"}) BY <3>2, ImporterQuietly DEF Stages
      <3> QED BY <1>8, <3>1, <3>2 DEF IdentityRenewed
    <2> QED BY <1>8, <2>3, <2>4 DEF IdentityRenewed
  <1>9. CASE NetworkMadeOwn
    <2>1. guest \in Guests BY <1>9 DEF NetworkMadeOwn
    <2>a. PICK failed \in QuietFailures :
             /\ Quietly("network", "address", failed)
             /\ \E a \in Address(BridgedIPv4(guest.v4, failed)) : guest' = Networked(guest, failed, a)
      BY <1>9 DEF NetworkMadeOwn, Networked
    <2>2. PICK a \in Address(BridgedIPv4(guest.v4, failed)) : guest' = Networked(guest, failed, a)
      BY <2>a
    <2>3. At BY <2>a, QuietlyFailed, ImporterQuietly DEF Stages
    <2>4. guest' \in Guests BY <2>1, <2>2, NetworkSets
    <2> QED BY <1>9, <2>3, <2>4 DEF NetworkMadeOwn
  <1>10. CASE AddressTaken \/ AddressAwaited
    <2>1. importer' \in Importers
      BY <1>10 DEF AddressTaken, AddressAwaited, Stage, Stages, Import, Importers
    <2>2. guest' \in Guests
      BY <1>10 DEF AddressTaken, AddressAwaited, Address, Guests
    <2> QED BY <1>10, <2>1, <2>2 DEF AddressTaken, AddressAwaited
  <1>11. CASE KeysApplied
    <2>1. At
      <3>1. CASE Quietly("keys", "done", {}) BY <3>1, ImporterQuietly DEF Stages
      <3>2. CASE Quietly("keys", "done", {"apply"}) BY <3>2, ImporterQuietly DEF Stages
      <3> QED BY <1>11, <3>1, <3>2 DEF KeysApplied
    <2>2. guest' \in Guests \cup {None} BY <1>11, GuestChanged DEF KeysApplied
    <2> QED BY <1>11, <2>1, <2>2 DEF KeysApplied
  <1>12. CASE UndoImport 
    <2>1. importer' \in Importers BY <1>12, ZenonT(60) DEF UndoImport, Import, Stages, Importers
    <2> QED BY <1>12, <2>1 DEF UndoImport, Withdrawn
  <1>13. CASE PanelRemoves BY <1>13 DEF PanelRemoves
  <1>14. CASE UNCHANGED importVars BY <1>14 DEF importVars
  <1> QED
    BY <1>1, <1>2, <1>3, <1>4, <1>5, <1>6, <1>7, <1>8, <1>9, <1>10, <1>11, <1>12, <1>13, <1>14
    DEF ImportNext, ImportStep

-----------------------------------------------------------------------------
\* What is true of the row and the container while nobody else touches the
\* name: each stage leaves behind it one more thing made this host's own.
Undisturbed ==
    ~meddled /\ importer.at \notin {"target", "undo", "refused", "failed", "killed"} =>
        /\ owner # None /\ owner.account = importer.account
        /\ importer.at # "meta" => owner.meta = Meta
        /\ importer.at \in {"config", "start", "identity", "network", "address", "keys", "done"}
              => guest # None /\ guest.disk = "moved"
        /\ importer.at \in {"start", "identity", "network", "address", "keys", "done"}
              => guest.devices = "own"
        /\ importer.at \in {"identity", "network", "address", "keys", "done"} => guest.running
        /\ importer.at \in {"network", "address", "keys", "done"} => guest.identity = "own"
        /\ importer.at \in {"config", "start", "identity", "network", "address", "keys", "done"}
              => (guest.address # "none" => guest.v4 = "dhcp")
        /\ importer.at \in {"address", "keys", "done"}
              => /\ "ipv6" \notin importer.quiet => guest.v6 = IF mode = "prefix" THEN {"own"} ELSE {}
                 /\ guest.unit = "source" => mode # "prefix" /\ guest.stack = "manager"
        /\ importer.at \in {"keys", "done"} => guest.address = "reserved"
        /\ importer.at \in {"network", "address", "keys", "done"} /\ "clear" \notin importer.quiet
              => guest.keys \subseteq {"owner"}
        /\ importer.at = "done" /\ importer.active /\ "apply" \notin importer.quiet
              => "owner" \in guest.keys /\ "marked" \notin guest.keys

ImportInv == ImportTypeOK /\ ImportNamed /\ AllOrNothing /\ Undisturbed

LEMMA ImportInitially == ImportInit => ImportInv
  <1> SUFFICES ASSUME ImportInit PROVE ImportInv OBVIOUS
  <1>1. PICK source \in Modes, stack \in Stacks, active \in BOOLEAN :
           importer = [at |-> "target", account |-> 0, source |-> source, stack |-> stack,
                       active |-> active, quiet |-> {}, warned |-> FALSE, restarts |-> 0]
    BY DEF ImportInit
  <1>2. owner = None /\ guest = None /\ created = 0 /\ meddled = FALSE /\ mode \in Modes
    BY DEF ImportInit
  <1>3. ImportTypeOK
    <2>1. importer \in Importers BY <1>1, ImportAssumption DEF Importers, Stages
    <2>2. created \in 0..MaxAccounts BY <1>2, ImportAssumption
    <2> QED BY <1>2, <2>1, <2>2 DEF ImportTypeOK
  <1>4. ImportNamed /\ AllOrNothing /\ Undisturbed
    BY <1>1, <1>2 DEF ImportNamed, AllOrNothing, Undisturbed
  <1> QED BY <1>3, <1>4 DEF ImportInv

LEMMA ImportNamedKept ==
    ASSUME ImportInv, [ImportNext]_importVars
    PROVE  ImportNamed'
  <1> USE ImportAssumption DEF ImportInv, ImportTypeOK, ImportNamed, Importers, Stage, Import, Quietly
  <1>1. CASE AccountAdded BY <1>1 DEF AccountAdded
  <1>2. CASE ImportStep /\ ~AccountAdded
    <2>1. CASE TargetRefused \/ MetaApplied \/ MetaOrphaned \/ ContainerStopped \/ StopMissing
      BY <2>1 DEF TargetRefused, MetaApplied, MetaOrphaned, ContainerStopped, StopMissing
    <2>2. CASE ContainerRemoved \/ ArchiveRestored \/ ConfigReplaced \/ ContainerStarted
      BY <2>2 DEF ContainerRemoved, ArchiveRestored, ConfigReplaced, ContainerStarted
    <2>3. CASE IdentityRenewed BY <2>3 DEF IdentityRenewed
    <2>4. CASE NetworkMadeOwn BY <2>4 DEF NetworkMadeOwn
    <2>5. CASE KeysApplied BY <2>5 DEF KeysApplied
    <2>6. CASE AddressTaken \/ AddressAwaited \/ ContainerMissing \/ ImportFails \/ UndoImport
      BY <2>6 DEF AddressTaken, AddressAwaited, ContainerMissing, ImportFails, UndoImport
    <2> QED BY <1>2, <2>1, <2>2, <2>3, <2>4, <2>5, <2>6 DEF ImportStep
  <1>3. CASE ImporterKilled \/ PanelRemoves \/ PanelCreates
    BY <1>3 DEF ImporterKilled, PanelRemoves, PanelCreates
  <1>4. CASE UNCHANGED importVars BY <1>4 DEF importVars
  <1> QED BY <1>1, <1>2, <1>3, <1>4 DEF ImportNext

LEMMA AllOrNothingKept ==
    ASSUME ImportInv, [ImportNext]_importVars
    PROVE  AllOrNothing'
  <1> USE ImportAssumption DEF ImportInv, AllOrNothing, ImportTypeOK, Importers, Stage, Import, Quietly
  <1>1. CASE AccountAdded BY <1>1, GuestMade DEF AccountAdded, Owners
  <1>2. CASE TargetRefused \/ ImportFails \/ MetaOrphaned \/ StopMissing \/ ContainerMissing
             \/ ImporterKilled \/ AddressTaken
    BY <1>2 DEF TargetRefused, ImportFails, MetaOrphaned, StopMissing, ContainerMissing,
                ImporterKilled, AddressTaken
  <1>3. CASE MetaApplied BY <1>3 DEF MetaApplied, Owners, Meta
  <1>4. CASE ContainerStopped \/ ContainerRemoved BY <1>4 DEF ContainerStopped, ContainerRemoved
  <1>5. CASE ArchiveRestored BY <1>5 DEF ArchiveRestored, Undisturbed
  <1>6. CASE ConfigReplaced BY <1>6 DEF ConfigReplaced
  <1>7. CASE ContainerStarted BY <1>7 DEF ContainerStarted
  <1>8. CASE IdentityRenewed BY <1>8 DEF IdentityRenewed
  <1>9. CASE NetworkMadeOwn BY <1>9 DEF NetworkMadeOwn
  <1>10. CASE AddressAwaited BY <1>10 DEF AddressAwaited
  <1>11. CASE KeysApplied BY <1>11 DEF KeysApplied
  <1>12. CASE UndoImport BY <1>12 DEF UndoImport, Withdrawn
  <1>13. CASE PanelRemoves BY <1>13 DEF PanelRemoves
  <1>14. CASE PanelCreates BY <1>14, GuestMade DEF PanelCreates, Fresh, ImportNamed
  <1>15. CASE UNCHANGED importVars BY <1>15 DEF importVars
  <1> QED
    BY <1>1, <1>2, <1>3, <1>4, <1>5, <1>6, <1>7, <1>8, <1>9, <1>10, <1>11, <1>12, <1>13, <1>14,
       <1>15 DEF ImportNext, ImportStep

LEMMA UndisturbedKept ==
    ASSUME ImportInv, [ImportNext]_importVars
    PROVE  Undisturbed'
  <1>q. ASSUME NEW from, NEW to \in Stages,
               NEW failed \in SUBSET {"clear", "ipv4", "ipv6", "apply"}, Quietly(from, to, failed)
        PROVE  /\ importer.at = from /\ importer'.at = to
               /\ importer'.account = importer.account /\ importer'.active = importer.active
               /\ importer'.quiet = importer.quiet \cup failed
    BY <1>q, ImporterQuietly DEF ImportInv
  <1>a. ASSUME IdentityRenewed
        PROVE  /\ importer.at = "identity" /\ importer'.at = "network"
               /\ importer'.account = importer.account
               /\ \/ guest' = [guest EXCEPT !.identity = "own", !.keys = {}]
                  \/ guest' = [guest EXCEPT !.identity = "own"] /\ "clear" \in importer'.quiet
    <2>1. CASE Quietly("identity", "network", {}) /\ guest' = [guest EXCEPT !.identity = "own", !.keys = {}]
      BY <2>1, <1>q DEF Stages
    <2>2. CASE Quietly("identity", "network", {"clear"}) /\ guest' = [guest EXCEPT !.identity = "own"]
      <3>1. Quietly("identity", "network", {"clear"}) BY <2>2
      <3>2. "network" \in Stages /\ {"clear"} \in SUBSET {"clear", "ipv4", "ipv6", "apply"} BY DEF Stages
      <3> QED BY <1>q, <2>2, <3>1, <3>2
    <2> QED BY <1>a, <2>1, <2>2 DEF IdentityRenewed
  <1>b. ASSUME NetworkMadeOwn
        PROVE  \E failed \in QuietFailures :
                  /\ importer.at = "network" /\ importer'.at = "address"
                  /\ importer'.account = importer.account
                  /\ importer'.quiet = importer.quiet \cup failed
                  /\ \E a \in Address(BridgedIPv4(guest.v4, failed)) : guest' = Networked(guest, failed, a)
    <2>1. PICK failed \in QuietFailures :
             /\ Quietly("network", "address", failed)
             /\ \E a \in Address(BridgedIPv4(guest.v4, failed)) : guest' = Networked(guest, failed, a)
      BY <1>b DEF NetworkMadeOwn, Networked
    <2>2. failed \in SUBSET {"clear", "ipv4", "ipv6", "apply"} /\ "address" \in Stages
      BY QuietlyFailed DEF Stages
    <2>3. /\ importer.at = "network" /\ importer'.at = "address"
          /\ importer'.account = importer.account
          /\ importer'.quiet = importer.quiet \cup failed
      BY <1>q, <2>1, <2>2
    <2> QED BY <2>1, <2>3
  <1>c. ASSUME KeysApplied
        PROVE  /\ importer.at = "keys" /\ importer'.at = "done"
               /\ importer'.account = importer.account /\ importer'.active = importer.active
               /\ \/ importer'.quiet = importer.quiet \cup {"apply"} /\ UNCHANGED guest
                  \/ /\ importer'.quiet = importer.quiet
                     /\ guest' = IF KeysToApply /\ guest # None
                                 THEN [guest EXCEPT !.keys = (guest.keys \ {"marked"}) \cup {"owner"}]
                                 ELSE guest
    <2>1. CASE Quietly("keys", "done", {"apply"}) /\ UNCHANGED guest
      BY <2>1, <1>q DEF Stages
    <2>2. CASE Quietly("keys", "done", {}) /\ guest' = IF KeysToApply /\ guest # None
                   THEN [guest EXCEPT !.keys = (guest.keys \ {"marked"}) \cup {"owner"}] ELSE guest
      <3>1. /\ importer.at = "keys" /\ importer'.at = "done"
            /\ importer'.account = importer.account /\ importer'.active = importer.active
            /\ importer'.quiet = importer.quiet \cup {}
        <4>1. Quietly("keys", "done", {}) BY <2>2
        <4>2. "done" \in Stages /\ {} \in SUBSET {"clear", "ipv4", "ipv6", "apply"} BY DEF Stages
        <4> QED BY <1>q, <4>1, <4>2
      <3> QED BY <2>2, <3>1
    <2> QED BY <1>c, <2>1, <2>2 DEF KeysApplied
  <1> USE ImportAssumption DEF ImportInv, Undisturbed, ImportTypeOK, Importers, Stage, Import
  <1>1. CASE AccountAdded BY <1>1, GuestMade DEF AccountAdded, Owners, Meta
  <1>2. CASE TargetRefused \/ ImportFails \/ MetaOrphaned \/ StopMissing \/ ContainerMissing
             \/ ImporterKilled \/ AddressTaken
    BY <1>2 DEF TargetRefused, ImportFails, MetaOrphaned, StopMissing, ContainerMissing,
                ImporterKilled, AddressTaken
  <1>3. CASE MetaApplied BY <1>3 DEF MetaApplied, Owners, Meta
  <1>4. CASE ContainerStopped \/ ContainerRemoved BY <1>4 DEF ContainerStopped, ContainerRemoved
  <1>5. CASE ArchiveRestored
    <2>1. importer.account \in 1..MaxAccounts BY <1>5 DEF ArchiveRestored, ImportNamed
    <2>2. importer.source \in Modes /\ importer.stack \in Stacks BY DEF Importers
    <2>4. Moved(importer.account, importer.source, importer.stack) \in Guests BY <2>1, <2>2, GuestMade
    <2>3. Moved(importer.account, importer.source, importer.stack) # None BY <2>4
    <2> QED BY <1>5, <2>3 DEF ArchiveRestored, Moved
  <1>6. CASE ConfigReplaced
    <2>1. guest \in Guests /\ guest' = [guest EXCEPT !.devices = "own"] BY <1>6 DEF ConfigReplaced
    <2>2. guest' \in Guests BY <2>1 DEF Guests
    <2>3. /\ guest' # None /\ guest'.disk = guest.disk /\ guest'.devices = "own"
          /\ guest'.address = guest.address /\ guest'.v4 = guest.v4
      BY <2>1, <2>2 DEF Guests
    <2>4. /\ importer.at = "config" /\ importer'.at = "start" /\ importer'.account = importer.account
          /\ UNCHANGED <<owner, mode, meddled>>
      BY <1>6 DEF ConfigReplaced
    <2> QED BY <2>3, <2>4
  <1>7. CASE ContainerStarted
    <2>1. guest \in Guests BY <1>7 DEF ContainerStarted
    <2>2. PICK a \in Address(guest.v4) : guest' = [guest EXCEPT !.running = TRUE, !.address = a]
      BY <1>7 DEF ContainerStarted
    <2>5. guest' \in Guests BY <2>1, <2>2, GuestChanged
    <2>3. guest' # None BY <2>5
    <2>4. /\ guest'.disk = guest.disk /\ guest'.devices = guest.devices /\ guest'.running
          /\ guest'.address # "none" => guest'.v4 = "dhcp"
      BY <2>1, <2>2 DEF Guests, Address
    <2> QED BY <1>7, <2>3, <2>4 DEF ContainerStarted
  <1>8. CASE IdentityRenewed
    <2>1. guest \in Guests BY <1>8 DEF IdentityRenewed
    <2>2. UNCHANGED <<owner, mode, meddled>> BY <1>8 DEF IdentityRenewed
    <2>3. CASE guest' = [guest EXCEPT !.identity = "own", !.keys = {}]
      <3>1. guest' # None BY <2>1, <2>3, GuestChanged
      <3>2. /\ guest'.disk = guest.disk /\ guest'.devices = guest.devices
            /\ guest'.running = guest.running /\ guest'.identity = "own"
            /\ guest'.address = guest.address /\ guest'.v4 = guest.v4 /\ guest'.keys = {}
        BY <2>1, <2>3 DEF Guests
      <3> QED BY <1>8, <1>a, <2>2, <3>1, <3>2
    <2>4. CASE guest' = [guest EXCEPT !.identity = "own"] /\ "clear" \in importer'.quiet
      <3>1. guest' # None BY <2>1, <2>4, GuestChanged
      <3>2. /\ guest'.disk = guest.disk /\ guest'.devices = guest.devices
            /\ guest'.running = guest.running /\ guest'.identity = "own"
            /\ guest'.address = guest.address /\ guest'.v4 = guest.v4
        BY <2>1, <2>4 DEF Guests
      <3> QED BY <1>8, <1>a, <2>2, <2>4, <3>1, <3>2
    <2> QED BY <1>8, <1>a, <2>3, <2>4
  <1>9. CASE NetworkMadeOwn
    <2>1. guest \in Guests BY <1>9 DEF NetworkMadeOwn
    <2>2. PICK failed \in QuietFailures :
             /\ importer.at = "network" /\ importer'.at = "address"
             /\ importer'.account = importer.account
             /\ importer'.quiet = importer.quiet \cup failed
             /\ \E a \in Address(BridgedIPv4(guest.v4, failed)) : guest' = Networked(guest, failed, a)
      BY <1>9, <1>b
    <2>3. PICK a \in Address(BridgedIPv4(guest.v4, failed)) : guest' = Networked(guest, failed, a)
      BY <2>2
    <2>4. UNCHANGED <<owner, mode, meddled>> BY <1>9 DEF NetworkMadeOwn
    <2>5. guest' # None BY <2>1, <2>3, NetworkSets
    <2>6. /\ guest'.disk = guest.disk /\ guest'.devices = guest.devices
          /\ guest'.running = guest.running /\ guest'.identity = guest.identity
          /\ guest'.keys = guest.keys
      BY <2>1, <2>3, NetworkSets
    <2>7. /\ "ipv6" \notin importer'.quiet => guest'.v6 = IF mode = "prefix" THEN {"own"} ELSE {}
          /\ guest'.unit = "source" => mode # "prefix" /\ guest'.stack = "manager"
      BY <2>1, <2>2, <2>3, NetworkSets
    <2>8. guest'.v4 \in {guest.v4, "dhcp"}
          /\ (guest'.address # "none" => guest.address # "none" \/ guest'.v4 = "dhcp")
      BY <2>1, <2>3, NetworkSets
    <2> QED BY <2>2, <2>4, <2>5, <2>6, <2>7, <2>8
  <1>10. CASE AddressAwaited
    <2>1. CASE importer.restarts = 0
      <3>1. guest \in Guests BY <1>10 DEF AddressAwaited
      <3>2. PICK a \in Address(guest.v4) : guest' = [guest EXCEPT !.address = a]
        BY <1>10, <2>1 DEF AddressAwaited
      <3>3. guest' # None BY <3>1, <3>2 DEF Guests, Address
      <3>4. /\ guest'.disk = guest.disk /\ guest'.devices = guest.devices
            /\ guest'.running = guest.running /\ guest'.identity = guest.identity
            /\ guest'.v4 = guest.v4 /\ guest'.v6 = guest.v6 /\ guest'.unit = guest.unit
            /\ guest'.stack = guest.stack /\ guest'.keys = guest.keys
            /\ guest'.address # "none" => guest'.v4 = "dhcp"
        BY <3>1, <3>2 DEF Guests, Address
      <3> QED BY <1>10, <2>1, <3>3, <3>4 DEF AddressAwaited
    <2>2. CASE importer.restarts # 0 BY <1>10, <2>2 DEF AddressAwaited
    <2> QED BY <2>1, <2>2
  <1>11. CASE KeysApplied
    <2>1. UNCHANGED <<owner, mode, meddled>> BY <1>11 DEF KeysApplied
    <2>2. CASE importer'.quiet = importer.quiet \cup {"apply"} /\ UNCHANGED guest
      BY <1>11, <1>c, <2>1, <2>2
    <2>3. CASE /\ importer'.quiet = importer.quiet
               /\ guest' = IF KeysToApply /\ guest # None
                           THEN [guest EXCEPT !.keys = (guest.keys \ {"marked"}) \cup {"owner"}]
                           ELSE guest
      <3>1. CASE KeysToApply /\ guest # None
        <4>1. guest \in Guests BY <3>1
        <4>2. guest' = [guest EXCEPT !.keys = (guest.keys \ {"marked"}) \cup {"owner"}] BY <2>3, <3>1
        <4>3. guest' # None BY <4>1, <4>2, GuestChanged
        <4>4. /\ guest'.disk = guest.disk /\ guest'.devices = guest.devices
              /\ guest'.running = guest.running /\ guest'.identity = guest.identity
              /\ guest'.v4 = guest.v4 /\ guest'.v6 = guest.v6 /\ guest'.unit = guest.unit
              /\ guest'.stack = guest.stack /\ guest'.address = guest.address
              /\ guest'.keys = (guest.keys \ {"marked"}) \cup {"owner"}
          BY <4>1, <4>2 DEF Guests
        <4> QED BY <1>11, <1>c, <2>1, <2>3, <4>3, <4>4
      <3>2. CASE ~(KeysToApply /\ guest # None)
        <4>1. UNCHANGED guest BY <2>3, <3>2
        <4>2. ~meddled => ~importer.active BY <1>11, <1>c, <3>2 DEF KeysToApply, Meta
        <4> QED BY <1>11, <1>c, <2>1, <2>3, <4>1, <4>2
      <3> QED BY <3>1, <3>2
    <2> QED BY <1>11, <1>c, <2>2, <2>3
  <1>12. CASE UndoImport
    <2>1. importer'.at = "failed" BY <1>12 DEF UndoImport
    <2> QED BY <2>1
  <1>13. CASE PanelRemoves BY <1>13 DEF PanelRemoves
  <1>14. CASE PanelCreates BY <1>14 DEF PanelCreates
  <1>15. CASE UNCHANGED importVars BY <1>15 DEF importVars
  <1> QED
    BY <1>1, <1>2, <1>3, <1>4, <1>5, <1>6, <1>7, <1>8, <1>9, <1>10, <1>11, <1>12, <1>13, <1>14,
       <1>15 DEF ImportNext, ImportStep

LEMMA ImportInductive == ImportSpec => []ImportInv
  <1>1. ImportInv /\ [ImportNext]_importVars => ImportInv'
    BY ImportTypedKept, ImportNamedKept, AllOrNothingKept, UndisturbedKept DEF ImportInv
  <1> QED BY <1>1, ImportInitially, PTL DEF ImportSpec

\* Whatever fails or dies and whatever the panel does to the name meanwhile: an
\* import that failed and did not warn has left nothing.
THEOREM ImportLeavesNothing == ImportSpec => []AllOrNothing
  <1>1. ImportInv => AllOrNothing BY DEF ImportInv
  <1> QED BY <1>1, ImportInductive, PTL

\* An import that succeeded is this host's own in devices, identity and addresses,
\* and nobody has kept a way in, whichever of the calls that may fail without
\* ending it have failed and as far as those that did not reach, for every number
\* of accounts, every pair of IPv6 modes and either network stack of the guest.
THEOREM ImportIsSafe == ImportSpec => []ImportSafe
  <1>1. ImportInv => ImportSafe
    BY DEF ImportInv, Undisturbed, AllOrNothing, AtHome, ImportSafe
  <1> QED BY <1>1, ImportInductive, PTL

=============================================================================
