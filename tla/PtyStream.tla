------------------------------ MODULE PtyStream ------------------------------
(***************************************************************************)
(* One interactive exec session (lx/attach.go): the read loops of its      *)
(* websockets, the control drain, the monitor of the operation record, and *)
(* a teardown that any of them or Close may start.                         *)
(*                                                                         *)
(*   fds     the sockets the server handed out, but for the control channel*)
(*   reader  of each fd: unborn, reading, sending (to out), stopped; late  *)
(*          when it began on a socket that was already closed              *)
(*   torn    finish has run: done is closed and so is every socket         *)
(*   output  out: open or closed                                           *)
(*   queued  chunks in out; shellAlive: the login shell runs               *)
(*   sentOnClosed         a send met a closed channel, which panics        *)
(***************************************************************************)
EXTENDS Host

CONSTANTS
    StreamFds,  \* the sockets that carry output
    Backlog     \* the capacity of out: 128

ASSUME StreamAssumption == StreamFds # {} /\ Backlog \in Nat

VARIABLES reader, torn, output, queued, shellAlive, sentOnClosed

streamVars == <<reader, torn, output, queued, shellAlive, sentOnClosed>>

StreamInit ==
    /\ reader = [f \in StreamFds |-> "unborn"] /\ torn = FALSE /\ output = "open" /\ queued = 0
    /\ shellAlive = TRUE /\ sentOnClosed = FALSE

Live == {f \in StreamFds : reader[f] \in {"reading", "sending", "late"}}

\* Attach's loop: wg.Add(1), go readLoop.
StartReader(f) ==
    /\ reader[f] = "unborn"
    /\ reader' = [reader EXCEPT ![f] = IF torn THEN "late" ELSE "reading"]
    /\ UNCHANGED <<torn, output, queued, shellAlive, sentOnClosed>>

\* A message arrives, or was in the buffer when the socket was closed; with the
\* exit marker in it, scanExit tears down first.
ReadMessage(f) ==
    /\ reader[f] = "reading" /\ reader' = [reader EXCEPT ![f] = "sending"]
    /\ torn' \in {torn, torn \/ ~shellAlive}
    /\ UNCHANGED <<output, queued, shellAlive, sentOnClosed>>

\* The socket is closed, here or by the server.
ReadError(f) ==
    /\ reader[f] \in {"reading", "late"} /\ (torn \/ CanFail("socket"))
    /\ reader' = [reader EXCEPT ![f] = "stopped"] /\ torn' = TRUE
    /\ UNCHANGED <<output, queued, shellAlive, sentOnClosed>>

\* select: out has room, or done is closed; with both Go picks either.
SendOutput(f) ==
    /\ reader[f] = "sending" /\ (queued < Backlog \/ output = "closed")
    /\ reader' = [reader EXCEPT ![f] = "reading"]
    /\ IF output = "closed" THEN sentOnClosed' = TRUE /\ UNCHANGED queued
       ELSE queued' = queued + 1 /\ UNCHANGED sentOnClosed
    /\ UNCHANGED <<torn, output, shellAlive>>

SeeDone(f) ==
    /\ reader[f] = "sending" /\ torn /\ reader' = [reader EXCEPT ![f] = "stopped"]
    /\ UNCHANGED <<torn, output, queued, shellAlive, sentOnClosed>>

\* The consumer of Output.
Consume ==
    /\ queued > 0 /\ queued' = queued - 1
    /\ UNCHANGED <<reader, torn, output, shellAlive, sentOnClosed>>

ShellExits ==
    /\ shellAlive /\ shellAlive' = FALSE
    /\ UNCHANGED <<reader, torn, output, queued, sentOnClosed>>

\* monitor: only a definite end of the operation counts; or the session's Close.
TearDown ==
    /\ ~torn /\ torn' = TRUE
    /\ UNCHANGED <<reader, output, queued, shellAlive, sentOnClosed>>

\* wg.Wait, then close(out).
MayClose == Live = {}
CloseOutput ==
    /\ torn /\ output = "open" /\ MayClose /\ output' = "closed"
    /\ UNCHANGED <<reader, torn, queued, shellAlive, sentOnClosed>>

StreamNext ==
    \/ \E f \in StreamFds :
          StartReader(f) \/ ReadMessage(f) \/ ReadError(f) \/ SendOutput(f) \/ SeeDone(f)
    \/ Consume \/ ShellExits \/ TearDown \/ CloseOutput

StreamSpec == StreamInit /\ [][StreamNext]_streamVars

StreamTypeOK ==
    /\ reader \in [StreamFds -> {"unborn", "reading", "sending", "late", "stopped"}]
    /\ {torn, shellAlive, sentOnClosed} \subseteq BOOLEAN /\ queued \in 0..Backlog
    /\ output \in {"open", "closed"}

\* "closing it here would race a read loop that is mid-send and panic on 'send
\* on closed channel'" (finish): nothing is ever sent after the close.
NoSendOnClosed == ~sentOnClosed

=============================================================================
