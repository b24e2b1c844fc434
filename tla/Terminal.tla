------------------------------ MODULE Terminal ------------------------------
(***************************************************************************)
(* The web terminal of one account (panel/terminal.go): shells that outlive*)
(* the WebSocket that opened them, a registry with a cap, a grace period.  *)
(*                                                                         *)
(*   pty         of each shell: none, running, closing (Close called, the  *)
(*               pump drains) or gone                                      *)
(*   registered  the shells of termRegistry                                *)
(*   closed      termSession.closed                                        *)
(*   sink        the connection a shell's output goes to                   *)
(*   grace       expire is set; expired: its goroutine is about to close   *)
(*   pump        the connection the pump writes to, outside the lock       *)
(*   conn        what each connection's handler is at, and with which shell*)
(*   vanished    connections whose peer has gone without a word            *)
(*                                                                         *)
(* The bytes themselves and the replay buffer are left out.                *)
(***************************************************************************)
EXTENDS Host

CONSTANTS
    Shells,        \* tokens
    Connections,   \* WebSocket connections of the account's windows
    MaxPerUser     \* termMaxPerUser: 2

ASSUME TerminalAssumption == MaxPerUser \in Nat \ {0} /\ None \notin Shells \cup Connections

VARIABLES pty, registered, closed, sink, grace, expired, pump, conn, vanished

terminalVars == <<pty, registered, closed, sink, grace, expired, pump, conn, vanished>>
session == <<registered, closed, sink, grace, expired>>

Free == [at |-> "free", shell |-> None, doomed |-> {}]

TerminalInit ==
    /\ pty = [s \in Shells |-> "none"] /\ registered = {} /\ closed = {}
    /\ sink = [s \in Shells |-> None] /\ grace = {} /\ expired = {}
    /\ pump = [s \in Shells |-> None]
    /\ conn = [c \in Connections |-> Free] /\ vanished = {}

Moves(c, at) == conn' = [conn EXCEPT ![c].at = at]
HangsUp(c) == conn' = [conn EXCEPT ![c] = Free] /\ vanished' = vanished \ {c}

-----------------------------------------------------------------------------
(* handleTerminal *)

\* The hello frame, with the token the page remembers or none.  lookup finds a
\* registered shell that is not closing.
Hello(c, token) ==
    /\ conn[c] = Free
    /\ conn' = [conn EXCEPT ![c] = IF token \in registered \ closed
                                   THEN [Free EXCEPT !.at = "attach", !.shell = token]
                                   ELSE [Free EXCEPT !.at = "cap"]]
    /\ UNCHANGED <<pty, session, pump, vanished>>

AtCap == Cardinality(registered) >= MaxPerUser

CheckCap(c) ==
    /\ conn[c].at = "cap" /\ Moves(c, IF AtCap THEN "busy" ELSE "open")
    /\ UNCHANGED <<pty, session, pump, vanished>>

\* takeover, as the answer to "busy" or while a shell is served: killOthers
\* picks the shells, then closes them one by one.
Takeover(c) ==
    /\ conn[c].at \in {"busy", "serve"} /\ c \notin vanished
    /\ conn' = [conn EXCEPT ![c].at = IF @ = "busy" THEN "kill" ELSE "kill_others",
                            ![c].doomed = registered \ {conn[c].shell}]
    /\ UNCHANGED <<pty, session, pump, vanished>>

Close(s) ==
    IF s \in closed THEN UNCHANGED <<pty, session>>
    ELSE /\ closed' = closed \cup {s} /\ grace' = grace \ {s}
         /\ registered' = registered \ {s} /\ pty' = [pty EXCEPT ![s] = "closing"]
         /\ UNCHANGED <<sink, expired>>

KillOne(c) ==
    /\ conn[c].at \in {"kill", "kill_others"}
    /\ \E s \in conn[c].doomed :
          /\ Close(s)
          /\ conn' = [conn EXCEPT ![c].doomed = @ \ {s}]
    /\ UNCHANGED <<pump, vanished>>

Killed(c) ==
    /\ conn[c].at \in {"kill", "kill_others"} /\ conn[c].doomed = {}
    /\ Moves(c, IF conn[c].at = "kill" THEN "open" ELSE "serve")
    /\ UNCHANGED <<pty, session, pump, vanished>>

\* AttachTerminal.
OpenPty(c) ==
    /\ conn[c].at = "open"
    /\ \/ \E s \in Shells : /\ pty[s] = "none"
                            /\ pty' = [pty EXCEPT ![s] = "running"]
                            /\ conn' = [conn EXCEPT ![c].at = "create", ![c].shell = s]
                            /\ UNCHANGED vanished
       \/ CanFail("attach") /\ HangsUp(c) /\ UNCHANGED pty
    /\ UNCHANGED <<session, pump>>

\* termRegistry.create looks at the cap again; a shell it refuses is closed.
CapTrusted == FALSE                                                \* mutant
Refuses == AtCap
Refused(s) == [pty EXCEPT ![s] = "gone"]
Create(c) ==
    LET s == conn[c].shell IN
    /\ conn[c].at = "create"
    /\ IF Refuses
       THEN pty' = Refused(s) /\ HangsUp(c) /\ UNCHANGED registered
       ELSE /\ registered' = registered \cup {s} /\ Moves(c, "attach")
            /\ UNCHANGED <<pty, vanished>>
    /\ UNCHANGED <<closed, sink, grace, expired, pump>>

\* termSession.attach, and the loop of serveTermClient begins.
Attach(c) ==
    LET s == conn[c].shell IN
    /\ conn[c].at = "attach" /\ Moves(c, "serve")
    /\ grace' = grace \ {s} /\ sink' = [sink EXCEPT ![s] = c]
    /\ UNCHANGED <<pty, registered, closed, expired, pump, vanished>>

\* termSession.detach.
NotArmed(s) == grace                                               \* mutant
GraceAfter(s) == grace \cup {s}
Detach(s) ==
    IF s \in closed \/ sink[s] = None THEN UNCHANGED <<sink, grace>>
    ELSE sink' = [sink EXCEPT ![s] = None] /\ grace' = GraceAfter(s)

\* The peer closes, a minute passes in silence, or keystrokes meet a dead PTY.
LeaveShell(c) ==
    /\ conn[c].at = "serve" /\ HangsUp(c) /\ Detach(conn[c].shell)
    /\ UNCHANGED <<pty, registered, closed, expired, pump>>

\* Before a shell is there the peer closes or does not answer.
GiveUpConnection(c) ==
    /\ conn[c].at = "busy" /\ HangsUp(c)
    /\ UNCHANGED <<pty, session, pump>>

Vanish(c) ==
    /\ CanFail("vanish") /\ conn[c] # Free /\ c \notin vanished /\ vanished' = vanished \cup {c}
    /\ UNCHANGED <<pty, session, pump, conn>>

-----------------------------------------------------------------------------
(* The session's own goroutines *)

\* The pump takes a chunk for the sink it sees, and writes it outside the lock.
PumpTakes(s) ==
    /\ pty[s] \in {"running", "closing"} /\ pump[s] = None /\ sink[s] # None
    /\ pump' = [pump EXCEPT ![s] = sink[s]]
    /\ UNCHANGED <<pty, session, conn, vanished>>

\* A write to a connection that is gone fails, and the pump detaches whoever
\* is attached by then.
PumpWrites(s) ==
    /\ pump[s] # None /\ pump' = [pump EXCEPT ![s] = None]
    /\ IF pump[s] \in vanished \/ conn[pump[s]].shell # s
       THEN Detach(s) \/ UNCHANGED <<sink, grace>>
       ELSE UNCHANGED <<sink, grace>>
    /\ UNCHANGED <<pty, registered, closed, expired, conn, vanished>>

\* time.AfterFunc: once it has fired, Stop comes too late.
GraceEnds(s) ==
    /\ s \in grace /\ grace' = grace \ {s} /\ expired' = expired \cup {s}
    /\ UNCHANGED <<pty, registered, closed, sink, pump, conn, vanished>>

GraceCloses(s) ==
    /\ s \in expired
    /\ expired' = expired \ {s}
    /\ IF s \in closed THEN UNCHANGED <<pty, registered, closed, grace>>
       ELSE /\ closed' = closed \cup {s} /\ grace' = grace \ {s}
            /\ registered' = registered \ {s} /\ pty' = [pty EXCEPT ![s] = "closing"]
    /\ UNCHANGED <<sink, pump, conn, vanished>>

\* The output ends, because the shell exits or was closed: finish.
PumpEnds(s) ==
    /\ pump[s] = None /\ (s \in registered \/ pty[s] = "closing") /\ pty[s] # "gone"
    /\ pty' = [pty EXCEPT ![s] = "gone"]
    /\ closed' = closed \cup {s} /\ registered' = registered \ {s}
    /\ sink' = [sink EXCEPT ![s] = None] /\ grace' = grace \ {s}
    /\ UNCHANGED <<expired, pump, conn, vanished>>

\* A token nothing names any more stands for a new one.
NewToken(s) ==
    /\ pty[s] = "gone" /\ s \notin expired /\ pump[s] = None
    /\ \A c \in Connections : conn[c].shell # s /\ s \notin conn[c].doomed
    /\ pty' = [pty EXCEPT ![s] = "none"] /\ closed' = closed \ {s}
    /\ sink' = [sink EXCEPT ![s] = None]
    /\ UNCHANGED <<registered, grace, expired, pump, conn, vanished>>

TerminalNext ==
    \/ \E c \in Connections :
          \/ \E token \in Shells \cup {None} : Hello(c, token)
          \/ CheckCap(c) \/ Takeover(c) \/ KillOne(c) \/ Killed(c)
          \/ OpenPty(c) \/ Create(c) \/ Attach(c)
          \/ LeaveShell(c) \/ GiveUpConnection(c) \/ Vanish(c)
    \/ \E s \in Shells :
          PumpTakes(s) \/ PumpWrites(s) \/ GraceEnds(s) \/ GraceCloses(s) \/ PumpEnds(s)
    \/ \E s \in Shells : NewToken(s)

\* Handlers and goroutines go on, timers fire, the read deadline notices a peer
\* that has gone; what shells and users do is up to them.
TerminalFairness ==
    /\ \A c \in Connections :
          /\ WF_terminalVars(CheckCap(c) \/ KillOne(c) \/ Killed(c) \/ OpenPty(c)
                             \/ Create(c) \/ Attach(c) \/ GiveUpConnection(c))
          /\ WF_terminalVars(c \in vanished /\ LeaveShell(c))
    /\ \A s \in Shells :
          /\ WF_terminalVars(PumpWrites(s)) /\ WF_terminalVars(GraceEnds(s))
          /\ WF_terminalVars(GraceCloses(s)) /\ WF_terminalVars(pty[s] = "closing" /\ PumpEnds(s))

TerminalSpec == TerminalInit /\ [][TerminalNext]_terminalVars

-----------------------------------------------------------------------------
(* Properties *)

TerminalTypeOK ==
    /\ pty \in [Shells -> {"none", "running", "closing", "gone"}]
    /\ registered \subseteq Shells /\ closed \subseteq Shells
    /\ grace \subseteq Shells /\ expired \subseteq Shells
    /\ sink \in [Shells -> Connections \cup {None}] /\ pump \in [Shells -> Connections \cup {None}]
    /\ vanished \subseteq Connections

Serves(c, s) == conn[c].shell = s /\ conn[c].at \in {"attach", "serve", "kill_others"}

\* "One account, two shells": however many windows open, take over and resume
\* at once, the registry holds at most termMaxPerUser shells, and every shell
\* that runs is registered, so that a takeover or the grace period can end it
\* (create, which looks at the cap again after the shell has been started).
ShellsAccounted ==
    /\ Cardinality(registered) <= MaxPerUser
    /\ \A s \in Shells : pty[s] = "running" =>
          s \in registered \/ \E c \in Connections : conn[c].at = "create" /\ conn[c].shell = s

\* "without leaving an unattended root shell much longer" (termGrace): a shell
\* that no window serves ends, unless a window resumes it.
UnattendedEnds ==
    \A s \in Shells :
        (pty[s] = "running" /\ s \in registered /\ \A c \in Connections : ~Serves(c, s))
            ~> (pty[s] = "gone" \/ \E c \in Connections : Serves(c, s))

\* "when the client goes away the PTY keeps running for 120 seconds" (web-ssh.md,
\* termSession): the grace period runs only while no window is there.  Broken by
\* the detach of a connection that a resumed one has replaced.
GraceOnlyWhenAway ==
    \A s \in grace, c \in Connections :
        conn[c].shell = s /\ conn[c].at \in {"serve", "kill_others"} => c \in vanished

=============================================================================
