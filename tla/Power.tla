------------------------------- MODULE Power -------------------------------
(***************************************************************************)
(* Power operations and the validity of an account (Manager.Power,         *)
(* mgr/expiry.go) for one container.                                       *)
(*                                                                         *)
(*   container  is it running, and its boot.autostart                      *)
(*   deadline   users.expires_at: a time, or None for a permanent account  *)
(*   clock      the time, in units of the shortest extension               *)
(*   ready      users.status: a Reinstall is not under way                 *)
(*   admitted   the power operation or reinstall that has been admitted    *)
(*   check      EnforceQuotaExpiry, with what it has read                  *)
(*   extending  each extension form: the deadline it has read              *)
(*   enforced   history: a pass has begun ("clear"), and has stopped the   *)
(*              container ("yes"), with nobody admitted or granted time    *)
(*              since it began                                             *)
(***************************************************************************)
EXTENDS Host

CONSTANTS
    Extenders, \* admin forms that extend a deadline
    MaxClock   \* bound: the last point of time

ASSUME PowerBounds == MaxClock \in Nat /\ None \notin Nat

VARIABLES container, deadline, clock, ready, admitted, check, extending, enforced

powerVars == <<container, deadline, clock, ready, admitted, check, extending, enforced>>

Times == 0..(2 * MaxClock)
NotExtending == MaxClock * 2 + 1

PowerInit ==
    /\ container = [up |-> TRUE, auto |-> TRUE]
    /\ deadline \in {None, 0} /\ clock = 0 /\ ready = TRUE
    /\ admitted = "none" /\ check = "idle"
    /\ extending = [e \in Extenders |-> NotExtending]
    /\ enforced = "no"

IsExpired(d, now) == d # None /\ d < now
Expired == IsExpired(deadline, clock)

-----------------------------------------------------------------------------
(* The clock, the guest and the host *)

Tick == /\ clock < MaxClock /\ clock' = clock + 1
        /\ UNCHANGED <<container, deadline, ready, admitted, check, extending, enforced>>

GuestShutdown == /\ container.up /\ container' = [container EXCEPT !.up = FALSE]
                 /\ UNCHANGED <<deadline, clock, ready, admitted, check, extending, enforced>>

\* Incus starts what has boot.autostart; every process of vpsmgr is gone until
\* the panel starts, and a reinstall that was under way leaves the account not
\* ready.
HostReboot ==
    /\ CanFail("host")
    /\ container' = [container EXCEPT !.up = container.auto]
    /\ admitted' = "none" /\ check' = "boot" /\ extending' = [e \in Extenders |-> NotExtending]
    /\ UNCHANGED <<deadline, clock, ready, enforced>>

-----------------------------------------------------------------------------
(* Power and Reinstall *)

\* requireActive and requireTargetActive admit only while the account is valid;
\* the command line does not ask.
Admit ==
    /\ admitted = "none" /\ check # "boot"
    /\ \E action \in {"start", "stop", "restart", "reinstall"} :
          /\ admitted' = action /\ (action = "reinstall" => ready' = FALSE)
          /\ (action # "reinstall" => UNCHANGED ready)
    /\ Expired => CanFail("cli") /\ admitted' # "reinstall"
    /\ enforced' = "no"
    /\ UNCHANGED <<container, deadline, clock, check, extending>>

\* SetAutostart comes first: a call that fails ends the operation.
PowerAutostart ==
    /\ admitted \in {"start", "stop", "restart"}
    /\ \/ container' = [container EXCEPT !.auto = (admitted # "stop")]
          /\ admitted' = IF admitted = "stop" THEN "act_stop" ELSE "act_start"
       \/ CanFail("incus") /\ admitted' = "none" /\ UNCHANGED container
    /\ UNCHANGED <<deadline, clock, ready, check, extending, enforced>>

PowerAct ==
    /\ admitted \in {"act_start", "act_stop"}
    /\ \/ container' = [container EXCEPT !.up = (admitted = "act_start")]
       \/ CanFail("incus") /\ UNCHANGED container
    /\ admitted' = "none"
    /\ UNCHANGED <<deadline, clock, ready, check, extending, enforced>>

\* The container is replaced by one that runs and starts with the host; a
\* reinstall that failed is followed by another.
Relaunched ==
    /\ admitted = "reinstall"
    /\ \/ container' = [up |-> TRUE, auto |-> TRUE] /\ ready' = TRUE
       \/ CanFail("incus") /\ UNCHANGED <<container, ready>>
    /\ admitted' = "none"
    /\ UNCHANGED <<deadline, clock, check, extending, enforced>>

-----------------------------------------------------------------------------
(* EnforceQuotaExpiry, once a minute *)

PanelStarts ==
    /\ check = "boot" /\ check' = "idle"
    /\ UNCHANGED <<container, deadline, clock, ready, admitted, extending, enforced>>

ExpiryList ==
    /\ check = "idle"
    /\ ready /\ Expired
    /\ check' = "state"
    /\ enforced' = IF enforced = "no" /\ admitted = "none" THEN "clear" ELSE enforced
    /\ UNCHANGED <<container, deadline, clock, ready, admitted, extending>>

ExpiryState ==
    /\ check = "state"
    /\ check' = IF container.up THEN "autostart" ELSE "idle"
    /\ UNCHANGED <<container, deadline, clock, ready, admitted, extending, enforced>>

ExpiryStateFails ==
    /\ check = "state" /\ CanFail("incus") /\ check' = "idle"
    /\ UNCHANGED <<container, deadline, clock, ready, admitted, extending, enforced>>

ExpiryLeaveAutostart ==                                            \* mutant
    /\ check = "autostart" /\ check' = "stop"
    /\ UNCHANGED <<container, deadline, clock, ready, admitted, extending, enforced>>

ExpiryOnce ==                                                      \* mutant
    /\ check = "autostart" /\ check' = IF container.auto THEN "stop" ELSE "idle"
    /\ container' = [container EXCEPT !.auto = FALSE]
    /\ UNCHANGED <<deadline, clock, ready, admitted, extending, enforced>>

ExpiryAutostart ==
    /\ check = "autostart"
    /\ \/ container' = [container EXCEPT !.auto = FALSE] /\ check' = "stop"
       \/ CanFail("incus") /\ check' = "idle" /\ UNCHANGED container
    /\ UNCHANGED <<deadline, clock, ready, admitted, extending, enforced>>

ExpiryForceStop ==
    /\ check = "stop"
    /\ \/ /\ container' = [container EXCEPT !.up = FALSE]
          /\ enforced' = IF enforced = "clear" THEN "yes" ELSE enforced
       \/ CanFail("incus") /\ UNCHANGED <<container, enforced>>
    /\ check' = "idle"
    /\ UNCHANGED <<deadline, clock, ready, admitted, extending>>

ExpiryPass ==
    PanelStarts \/ ExpiryList \/ ExpiryState \/ ExpiryStateFails \/ ExpiryAutostart \/ ExpiryForceStop

-----------------------------------------------------------------------------
(* Deadlines *)

\* SetExpiry, permanent; ExtendExpiryFor reads the row, then writes the later of
\* now and what it read, plus the duration.
SetForever ==
    /\ deadline # None /\ deadline' = None /\ enforced' = "no"
    /\ UNCHANGED <<container, clock, ready, admitted, check, extending>>

Permanent == 0   \* ExtendExpiry takes "" as a deadline that has passed
ExtendRead(e) ==
    /\ extending[e] = NotExtending /\ check # "boot"
    /\ extending' = [extending EXCEPT ![e] = IF deadline = None THEN Permanent ELSE deadline]
    /\ UNCHANGED <<container, deadline, clock, ready, admitted, check, enforced>>

Extended(d, now, by) == (IF d > now THEN d ELSE now) + by
ExtendWrite(e) ==
    /\ extending[e] # NotExtending
    /\ \E by \in 1..MaxClock :
          /\ Extended(extending[e], clock, by) \in Times
          /\ deadline' = Extended(extending[e], clock, by)
    /\ extending' = [extending EXCEPT ![e] = NotExtending]
    /\ enforced' = "no"
    /\ UNCHANGED <<container, clock, ready, admitted, check>>

PowerNext ==
    \/ Tick \/ GuestShutdown \/ HostReboot
    \/ Admit \/ PowerAutostart \/ PowerAct \/ Relaunched
    \/ ExpiryPass \/ SetForever
    \/ \E e \in Extenders : ExtendRead(e) \/ ExtendWrite(e)

PowerSpec == PowerInit /\ [][PowerNext]_powerVars

\* The sampler's ticker never stops; no call waits for ever or fails for ever;
\* the host is not rebooted for ever.
PowerFairness ==
    /\ <>[][~HostReboot]_powerVars
    /\ WF_powerVars(ExpiryPass)
    /\ SF_powerVars(ExpiryState)
    /\ SF_powerVars(ExpiryAutostart /\ check' = "stop")
    /\ SF_powerVars(ExpiryForceStop /\ ~container'.up)

-----------------------------------------------------------------------------
(* Properties *)

PowerTypeOK ==
    /\ container \in [up: BOOLEAN, auto: BOOLEAN]
    /\ deadline \in Times \cup {None} /\ clock \in 0..MaxClock
    /\ ready \in BOOLEAN /\ enforced \in {"no", "clear", "yes"}
    /\ admitted \in {"none", "start", "stop", "restart", "reinstall", "act_start", "act_stop"}
    /\ check \in {"boot", "idle", "state", "autostart", "stop"}
    /\ extending \in [Extenders -> Times \cup {NotExtending}]

\* "Autostart is disabled so the container cannot come back on its own": what
\* the pass has stopped stays down over host reboots while the account is
\* expired, unless somebody was admitted since (EnforceQuotaExpiry).
ExpiredStaysDown == enforced = "yes" /\ Expired => ~container.up

\* A ready account that stays expired is stopped again and again, over failed
\* calls, host reboots, operations admitted before the deadline and starts from
\* the command line (EnforceQuotaExpiry: "a manual start is re-stopped").
ExpiredIsStopped == <>[](Expired /\ ready) => []<>(~container.up)

=============================================================================
