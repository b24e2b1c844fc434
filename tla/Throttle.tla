------------------------------ MODULE Throttle ------------------------------
(***************************************************************************)
(* Monthly traffic and the bandwidth throttle (mgr/resource.go,            *)
(* mgr/bandwidth.go, db/resource.go) for one account; accounts do not      *)
(* touch each other here.                                                  *)
(*                                                                         *)
(*   box        the container: is it there, running, which boot, its byte  *)
(*              counter of this boot, whether its NIC carries the limit    *)
(*   traffic    the row of the table bandwidth                             *)
(*   allowance  users.bandwidth_quota, 0 for unlimited                     *)
(*   month      the quota period the clock is in                           *)
(*   throttled  the panel's entry of the map m.throttled; "nil" until the  *)
(*              first pass after a start                                   *)
(*   pass       the sampler goroutine and what it holds                    *)
(*   resetting   the handler ResetBandwidth, between its two halves        *)
(*   reinstalling   Reinstall (or ReinstallFromShare): "no" when the row   *)
(*              is ready and none runs, "failed" when the last one ended   *)
(*              without the row being ready again, else where it is        *)
(*                                                                         *)
(* rx and tx are accounted by the same rule; one counter stands for both.  *)
(***************************************************************************)
EXTENDS Host

CONSTANTS
    Allowance,  \* the quota in bytes
    MaxMoved,   \* bound: bytes ever moved
    MaxBoots,   \* bound: boots of the container
    MaxMonth    \* bound: the last period

ASSUME ThrottleBounds ==
    /\ Allowance \in Nat \ {0} /\ MaxMoved \in Nat /\ MaxBoots \in Nat \ {0}
    /\ MaxMonth \in Nat

VARIABLES box, traffic, allowance, month, throttled, pass, resetting,
          reinstalling,
          moved   \* history: bytes the counters have shown (all), those of them
                  \* recorded (seen) and those recorded before the totals last
                  \* went to zero (spent)

throttleVars == <<box, traffic, allowance, month, throttled, pass, resetting,
                  reinstalling, moved>>

NoPass == [at |-> "idle", bytes |-> 0, boot |-> 0, all |-> 0, quota |-> 0, over |-> FALSE]

ThrottleInit ==
    /\ box = [there |-> TRUE, up |-> TRUE, boot |-> 1, bytes |-> 0, limited |-> FALSE]
    /\ traffic = [period |-> 0, total |-> 0, last |-> 0, boot |-> 1]
    /\ allowance = Allowance /\ month = 0
    /\ throttled = "nil" /\ pass = NoPass
    /\ resetting = FALSE /\ reinstalling = "no"
    /\ moved = [all |-> 0, seen |-> 0, spent |-> 0]

-----------------------------------------------------------------------------
(* The container and the clock *)

Traffic ==
    /\ box.up /\ moved.all < MaxMoved
    /\ box' = [box EXCEPT !.bytes = @ + 1]
    /\ moved' = [moved EXCEPT !.all = @ + 1]
    /\ UNCHANGED <<traffic, allowance, month, throttled, pass, resetting, reinstalling>>

\* A new boot starts its counter at 0; what the old one moved since the last
\* reading is gone for good.
Shown == IF pass.at = "record" THEN pass.all ELSE moved.seen
Reboot(b) == [b EXCEPT !.up = TRUE, !.boot = @ + 1, !.bytes = 0]

NoReinstall == reinstalling \in {"no", "failed"}

Restart ==
    /\ box.there /\ box.boot < MaxBoots /\ NoReinstall
    /\ box' = Reboot(box)
    /\ moved' = [moved EXCEPT !.all = Shown]
    /\ UNCHANGED <<traffic, allowance, month, throttled, pass, resetting, reinstalling>>

NextMonth ==
    /\ month < MaxMonth /\ month' = month + 1
    /\ UNCHANGED <<box, traffic, allowance, throttled, pass, resetting, reinstalling, moved>>

\* UpdateBandwidthQuota, one UPDATE.
SetAllowance ==
    /\ allowance' \in {0, Allowance} \ {allowance}
    /\ UNCHANGED <<box, traffic, month, throttled, pass, resetting, reinstalling, moved>>

-----------------------------------------------------------------------------
(* SampleResources: one snapshot of all counters, then one transaction.    *)

\* A container that does not run has no observation.
SampleResources ==
    /\ pass.at = "idle"
    /\ \/ /\ box.up
          /\ pass' = [NoPass EXCEPT !.at = "record", !.bytes = box.bytes, !.boot = box.boot,
                                    !.all = moved.all]
       \/ (~box.up \/ CanFail("metrics")) /\ pass' = [NoPass EXCEPT !.at = "list"]
    /\ UNCHANGED <<box, traffic, allowance, month, throttled, resetting, reinstalling, moved>>

\* The delta of bandwidthUpsert.  A counter at or above the baseline is taken
\* as the same boot's.
DeltaAnyDrop(t, bytes, boot) == IF bytes >= t.last THEN bytes - t.last ELSE bytes + t.last \* mutant
Delta(t, bytes, boot) ==
    IF bytes >= t.last THEN bytes - t.last
    ELSE IF boot # t.boot THEN bytes ELSE 0

RecordResourceSamples ==
    LET rolled == traffic.period # month IN
    /\ pass.at = "record"
    /\ \/ /\ traffic' = [period |-> month, last |-> pass.bytes, boot |-> pass.boot,
                         total |-> (IF rolled THEN 0 ELSE traffic.total)
                                      + Delta(traffic, pass.bytes, pass.boot)]
          /\ moved' = [moved EXCEPT !.seen = pass.all,
                                    !.spent = IF rolled THEN moved.seen ELSE @]
       \/ CanFail("traffic_db") /\ UNCHANGED <<traffic, moved>>
    /\ pass' = [NoPass EXCEPT !.at = "list"]
    /\ UNCHANGED <<box, allowance, month, throttled, resetting, reinstalling>>

-----------------------------------------------------------------------------
(* EnforceBandwidthLimits, under limitMu from the list of users to the end *)

LimitMuFree == pass.at \notin {"decide", "set"}

PrimeEmpty(t) == IF t = "nil" THEN "off" ELSE t                   \* mutant
PrimedMap(t) == IF t = "nil" THEN IF box.there /\ box.limited THEN "on" ELSE "off" ELSE t

\* ListUsers, then the first pass after a start reads the limits there are; a
\* NIC that cannot be read counts as free.
ListAndPrime ==
    /\ pass.at = "list"
    /\ \/ /\ throttled' = PrimedMap(throttled)
          /\ pass' = [NoPass EXCEPT !.at = "decide", !.quota = allowance]
       \/ /\ CanFail("nic_read") /\ throttled = "nil" /\ throttled' = "off"
          /\ pass' = [NoPass EXCEPT !.at = "decide", !.quota = allowance]
       \/ CanFail("traffic_db") /\ UNCHANGED throttled /\ pass' = NoPass
    /\ UNCHANGED <<box, traffic, allowance, month, resetting, reinstalling, moved>>

ShouldThrottle(used, quota) == quota > 0 /\ used >= quota

Over == ShouldThrottle(traffic.total, allowance)

\* BandwidthFor; totals that cannot be read count as none.
Decide ==
    /\ pass.at = "decide"
    /\ \E over \in {ShouldThrottle(traffic.total, pass.quota)}
                     \cup (IF CanFail("traffic_db") THEN {FALSE} ELSE {}) :
          pass' = IF over = (throttled = "on") THEN NoPass
                  ELSE [pass EXCEPT !.at = "set", !.over = over]
    /\ UNCHANGED <<box, traffic, allowance, month, throttled, resetting, reinstalling, moved>>

\* EnsureNicRateLimit, then the map.
SetLimit ==
    /\ pass.at = "set"
    /\ \/ /\ box.there
          /\ box' = [box EXCEPT !.limited = pass.over]
          /\ throttled' = IF pass.over THEN "on" ELSE "off"
       \/ (~box.there \/ CanFail("nic")) /\ UNCHANGED <<box, throttled>>
    /\ pass' = NoPass
    /\ UNCHANGED <<traffic, allowance, month, resetting, reinstalling, moved>>

-----------------------------------------------------------------------------
(* The handlers *)

\* ResetBandwidth: the totals, then the limit.
ResetTotals ==
    /\ ~resetting
    /\ \/ /\ traffic' = [traffic EXCEPT !.total = 0]
          /\ moved' = [moved EXCEPT !.spent = moved.seen]
          /\ resetting' = TRUE
       \/ CanFail("traffic_db") /\ UNCHANGED <<traffic, moved, resetting>>
    /\ UNCHANGED <<box, allowance, month, throttled, pass, reinstalling>>

ResetLimit ==
    /\ resetting /\ LimitMuFree
    /\ \/ throttled # "on" /\ UNCHANGED <<box, throttled>>
       \/ throttled = "on" /\ box.there
             /\ box' = [box EXCEPT !.limited = FALSE] /\ throttled' = "off"
       \/ throttled = "on" /\ (~box.there \/ CanFail("nic")) /\ UNCHANGED <<box, throttled>>
    /\ resetting' = FALSE
    /\ UNCHANGED <<traffic, allowance, month, pass, reinstalling, moved>>

\* Reinstall, as far as the NIC, the map and the row's status go.
DeleteContainer ==
    /\ box' = [box EXCEPT !.there = FALSE, !.up = FALSE, !.limited = FALSE]
    /\ moved' = [moved EXCEPT !.all = Shown]

ReinstallDelete ==
    /\ NoReinstall /\ box.boot < MaxBoots
    /\ \/ DeleteContainer /\ reinstalling' = "gone"
       \/ CanFail("discard") /\ reinstalling' = "failed" /\ UNCHANGED <<box, moved>>
    /\ UNCHANGED <<traffic, allowance, month, throttled, pass, resetting>>

ReinstallLaunch ==
    /\ reinstalling = "gone"
    /\ \/ box' = [Reboot(box) EXCEPT !.there = TRUE] /\ reinstalling' = "launched"
       \/ CanFail("launch") /\ reinstalling' = "failed" /\ UNCHANGED box
    /\ UNCHANGED <<traffic, allowance, month, throttled, pass, resetting, moved>>

\* Provisioning fails: rollback deletes the half-built container, or cannot.
ReinstallRollback ==
    /\ reinstalling = "launched" /\ CanFail("provision")
    /\ \/ DeleteContainer
       \/ CanFail("discard") /\ UNCHANGED <<box, moved>>
    /\ reinstalling' = "failed"
    /\ UNCHANGED <<traffic, allowance, month, throttled, pass, resetting>>

\* The row is ready again.  A write that fails ends the handler, the container in
\* use and the map as it was.
ReinstallReady ==
    /\ reinstalling = "launched"
    /\ reinstalling' \in {"marked"} \cup (IF CanFail("status") THEN {"failed"} ELSE {})
    /\ UNCHANGED <<box, traffic, allowance, month, throttled, pass, resetting, moved>>

ReinstallDropFlag ==
    /\ reinstalling = "marked" /\ LimitMuFree
    /\ reinstalling' = "no"
    /\ throttled' = IF throttled = "on" THEN "off" ELSE throttled
    /\ UNCHANGED <<box, traffic, allowance, month, pass, resetting, moved>>

\* The panel restarts: its handlers end where they are and the map is lost.
PanelRestart ==
    /\ CanFail("panel")
    /\ throttled # "nil" \/ pass # NoPass \/ resetting \/ ~NoReinstall
    /\ throttled' = "nil" /\ pass' = NoPass /\ resetting' = FALSE
    /\ reinstalling' = IF reinstalling \in {"no", "marked"} THEN "no" ELSE "failed"
    /\ UNCHANGED <<box, traffic, allowance, month, moved>>

Sampler == SampleResources \/ RecordResourceSamples \/ ListAndPrime \/ Decide \/ SetLimit

ThrottleNext ==
    \/ Traffic \/ Restart \/ NextMonth \/ SetAllowance \/ Sampler
    \/ ResetTotals \/ ResetLimit
    \/ ReinstallDelete \/ ReinstallLaunch \/ ReinstallRollback
    \/ ReinstallReady \/ ReinstallDropFlag
    \/ PanelRestart

ThrottleSpec == ThrottleInit /\ [][ThrottleNext]_throttleVars

\* The ticker of sampleResourceLoop never stops, no call of a pass or of a
\* handler waits for ever, and none fails for ever; limitMu, a Go mutex, starves
\* nobody; the panel is not restarted for ever.
ThrottleFairness ==
    /\ <>[][~PanelRestart]_throttleVars
    /\ WF_throttleVars(Sampler)
    /\ WF_throttleVars(ReinstallLaunch \/ ReinstallRollback \/ ReinstallReady)
    /\ SF_throttleVars(ResetLimit) /\ SF_throttleVars(ReinstallDropFlag)
    /\ SF_throttleVars(ListAndPrime /\ pass' # NoPass)
    /\ SF_throttleVars(Decide /\ pass'.over = Over)
    /\ SF_throttleVars(SetLimit /\ throttled' # throttled)

-----------------------------------------------------------------------------
(* Properties *)

ThrottleTypeOK ==
    /\ box \in [there: BOOLEAN, up: BOOLEAN, boot: Nat, bytes: Nat, limited: BOOLEAN]
    /\ traffic \in [period: Nat, total: Nat, last: Nat, boot: Nat]
    /\ allowance \in {0, Allowance} /\ month \in Nat
    /\ throttled \in {"nil", "off", "on"}
    /\ pass \in [at: {"idle", "record", "list", "decide", "set"}, bytes: Nat, boot: Nat,
                 all: Nat, quota: {0, Allowance}, over: BOOLEAN]
    /\ resetting \in BOOLEAN /\ moved \in [all: Nat, seen: Nat, spent: Nat]
    /\ reinstalling \in {"no", "gone", "launched", "marked", "failed"}

\* No byte is charged twice: over restarts, reinstalls, resets, rollovers and
\* failed transactions the total never exceeds what the counters have shown
\* since the totals were last zeroed (bandwidthUpsert).
NeverOvercharged == traffic.total + moved.spent <= moved.seen

\* Of an account whose row is ready, the panel never believes in a limit that the
\* container does not carry, or it would leave the account over its quota unlimited
\* for the rest of the month (Reinstall's last lines).  A reinstall that failed
\* after its launch may leave such a belief behind.
NoStaleFlag ==
    throttled = "on" /\ box.there /\ reinstalling = "no" => box.limited

\* A ready account that stays over its quota with a container is limited again and
\* again (a pass that cannot read the totals lifts the limit until the next one),
\* and one that stays under it ends unlimited unless it was reinstalled, over
\* restarts of the panel and failed calls (EnforceBandwidthLimits).
LimitFollowsQuota ==
    /\ <>[](Over /\ box.there /\ reinstalling # "failed") => []<>(box.limited)
    /\ [](reinstalling = "no") => (<>[](~Over /\ box.there) => <>[](~box.limited))

\* What the totals and the map promise, over restarts of the container and of
\* the panel, reinstalls, resets and failed calls.
ThrottleSafe == NeverOvercharged /\ NoStaleFlag

=============================================================================
