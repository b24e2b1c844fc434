--------------------------- MODULE Limits_proofs ----------------------------
(***************************************************************************)
(* Theorems about the limits of the containers: the traffic account and    *)
(* the bandwidth throttle, the dynamic CPU limit and the quota edits.      *)
(***************************************************************************)
EXTENDS Throttle, CpuQuota, TLAPS

-----------------------------------------------------------------------------
(***************************************************************************)
(* Bandwidth accounting and throttle (Throttle)                            *)
(***************************************************************************)

\* Bytes that a counter has shown beyond a baseline: those of this boot since the
\* reading, or all of the boot's when the baseline is an older boot's.
Since(bytes, boot, last, base) == IF boot = base THEN bytes - last ELSE bytes

\* What the counters of the table know has been recorded, what they show beyond
\* it is still to be recorded; a sample that was taken lies between the two.  What a
\* container that does not run has moved and nobody has read is lost.
TallyInv ==
    /\ traffic.total + moved.spent <= moved.seen /\ moved.seen <= moved.all
    /\ traffic.boot <= box.boot
    /\ box.up => Since(box.bytes, box.boot, traffic.last, traffic.boot)
                     \in 0..moved.all - moved.seen
    /\ pass.at = "record" =>
        /\ pass.all \in moved.seen..moved.all
        /\ traffic.boot <= pass.boot /\ pass.boot <= box.boot
        /\ Since(pass.bytes, pass.boot, traffic.last, traffic.boot) \in 0..pass.all - moved.seen
        /\ box.up => Since(box.bytes, box.boot, pass.bytes, pass.boot) \in 0..moved.all - pass.all

BoxStates == [there: BOOLEAN, up: BOOLEAN, boot: Nat, bytes: Nat, limited: BOOLEAN]
PassStates == [at: {"idle", "record", "list", "decide", "set"}, bytes: Nat, boot: Nat,
         all: Nat, quota: {0, Allowance}, over: BOOLEAN]

ThrottleTyped ==
    /\ box \in BoxStates /\ pass \in PassStates
    /\ traffic \in [period: Nat, total: Nat, last: Nat, boot: Nat]
    /\ moved \in [all: Nat, seen: Nat, spent: Nat]
    /\ allowance \in {0, Allowance} /\ month \in Nat
    /\ throttled \in {"nil", "off", "on"}
    /\ reinstalling \in {"no", "gone", "launched", "marked", "failed"}

\* While a reinstall is between its delete and its launch there is no container.
FlagInv == NoStaleFlag /\ (reinstalling = "gone" => ~box.there)

ThrottleInv == ThrottleTyped /\ TallyInv /\ FlagInv

-----------------------------------------------------------------------------
LEMMA NoPassType == NoPass \in PassStates /\ NoPass.at = "idle"
  BY DEF NoPass, PassStates

LEMMA TypesInitially == ThrottleInit => ThrottleTyped
  <1> SUFFICES ASSUME ThrottleInit PROVE ThrottleTyped
    OBVIOUS
  <1>1. box \in BoxStates /\ traffic \in [period: Nat, total: Nat, last: Nat, boot: Nat]
    BY DEF ThrottleInit, BoxStates
  <1>2. allowance \in {0, Allowance} /\ month \in Nat /\ throttled \in {"nil", "off", "on"}
    BY DEF ThrottleInit
  <1>3. pass \in PassStates
    BY NoPassType DEF ThrottleInit
  <1>4. reinstalling \in {"no", "gone", "launched", "marked", "failed"} /\ moved \in [all: Nat, seen: Nat, spent: Nat]
    BY DEF ThrottleInit
  <1> QED
    BY <1>1, <1>2, <1>3, <1>4 DEF ThrottleTyped

\* The container's record after a boot, and after a change of its flags.
BootAt(b, up, boot, bytes) == [b EXCEPT !.up = up, !.boot = boot, !.bytes = bytes]
FlagsAt(b, there, up, limited) == [b EXCEPT !.there = there, !.up = up, !.limited = limited]
ThereAt(b, there) == [b EXCEPT !.there = there]
LimitAt(b, limited) == [b EXCEPT !.limited = limited]

LEMMA BootNumbers ==
    ASSUME NEW b \in BoxStates, NEW up \in BOOLEAN, NEW boot \in Nat, NEW bytes \in Nat
    PROVE  /\ BootAt(b, up, boot, bytes) \in BoxStates
           /\ BootAt(b, up, boot, bytes).boot = boot /\ BootAt(b, up, boot, bytes).bytes = bytes
  BY DEF BoxStates, BootAt

LEMMA BootFlags ==
    ASSUME NEW b \in BoxStates, NEW up, NEW boot, NEW bytes
    PROVE  /\ BootAt(b, up, boot, bytes).limited = b.limited
           /\ BootAt(b, up, boot, bytes).there = b.there
  BY DEF BoxStates, BootAt

\* A boot of the container counts from zero and leaves the limit as it is.
LEMMA RebootType ==
    ASSUME NEW b \in BoxStates
    PROVE  /\ Reboot(b) \in BoxStates /\ Reboot(b).boot = b.boot + 1 /\ Reboot(b).bytes = 0
           /\ Reboot(b).limited = b.limited /\ Reboot(b).there = b.there
  <1>1. b.boot + 1 \in Nat
    BY DEF BoxStates
  <1>2. PICK up \in BOOLEAN : Reboot(b) = BootAt(b, up, b.boot + 1, 0)
    BY Zenon DEF Reboot, BootAt
  <1>3. Reboot(b) \in BoxStates /\ Reboot(b).boot = b.boot + 1 /\ Reboot(b).bytes = 0
    BY <1>1, <1>2, BootNumbers
  <1>4. Reboot(b).limited = b.limited /\ Reboot(b).there = b.there
    BY <1>2, BootFlags
  <1> QED
    BY <1>3, <1>4

LEMMA FlagsType ==
    ASSUME NEW b \in BoxStates, NEW there \in BOOLEAN, NEW up \in BOOLEAN, NEW limited \in BOOLEAN
    PROVE  /\ FlagsAt(b, there, up, limited) \in BoxStates
           /\ FlagsAt(b, there, up, limited).boot = b.boot
           /\ FlagsAt(b, there, up, limited).bytes = b.bytes
  BY DEF BoxStates, FlagsAt

LEMMA FlagsValue ==
    ASSUME NEW b \in BoxStates, NEW there, NEW up, NEW limited
    PROVE  FlagsAt(b, there, up, limited).there = there /\ FlagsAt(b, there, up, limited).up = up
  BY DEF BoxStates, FlagsAt

LEMMA ThereType ==
    ASSUME NEW b \in BoxStates, NEW there \in BOOLEAN
    PROVE  /\ ThereAt(b, there) \in BoxStates
           /\ ThereAt(b, there).boot = b.boot /\ ThereAt(b, there).bytes = b.bytes
  BY DEF BoxStates, ThereAt

LEMMA LimitType ==
    ASSUME NEW b \in BoxStates, NEW limited \in BOOLEAN
    PROVE  /\ LimitAt(b, limited) \in BoxStates
           /\ LimitAt(b, limited).boot = b.boot /\ LimitAt(b, limited).bytes = b.bytes
  BY DEF BoxStates, LimitAt

LEMMA LimitValue ==
    ASSUME NEW b \in BoxStates, NEW limited
    PROVE  /\ LimitAt(b, limited).limited = limited
           /\ LimitAt(b, limited).there = b.there /\ LimitAt(b, limited).up = b.up
  BY DEF BoxStates, LimitAt

\* The delta of a sample is what it shows beyond the baseline.
LEMMA DeltaIsSince ==
    ASSUME NEW t \in [period: Nat, total: Nat, last: Nat, boot: Nat],
           NEW bytes \in Nat, NEW boot \in Nat,
           Since(bytes, boot, t.last, t.boot) >= 0
    PROVE  /\ Delta(t, bytes, boot) \in Nat
           /\ Delta(t, bytes, boot) <= Since(bytes, boot, t.last, t.boot)
  BY DEF Delta, Since

LEMMA WorldStep ==
    ASSUME ThrottleInv, Traffic \/ Restart \/ NextMonth \/ SetAllowance
    PROVE  ThrottleInv'
  <1>1. CASE Traffic
    <2>1. ThrottleTyped'
      BY <1>1 DEF Traffic, ThrottleInv, ThrottleTyped, BoxStates
    <2>2. TallyInv'
      BY <1>1 DEF Traffic, ThrottleInv, ThrottleTyped, BoxStates, PassStates, TallyInv, Since
    <2>3. box'.there = box.there /\ box'.limited = box.limited
      BY <1>1 DEF Traffic, ThrottleInv, ThrottleTyped, BoxStates
    <2> QED
      BY <1>1, <2>1, <2>2, <2>3 DEF Traffic, ThrottleInv, FlagInv, NoStaleFlag
  <1>2. CASE Restart
    <2>1. box \in BoxStates
      BY DEF ThrottleInv, ThrottleTyped
    <2>2. ThrottleTyped'
      BY <1>2, <2>1, RebootType DEF Restart, Shown, ThrottleInv, ThrottleTyped, PassStates
    <2>3. TallyInv'
      BY <1>2, <2>1, RebootType DEF Restart, Shown, ThrottleInv, ThrottleTyped, TallyInv, Since, BoxStates, PassStates
    <2>4. FlagInv'
      BY <1>2, <2>1, RebootType DEF Restart, ThrottleInv, FlagInv, NoStaleFlag
    <2> QED
      BY <2>2, <2>3, <2>4 DEF ThrottleInv
  <1>3. CASE NextMonth \/ SetAllowance
    <2>1. UNCHANGED <<box, traffic, throttled, pass, reinstalling, moved>>
      BY <1>3 DEF NextMonth, SetAllowance
    <2>2. ThrottleTyped'
      BY <1>3 DEF NextMonth, SetAllowance, ThrottleInv, ThrottleTyped
    <2> QED
      BY <2>1, <2>2 DEF ThrottleInv, TallyInv, FlagInv, NoStaleFlag
  <1> QED
    BY <1>1, <1>2, <1>3

\* A step that neither moves nor records a byte and takes no sample.
LEMMA TallyUntouched ==
    ASSUME TallyInv, UNCHANGED <<traffic, moved>>,
           box'.bytes = box.bytes /\ box'.boot = box.boot /\ box'.up = box.up,
           pass' = pass \/ pass'.at # "record"
    PROVE  TallyInv'
  BY DEF TallyInv

\* The sampler's own record, between two calls.
LEMMA PassType ==
    ASSUME NEW at \in {"idle", "record", "list", "decide", "set"}
    PROVE  [NoPass EXCEPT !.at = at] \in PassStates /\ [NoPass EXCEPT !.at = at].at = at
  BY NoPassType DEF PassStates

LEMMA SampleStep ==
    ASSUME ThrottleInv, SampleResources
    PROVE  ThrottleInv'
  <1>1. UNCHANGED <<box, traffic, allowance, month, throttled, reinstalling, moved>>
    BY DEF SampleResources
  <1>2. CASE pass' = [NoPass EXCEPT !.at = "list"]
    <2>1. pass' \in PassStates /\ pass'.at # "record"
      BY <1>2, PassType
    <2> QED
      BY <1>1, <2>1, TallyUntouched DEF ThrottleInv, ThrottleTyped, FlagInv, NoStaleFlag
  <1>3. CASE /\ box.up
             /\ pass' = [NoPass EXCEPT !.at = "record", !.bytes = box.bytes, !.boot = box.boot,
                                       !.all = moved.all]
    <2>1. /\ pass' \in PassStates /\ pass'.bytes = box.bytes /\ pass'.boot = box.boot
          /\ pass'.all = moved.all
      BY <1>3, NoPassType DEF PassStates, ThrottleInv, ThrottleTyped, BoxStates
    <2>3. TallyInv'
      BY <1>1, <1>3, <2>1 DEF ThrottleInv, ThrottleTyped, BoxStates, TallyInv, Since
    <2> QED
      BY <1>1, <2>1, <2>3 DEF ThrottleInv, ThrottleTyped, FlagInv, NoStaleFlag
  <1> QED
    BY <1>2, <1>3 DEF SampleResources

LEMMA RecordStep ==
    ASSUME ThrottleInv, RecordResourceSamples
    PROVE  ThrottleInv'
  <1> DEFINE d == Delta(traffic, pass.bytes, pass.boot)
             s == Since(pass.bytes, pass.boot, traffic.last, traffic.boot)
  <1>1. /\ UNCHANGED <<box, allowance, month, throttled, reinstalling>>
        /\ pass.at = "record" /\ pass' = [NoPass EXCEPT !.at = "list"]
    BY DEF RecordResourceSamples
  <1>2. pass' \in PassStates /\ pass'.at # "record"
    BY <1>1, PassType
  <1>3. s \in 0..pass.all - moved.seen
    BY <1>1 DEF ThrottleInv, TallyInv
  <1>4. d \in Nat /\ d <= s
    BY <1>3, DeltaIsSince DEF ThrottleInv, ThrottleTyped, PassStates
  <1>5. CASE UNCHANGED <<traffic, moved>>
    BY <1>1, <1>2, <1>5, TallyUntouched DEF ThrottleInv, ThrottleTyped, FlagInv, NoStaleFlag
  <1>6. CASE /\ traffic' = [period |-> month, last |-> pass.bytes, boot |-> pass.boot,
                            total |-> (IF traffic.period # month THEN 0 ELSE traffic.total) + d]
             /\ moved' = [moved EXCEPT !.seen = pass.all,
                              !.spent = IF traffic.period # month THEN moved.seen ELSE @]
    <2> HIDE DEF d, s
    <2> DEFINE base == IF traffic.period # month THEN 0 ELSE traffic.total
    <2>0. base \in Nat /\ base + d \in Nat
      BY <1>4 DEF ThrottleInv, ThrottleTyped
    <2>1. traffic' \in [period: Nat, total: Nat, last: Nat, boot: Nat]
          /\ moved' \in [all: Nat, seen: Nat, spent: Nat]
      <3>1. traffic' = [period |-> month, last |-> pass.bytes, boot |-> pass.boot,
                        total |-> base + d]
        BY <1>6
      <3>2. month \in Nat /\ pass.bytes \in Nat /\ pass.boot \in Nat /\ pass.all \in Nat
        BY DEF ThrottleInv, ThrottleTyped, PassStates
      <3>3. moved' \in [all: Nat, seen: Nat, spent: Nat]
        BY <1>6, <3>2 DEF ThrottleInv, ThrottleTyped
      <3> HIDE DEF base
      <3> QED
        BY <2>0, <3>1, <3>2, <3>3
    <2>2. traffic'.total + moved'.spent <= moved'.seen /\ moved'.seen <= moved'.all
      BY <1>1, <1>3, <1>4, <1>6 DEF ThrottleInv, ThrottleTyped, PassStates, TallyInv
    <2>3. traffic'.boot <= box'.boot
      BY <1>1, <1>6 DEF ThrottleInv, ThrottleTyped, TallyInv
    <2>4. box'.up => Since(box'.bytes, box'.boot, traffic'.last, traffic'.boot)
                         \in 0..moved'.all - moved'.seen
      BY <1>1, <1>6 DEF ThrottleInv, ThrottleTyped, TallyInv, Since
    <2> QED
      BY <1>1, <1>2, <2>1, <2>2, <2>3, <2>4 DEF ThrottleInv, ThrottleTyped, TallyInv, FlagInv, NoStaleFlag
  <1> QED
    BY <1>5, <1>6 DEF RecordResourceSamples

LEMMA EnforceStep ==
    ASSUME ThrottleInv, ListAndPrime \/ Decide \/ SetLimit
    PROVE  ThrottleInv'
  <1> USE NoPassType
  <1>1. CASE ListAndPrime
    <2>1. UNCHANGED <<box, traffic, moved, allowance, month, reinstalling>>
      BY <1>1 DEF ListAndPrime
    <2>2. pass' \in PassStates /\ pass'.at # "record"
      BY <1>1, ZenonT(60) DEF ListAndPrime, ThrottleInv, ThrottleTyped, PassStates
    <2>3. throttled' \in {"nil", "off", "on"}
      BY <1>1 DEF ListAndPrime, PrimedMap, ThrottleInv, ThrottleTyped
    <2>4. FlagInv'
      BY <1>1 DEF ListAndPrime, PrimedMap, ThrottleInv, FlagInv, NoStaleFlag
    <2> QED
      BY <2>1, <2>2, <2>3, <2>4, TallyUntouched DEF ThrottleInv, ThrottleTyped
  <1>2. CASE Decide
    <2>1. UNCHANGED <<box, traffic, moved, allowance, month, throttled, reinstalling>>
      BY <1>2 DEF Decide
    <2>2. PICK over \in BOOLEAN : pass' = NoPass \/ pass' = [pass EXCEPT !.at = "set", !.over = over]
      BY <1>2 DEF Decide, ShouldThrottle
    <2>3. pass' \in PassStates /\ pass'.at # "record"
      BY <2>2, ZenonT(60) DEF ThrottleInv, ThrottleTyped, PassStates
    <2> QED
      BY <2>1, <2>3, TallyUntouched DEF ThrottleInv, ThrottleTyped, FlagInv, NoStaleFlag
  <1>3. CASE SetLimit
    <2>1. /\ UNCHANGED <<traffic, moved, allowance, month, reinstalling>>
          /\ pass' \in PassStates /\ pass'.at # "record"
      BY <1>3 DEF SetLimit
    <2>2. CASE UNCHANGED <<box, throttled>>
      BY <2>1, <2>2, TallyUntouched DEF ThrottleInv, ThrottleTyped, FlagInv, NoStaleFlag
    <2>3. CASE /\ box' = LimitAt(box, pass.over)
               /\ throttled' = IF pass.over THEN "on" ELSE "off"
      <3>1. box \in BoxStates /\ pass.over \in BOOLEAN
        BY DEF ThrottleInv, ThrottleTyped, PassStates
      <3>2. ThrottleTyped' /\ box'.boot = box.boot /\ box'.bytes = box.bytes
        BY <2>1, <2>3, <3>1, LimitType DEF ThrottleInv, ThrottleTyped
      <3>3. FlagInv' /\ box'.up = box.up
        BY <2>1, <2>3, <3>1, LimitValue DEF ThrottleInv, FlagInv, NoStaleFlag
      <3> QED
        BY <2>1, <3>2, <3>3, TallyUntouched DEF ThrottleInv
    <2> QED
      BY <1>3, <2>2, <2>3 DEF SetLimit, LimitAt
  <1> QED
    BY <1>1, <1>2, <1>3

LEMMA ResetStep ==
    ASSUME ThrottleInv, ResetTotals \/ ResetLimit
    PROVE  ThrottleInv'
  <1>1. CASE ResetTotals
    <2>1. UNCHANGED <<box, allowance, month, throttled, reinstalling, pass>>
      BY <1>1 DEF ResetTotals
    <2>2. CASE UNCHANGED <<traffic, moved>>
      BY <2>1, <2>2, TallyUntouched DEF ThrottleInv, ThrottleTyped, FlagInv, NoStaleFlag
    <2>3. CASE /\ traffic' = [traffic EXCEPT !.total = 0]
               /\ moved' = [moved EXCEPT !.spent = moved.seen]
      <3>1. ThrottleTyped'
        BY <2>1, <2>3 DEF ThrottleInv, ThrottleTyped
      <3>2. TallyInv'
        BY <2>1, <2>3 DEF ThrottleInv, ThrottleTyped, TallyInv
      <3> QED
        BY <2>1, <3>1, <3>2 DEF ThrottleInv, FlagInv, NoStaleFlag
    <2> QED
      BY <1>1, <2>2, <2>3 DEF ResetTotals
  <1>2. CASE ResetLimit
    <2>1. UNCHANGED <<traffic, moved, pass, allowance, month, reinstalling>>
      BY <1>2 DEF ResetLimit
    <2>2. CASE UNCHANGED <<box, throttled>>
      BY <2>1, <2>2, TallyUntouched DEF ThrottleInv, ThrottleTyped, FlagInv, NoStaleFlag
    <2>3. CASE box' = LimitAt(box, FALSE) /\ throttled' = "off"
      <3>1. ThrottleTyped' /\ box'.boot = box.boot /\ box'.bytes = box.bytes
        BY <2>1, <2>3, LimitType, FALSE \in BOOLEAN DEF ThrottleInv, ThrottleTyped
      <3>2. FlagInv' /\ box'.up = box.up
        BY <2>1, <2>3, LimitValue DEF ThrottleInv, ThrottleTyped, FlagInv, NoStaleFlag
      <3> QED
        BY <2>1, <3>1, <3>2, TallyUntouched DEF ThrottleInv
    <2> QED
      BY <1>2, <2>2, <2>3 DEF ResetLimit, LimitAt
  <1> QED
    BY <1>1, <1>2

\* A container that is deleted moves no more bytes; what nobody has read is lost.
LEMMA DeleteStep ==
    ASSUME ThrottleInv, DeleteContainer, UNCHANGED <<traffic, allowance, month, pass, throttled>>,
           reinstalling' \in {"gone", "failed"}
    PROVE  ThrottleInv'
  <1>0. box \in BoxStates
    BY DEF ThrottleInv, ThrottleTyped
  <1>1. moved' = [moved EXCEPT !.all = Shown]
    BY DEF DeleteContainer
  <1>2. PICK there \in BOOLEAN, up \in BOOLEAN, limited \in BOOLEAN :
            ~there /\ ~up /\ box' = FlagsAt(box, there, up, limited)
    BY Zenon DEF DeleteContainer, FlagsAt
  <1>3. box' \in BoxStates /\ box'.boot = box.boot /\ box'.bytes = box.bytes
    BY <1>0, <1>2, FlagsType
  <1>4. ~box'.there /\ ~box'.up
    BY <1>0, <1>2, FlagsValue
  <1>5. ThrottleTyped'
    BY <1>1, <1>3 DEF Shown, ThrottleInv, ThrottleTyped, PassStates
  <1>6. TallyInv'
    BY <1>0, <1>1, <1>3, <1>4 DEF Shown, ThrottleInv, ThrottleTyped, PassStates, TallyInv, Since, BoxStates
  <1> QED
    BY <1>4, <1>5, <1>6 DEF ThrottleInv, FlagInv, NoStaleFlag

\* A reinstall that ends with an error leaves the container and the map as they are.
LEMMA ReinstallFails ==
    ASSUME ThrottleInv, reinstalling' = "failed",
           UNCHANGED <<box, traffic, allowance, month, pass, throttled, moved>>
    PROVE  ThrottleInv'
  BY TallyUntouched DEF ThrottleInv, ThrottleTyped, FlagInv, NoStaleFlag

LEMMA ReinstallStep ==
    ASSUME ThrottleInv, ReinstallDelete \/ ReinstallLaunch \/ ReinstallRollback \/ ReinstallReady
                           \/ ReinstallDropFlag \/ PanelRestart
    PROVE  ThrottleInv'
  <1>0. box \in BoxStates
    BY DEF ThrottleInv, ThrottleTyped
  <1>1. CASE ReinstallDelete \/ ReinstallRollback
    <2>1. UNCHANGED <<traffic, pass, allowance, month, throttled>>
      BY <1>1 DEF ReinstallDelete, ReinstallRollback
    <2>2. \/ DeleteContainer /\ reinstalling' \in {"gone", "failed"}
          \/ UNCHANGED <<box, moved>> /\ reinstalling' = "failed"
      BY <1>1 DEF ReinstallDelete, ReinstallRollback
    <2> QED
      BY <2>1, <2>2, DeleteStep, ReinstallFails
  <1>2. CASE ReinstallLaunch
    <2>1. UNCHANGED <<traffic, pass, allowance, month, throttled, moved>>
      BY <1>2 DEF ReinstallLaunch
    <2>2. CASE UNCHANGED box /\ reinstalling' = "failed"
      BY <2>1, <2>2, ReinstallFails
    <2>3. CASE box' = ThereAt(Reboot(box), TRUE) /\ reinstalling' = "launched"
      <3>1. box' \in BoxStates /\ box'.boot = box.boot + 1 /\ box'.bytes = 0
        BY <1>0, <2>3, RebootType, ThereType, TRUE \in BOOLEAN
      <3>2. ThrottleTyped'
        BY <2>1, <2>3, <3>1 DEF ThrottleInv, ThrottleTyped
      <3>3. TallyInv'
        BY <1>0, <2>1, <3>1 DEF ThrottleInv, ThrottleTyped, PassStates, TallyInv, Since, BoxStates
      <3> QED
        BY <2>3, <3>2, <3>3 DEF ThrottleInv, FlagInv, NoStaleFlag
    <2> QED
      BY <1>2, <2>2, <2>3 DEF ReinstallLaunch, ThereAt
  <1>3. CASE ReinstallDropFlag
    BY <1>3, TallyUntouched DEF ReinstallDropFlag, ThrottleInv, ThrottleTyped, FlagInv, NoStaleFlag
  <1>4. CASE PanelRestart
    BY <1>4, NoPassType, TallyUntouched DEF PanelRestart, ThrottleInv, ThrottleTyped, FlagInv, NoStaleFlag
  <1>5. CASE ReinstallReady
    BY <1>5, TallyUntouched DEF ReinstallReady, ThrottleInv, ThrottleTyped, FlagInv, NoStaleFlag
  <1> QED
    BY <1>1, <1>2, <1>3, <1>4, <1>5

LEMMA ThrottleInitially == ThrottleInit => ThrottleInv
  <1> SUFFICES ASSUME ThrottleInit PROVE ThrottleInv
    OBVIOUS
  <1>1. TallyInv
    BY NoPassType DEF ThrottleInit, TallyInv, Since
  <1>2. FlagInv
    BY DEF ThrottleInit, FlagInv, NoStaleFlag
  <1> QED
    BY <1>1, <1>2, TypesInitially DEF ThrottleInv

LEMMA ThrottleInductive == ThrottleInv /\ [ThrottleNext]_throttleVars => ThrottleInv'
  <1> SUFFICES ASSUME ThrottleInv, [ThrottleNext]_throttleVars PROVE ThrottleInv'
    OBVIOUS
  <1>1. CASE UNCHANGED throttleVars
    BY <1>1 DEF throttleVars, ThrottleInv, ThrottleTyped, TallyInv, FlagInv, NoStaleFlag
  <1>2. CASE ThrottleNext
    BY <1>2, WorldStep, SampleStep, RecordStep, EnforceStep, ResetStep, ReinstallStep
       DEF ThrottleNext, Sampler
  <1> QED
    BY <1>1, <1>2

\* No byte is charged twice and of a ready account no limit is believed in that the
\* container does not carry, over restarts of container and panel, reinstalls, resets, month
\* ends and any call that fails (bandwidthUpsert, EnforceBandwidthLimits,
\* ResetBandwidth, Reinstall).
THEOREM ThrottleIsSafe == ThrottleSpec => []ThrottleSafe
  <1>1. ThrottleInv => ThrottleSafe
    BY DEF ThrottleInv, TallyInv, FlagInv, ThrottleSafe, NeverOvercharged
  <1> QED
    BY <1>1, ThrottleInitially, ThrottleInductive, PTL DEF ThrottleSpec

-----------------------------------------------------------------------------
(***************************************************************************)
(* The dynamic CPU limit and the quota edits (CpuQuota)                    *)
(***************************************************************************)

\* CpuTypeOK, and what an enforcement and an edit know at each point.
EnforceKnows(p) ==
    /\ p.at = "idle" => p = NoEnforce
    /\ p.at = "dead" => p = Dead
    /\ p.at \in {"restore", "apply"} => ~p.applied
    /\ p.at = "restore" => ~p.changed
    /\ p.at = "apply" /\ p.changed => p.capped = None
    /\ p.at \in {"save", "rollback"} =>
          /\ p.applied => p.row \in Rows /\ p.capped = FALSE
          /\ ~p.applied => p.capped = None

EditKnows(d) ==
    /\ d.at = "idle" => d = NoEdit
    /\ d.at # "idle" => d.row \in Rows /\ d.ask \in Asked
    /\ d.at \in {"cpu", "undo_cpu"} => d.ask.cpu \in CpuValues
    /\ d.at \in {"mem", "undo_mem"} => d.ask.mem \in MemValues

CpuTyped ==
    /\ CpuTypeOK
    /\ \A e \in Enforcers : EnforceKnows(enforce[e])
    /\ \A e \in Editors : EditKnows(edit[e])

LEMMA CpuTypedInitially == CpuInit => CpuTyped
  <1> SUFFICES ASSUME CpuInit PROVE CpuTyped OBVIOUS
  <1>1. live \in Limits BY DEF CpuInit, Rows, Limits
  <1>2. NoEnforce \in EnforceStates /\ EnforceKnows(NoEnforce)
    BY DEF NoEnforce, EnforceStates, EnforceKnows
  <1>3. NoEdit \in EditStates /\ EditKnows(NoEdit) BY DEF NoEdit, EditStates, EditKnows
  <1> QED BY <1>1, <1>2, <1>3 DEF CpuInit, CpuTyped, CpuTypeOK

\* What a call on the container leaves there.
LEMMA CallTyped ==
    ASSUME CpuTypeOK
    PROVE  /\ \A c \in CpuValues \cup {Cap} : SetCPU(c) => live' \in Limits
           /\ \A m \in MemValues : SetMem(m) => live' \in Limits
  BY DEF CpuTypeOK, SetCPU, SetMem, Limits

LEMMA EnforceMoves ==
    ASSUME CpuTyped, NEW e \in Enforcers, NEW q, q \in EnforceStates, EnforceKnows(q),
           enforce' = [enforce EXCEPT ![e] = q]
    PROVE  /\ enforce' \in [Enforcers -> EnforceStates]
           /\ \A f \in Enforcers : EnforceKnows(enforce'[f])
  BY DEF CpuTyped, CpuTypeOK

LEMMA EditMoves ==
    ASSUME CpuTyped, NEW e \in Editors, NEW d, d \in EditStates, EditKnows(d),
           edit' = [edit EXCEPT ![e] = d]
    PROVE  /\ edit' \in [Editors -> EditStates]
           /\ \A f \in Editors : EditKnows(edit'[f])
  BY DEF CpuTyped, CpuTypeOK

LEMMA IdleKnows ==
    /\ NoEnforce \in EnforceStates /\ EnforceKnows(NoEnforce)
    /\ Dead \in EnforceStates /\ EnforceKnows(Dead)
    /\ NoEdit \in EditStates /\ EditKnows(NoEdit)
  BY DEF NoEnforce, EnforceStates, EnforceKnows, Dead, NoEdit, EditStates, EditKnows

\* RestoreQuota goes on with what it has read, or without the limit.
LEMMA RestoreTyped ==
    ASSUME CpuTyped, NEW e \in Enforcers, RestoreQuota(e)
    PROVE  CpuTyped'
  <1> DEFINE p == enforce[e]
             f == [p EXCEPT !.capped = None, !.changed = TRUE]
             a == [p EXCEPT !.at = "apply"]
             b == [f EXCEPT !.at = "apply"]
  <1>1. p \in EnforceStates /\ EnforceKnows(p) /\ p.at = "restore"
    BY DEF CpuTyped, CpuTypeOK, RestoreQuota
  <1>2. a \in EnforceStates /\ EnforceKnows(a) BY <1>1 DEF EnforceStates, EnforceKnows
  <1>3. b \in EnforceStates /\ EnforceKnows(b) BY <1>1 DEF EnforceStates, EnforceKnows
  <1>4. enforce' = [enforce EXCEPT ![e] = a] \/ enforce' = [enforce EXCEPT ![e] = b]
    BY DEF RestoreQuota
  <1>5. live' \in Limits \cup {None}
    <2>1. Lifted(p) => p.row \in Rows BY <1>1 DEF Lifted, EnforceStates
    <2>2. CASE Lifted(p) /\ SetCPU(p.row.cpu) BY <2>1, <2>2, CallTyped DEF CpuTyped, Rows
    <2>3. CASE UNCHANGED live BY <2>3 DEF CpuTyped, CpuTypeOK
    <2> QED BY <2>2, <2>3 DEF RestoreQuota, CallFails
  <1> HIDE DEF a, b
  <1>6. enforce' \in [Enforcers -> EnforceStates] /\ \A g \in Enforcers : EnforceKnows(enforce'[g])
    BY <1>2, <1>3, <1>4, EnforceMoves
  <1> QED BY <1>5, <1>6 DEF RestoreQuota, UNC, CpuTyped, CpuTypeOK

LEMMA ApplyTyped ==
    ASSUME CpuTyped, NEW e \in Enforcers, ApplyCap(e)
    PROVE  CpuTyped'
  <1> DEFINE p == enforce[e]
             f == [p EXCEPT !.capped = FALSE, !.changed = TRUE, !.applied = TRUE]
  <1>1. p \in EnforceStates /\ EnforceKnows(p) /\ p.at = "apply"
    BY DEF CpuTyped, CpuTypeOK, ApplyCap
  <1>2. p.changed => ToSave(p) \in EnforceStates /\ EnforceKnows(ToSave(p))
    BY <1>1 DEF EnforceStates, EnforceKnows, ToSave, NoEnforce
  <1>3. p.row # None => ToSave(f) \in EnforceStates /\ EnforceKnows(ToSave(f))
    BY <1>1 DEF EnforceStates, EnforceKnows, ToSave, NoEnforce
  <1>4. \/ enforce' = [enforce EXCEPT ![e] = ToSave(f)] /\ p.row # None /\ SetCPU(Cap)
        \/ enforce' = [enforce EXCEPT ![e] = IF p.changed THEN ToSave(p) ELSE NoEnforce]
           /\ UNCHANGED live
    BY DEF ApplyCap, CallFails
  <1>5. live' \in Limits \cup {None}
    BY <1>4, CallTyped DEF CpuTyped, CpuTypeOK
  <1> HIDE DEF f
  <1>6. enforce' \in [Enforcers -> EnforceStates] /\ \A g \in Enforcers : EnforceKnows(enforce'[g])
    <2>1. CASE enforce' = [enforce EXCEPT ![e] = ToSave(f)] /\ p.row # None
      BY <1>3, <2>1, EnforceMoves
    <2>2. CASE enforce' = [enforce EXCEPT ![e] = IF p.changed THEN ToSave(p) ELSE NoEnforce]
      BY <1>2, <2>2, EnforceMoves, IdleKnows
    <2> QED BY <1>4, <2>1, <2>2
  <1> QED BY <1>5, <1>6 DEF ApplyCap, UNC, CpuTyped, CpuTypeOK

LEMMA EnforceTyped ==
    ASSUME CpuTyped, NEW e \in Enforcers, Enforce(e) \/ EnforceCrash(e)
    PROVE  CpuTyped'
  <1> USE DEF UNC, CpuTyped, CpuTypeOK
  <1>1. CASE EnforceRead(e)
    <2> DEFINE q == [NoEnforce EXCEPT !.at = "restore", !.on = ruleOn, !.capped = capped, !.row = quota]
    <2>1. q \in EnforceStates /\ EnforceKnows(q) BY DEF NoEnforce, EnforceStates, EnforceKnows
    <2>2. enforce' = [enforce EXCEPT ![e] = q] BY <1>1 DEF EnforceRead
    <2> HIDE DEF q
    <2>3. enforce' \in [Enforcers -> EnforceStates] /\ \A g \in Enforcers : EnforceKnows(enforce'[g])
      BY <2>1, <2>2, EnforceMoves
    <2> QED BY <1>1, <2>3 DEF EnforceRead, BeginPass
  <1>2. CASE EnforceRestart(e)
    BY <1>2, EnforceMoves, IdleKnows DEF EnforceRestart
  <1>3. CASE RestoreQuota(e) BY <1>3, RestoreTyped
  <1>4. CASE ApplyCap(e) BY <1>4, ApplyTyped
  <1>5. CASE Save(e)
    <2> DEFINE q == [enforce[e] EXCEPT !.at = "rollback"]
    <2>1. q \in EnforceStates /\ EnforceKnows(q) BY <1>5 DEF Save, EnforceStates, EnforceKnows
    <2>2. enforce' = [enforce EXCEPT ![e] = NoEnforce] \/ enforce' = [enforce EXCEPT ![e] = q]
      BY <1>5 DEF Save
    <2>3. capped' \in BOOLEAN \cup {None} BY <1>5 DEF Save, EnforceStates
    <2> HIDE DEF q
    <2>4. enforce' \in [Enforcers -> EnforceStates] /\ \A g \in Enforcers : EnforceKnows(enforce'[g])
      BY <2>1, <2>2, EnforceMoves, IdleKnows
    <2> QED BY <1>5, <2>3, <2>4 DEF Save
  <1>6. CASE RollbackCaps(e)
    <2>1. enforce' \in [Enforcers -> EnforceStates] /\ \A g \in Enforcers : EnforceKnows(enforce'[g])
      BY <1>6, EnforceMoves, IdleKnows DEF RollbackCaps
    <2>2. live' \in Limits \cup {None}
      <3>1. enforce[e].applied /\ enforce[e].at = "rollback" => enforce[e].row \in Rows
        BY DEF EnforceKnows
      <3> QED BY <1>6, <3>1, CallTyped DEF RollbackCaps, RollbackCap, Rows
    <2> QED BY <1>6, <2>1, <2>2 DEF RollbackCaps, Happened
  <1>7. CASE EnforceCrash(e)
    BY <1>7, EnforceMoves, IdleKnows DEF EnforceCrash, Happened
  <1> QED BY <1>1, <1>2, <1>3, <1>4, <1>5, <1>6, <1>7 DEF Enforce

LEMMA EditAtTyped ==
    ASSUME CpuTyped, NEW e \in Editors, NEW step, EditAt(e, step),
           step \in {"idle", "cpu", "mem", "row", "undo_mem", "undo_cpu"},
           step # "idle" => edit[e].at # "idle",
           step \in {"cpu", "undo_cpu"} => edit[e].ask.cpu # None,
           step \in {"mem", "undo_mem"} => edit[e].ask.mem # None
    PROVE  /\ edit' \in [Editors -> EditStates]
           /\ \A f \in Editors : EditKnows(edit'[f])
  <1> DEFINE d == [edit[e] EXCEPT !.at = step]
  <1>1. edit[e] \in EditStates /\ EditKnows(edit[e]) BY DEF CpuTyped, CpuTypeOK
  <1>2. step # "idle" => d \in EditStates /\ EditKnows(d)
    BY <1>1 DEF EditStates, EditKnows, Asked
  <1>3. edit' = [edit EXCEPT ![e] = IF step = "idle" THEN NoEdit ELSE d] BY DEF EditAt
  <1> HIDE DEF d
  <1> QED BY <1>2, <1>3, EditMoves, IdleKnows

LEMMA EditTyped ==
    ASSUME CpuTyped, NEW e \in Editors, Edit(e)
    PROVE  CpuTyped'
  <1> USE DEF UNE
  <1> DEFINE d == edit[e]
             Edits == /\ edit' \in [Editors -> EditStates]
                      /\ \A f \in Editors : EditKnows(edit'[f])
  <1>0. d \in EditStates /\ EditKnows(d) BY DEF CpuTyped, CpuTypeOK
  <1>1. CASE EditRead(e)
    <2>1. PICK ask \in Asked :
             edit' = [edit EXCEPT ![e] = [at |-> After(ask, "start"), row |-> quota, ask |-> ask]]
      BY <1>1 DEF EditRead
    <2>2. quota \in Rows BY <1>1 DEF EditRead, CpuTyped, CpuTypeOK
    <2>3. [at |-> After(ask, "start"), row |-> quota, ask |-> ask] \in EditStates
          /\ EditKnows([at |-> After(ask, "start"), row |-> quota, ask |-> ask])
      BY <2>2 DEF EditStates, EditKnows, After, Asked
    <2>4. Edits BY <2>1, <2>3, EditMoves
    <2> QED BY <1>1, <2>4 DEF EditRead, BeginPass, CpuTyped, CpuTypeOK
  <1>2. ASSUME NEW step \in {"cpu", "mem"}, EditCall(e, step) PROVE CpuTyped'
    <2>1. d.at = step /\ (EditAt(e, After(d.ask, step)) \/ EditAt(e, Undone(d.ask, step)))
      BY <1>2 DEF EditCall
    <2>2. Edits BY <1>0, <2>1, EditAtTyped DEF After, Undone
    <2>3. live' \in Limits \cup {None}
      BY <1>0, <1>2, CallTyped DEF EditCall, EditKnows, CallFails, CpuTyped, CpuTypeOK
    <2> QED BY <1>2, <2>2, <2>3 DEF EditCall, CpuTyped, CpuTypeOK
  <1>3. CASE EditRow(e)
    <2>1. d.at = "row" /\ d.row \in Rows /\ d.ask \in Asked BY <1>0, <1>3 DEF EditRow, EditKnows
    <2>2. Edits
      BY <1>3, <2>1, EditAtTyped, EditMoves, IdleKnows DEF EditRow, Undone
    <2>3. Chosen(d.ask.cpu, d.row.cpu) \in CpuValues /\ Chosen(d.ask.mem, d.row.mem) \in MemValues
      BY <2>1 DEF Chosen, Rows, Asked
    <2>4. quota' \in Rows \cup {None}
      BY <1>3, <2>3 DEF EditRow, Rows, CpuTyped, CpuTypeOK
    <2> QED BY <1>3, <2>2, <2>4 DEF EditRow, CpuTyped, CpuTypeOK
  <1>4. CASE EditUndo(e)
    <2>1. d.at \in {"undo_mem", "undo_cpu"} /\ d.row \in Rows BY <1>0, <1>4 DEF EditUndo, EditKnows
    <2>2. Edits BY <1>4, <2>1, EditAtTyped DEF EditUndo
    <2>3. live' \in Limits \cup {None}
      BY <1>4, <2>1, CallTyped DEF EditUndo, Rows, CpuTyped, CpuTypeOK
    <2> QED BY <1>4, <2>2, <2>3 DEF EditUndo, Happened, CpuTyped, CpuTypeOK
  <1> QED BY <1>1, <1>2, <1>3, <1>4 DEF Edit

LEMMA CpuTypedKept ==
    ASSUME CpuTyped, [CpuNext]_cpuVars
    PROVE  CpuTyped'
  <1>1. CASE Elapse \/ SetCPULimitRule \/ DropUser \/ RelaunchRead
    BY <1>1 DEF Elapse, SetCPULimitRule, DropUser, RelaunchRead, BeginPass, CpuTyped, CpuTypeOK
  <1>2. CASE Relaunch
    <2>1. live' \in Limits \cup {None} BY <1>2 DEF Relaunch, CpuTyped, CpuTypeOK, Rows, Limits
    <2> QED BY <1>2, <2>1 DEF Relaunch, CpuTyped, CpuTypeOK
  <1>3. CASE UNCHANGED cpuVars BY <1>3 DEF cpuVars, CpuTyped, CpuTypeOK
  <1> QED BY <1>1, <1>2, <1>3, EnforceTyped, EditTyped DEF CpuNext

-----------------------------------------------------------------------------
(* CapRecorded, where one process enforces the limit *)

\* No container without an account; what a pass knows of the caps it may lift;
\* and a capped container is on record, or its cap is about to be.
CapHeld(e) ==
    LET p == enforce[e] IN
    /\ p.at \in {"restore", "apply"} /\ p.row = None => quota = None
    /\ p.at = "restore" \/ (p.at = "apply" /\ ~p.changed) => (p.capped = None <=> capped = None)
    /\ (p.at = "apply" /\ p.changed) \/ (p.at \in {"save", "rollback"} /\ ~p.applied)
           => live = None \/ live.cpu # Cap
    /\ "lost_cap" \notin incident /\ live # None /\ live.cpu = Cap
           => capped # None \/ (p.at \in {"save", "rollback"} /\ p.applied)

NoRowNoBox == quota = None => live = None /\ relaunch = None


LEMMA CapHeldInitially == CpuInit => NoRowNoBox /\ \A e \in Enforcers : CapHeld(e)
  BY CpuAssumption DEF CpuInit, NoRowNoBox, CapHeld, NoEnforce, Rows

\* Nothing but a capping sets the CPU to Cap.
LEMMA BoxMoves ==
    ASSUME CpuTyped, NoRowNoBox, [CpuNext]_cpuVars
    PROVE  NoRowNoBox'
  <1> USE DEF NoRowNoBox
  <1>1. CASE Elapse \/ SetCPULimitRule \/ DropUser \/ RelaunchRead \/ Relaunch \/ UNCHANGED cpuVars
    BY <1>1 DEF Elapse, SetCPULimitRule, DropUser, RelaunchRead, Relaunch, cpuVars
  <1>2. ASSUME NEW e \in Enforcers, Enforce(e) \/ EnforceCrash(e) PROVE NoRowNoBox'
    <2>1. UNC /\ (live = None => live' = None)
      BY <1>2 DEF Enforce, EnforceRead, EnforceRestart, RestoreQuota, ApplyCap, Save, RollbackCaps,
                  RollbackCap, EnforceCrash, SetCPU, CallFails
    <2> QED BY <2>1 DEF UNC
  <1>3. ASSUME NEW e \in Editors, Edit(e) PROVE NoRowNoBox'
    <2>1. /\ UNE /\ (live = None => live' = None)
          /\ quota' = None => quota = None
      <3>1. CASE EditRead(e) BY <3>1 DEF EditRead
      <3>2. CASE EditCall(e, "cpu") \/ EditCall(e, "mem")
        BY <3>2 DEF EditCall, SetCPU, SetMem, CallFails
      <3>3. CASE EditRow(e)
        <4>1. quota # None => [quota EXCEPT !.cpu = Chosen(edit[e].ask.cpu, edit[e].row.cpu),
                                            !.mem = Chosen(edit[e].ask.mem, edit[e].row.mem)] \in Limits
          <5>1. edit[e].row \in Rows /\ edit[e].ask \in Asked
            BY <3>3 DEF EditRow, CpuTyped, EditKnows
          <5>2. /\ Chosen(edit[e].ask.cpu, edit[e].row.cpu) \in CpuValues
                /\ Chosen(edit[e].ask.mem, edit[e].row.mem) \in MemValues
            BY <5>1 DEF Chosen, Rows, Asked
          <5> QED BY <5>2 DEF CpuTyped, CpuTypeOK, Rows, Limits
        <4> QED BY <3>3, <4>1, AbsentAssumption DEF EditRow
      <3>4. CASE EditUndo(e) BY <3>4 DEF EditUndo, SetCPU, SetMem
      <3> QED BY <1>3, <3>1, <3>2, <3>3, <3>4 DEF Edit
    <2> QED BY <2>1 DEF UNE
  <1> QED BY <1>1, <1>2, <1>3 DEF CpuNext

\* The pass of the only enforcing process.
LEMMA PassHolds ==
    ASSUME CpuTyped, NoRowNoBox, NEW e \in Enforcers, CapHeld(e), Enforce(e) \/ EnforceCrash(e)
    PROVE  CapHeld(e)'
  <1> DEFINE p == enforce[e]
  <1>0. p \in EnforceStates /\ EnforceKnows(p) /\ enforce \in [Enforcers -> EnforceStates]
    BY DEF CpuTyped, CpuTypeOK
  <1>c. \A c \in CpuValues : c # Cap BY CpuAssumption
  <1>n. None \notin BOOLEAN BY CpuAssumption
  <1>l. live # None => live \in Limits BY DEF CpuTyped, CpuTypeOK
  <1>1. CASE EnforceRead(e)
    <2>1. /\ enforce'[e].at = "restore" /\ enforce'[e].capped = capped /\ enforce'[e].row = quota
          /\ UNCHANGED <<live, capped, quota>> /\ ("lost_cap" \in incident' <=> "lost_cap" \in incident)
          /\ p.at = "idle"
      BY <1>0, <1>1 DEF EnforceRead, UNC, BeginPass, NoEnforce
    <2> QED BY <2>1 DEF CapHeld
  <1>2. CASE EnforceRestart(e)
    <2>1. enforce'[e].at = "idle" /\ p.at = "dead" /\ UNCHANGED <<live, capped, incident>>
      BY <1>0, <1>2 DEF EnforceRestart, NoEnforce, Dead
    <2> QED BY <2>1 DEF CapHeld
  <1>3. CASE RestoreQuota(e)
    <2>0. p.at = "restore" /\ UNCHANGED <<capped, incident, quota>> /\ ~p.changed /\ ~p.applied
      BY <1>0, <1>3 DEF RestoreQuota, UNC, EnforceKnows
    <2>1. ASSUME enforce' = [enforce EXCEPT ![e] = [p EXCEPT !.at = "apply"]], UNCHANGED live
          PROVE  CapHeld(e)'
      <3>1. /\ enforce'[e].at = "apply" /\ enforce'[e].row = p.row /\ ~enforce'[e].changed
            /\ enforce'[e].capped = p.capped
        BY <1>0, <2>0, <2>1 DEF EnforceStates
      <3> QED BY <2>0, <2>1, <3>1 DEF CapHeld
    <2>2. ASSUME enforce' = [enforce EXCEPT ![e] = [[p EXCEPT !.capped = None, !.changed = TRUE]
                                                      EXCEPT !.at = "apply"]],
                 live' = None \/ live'.cpu # Cap
          PROVE  CapHeld(e)'
      <3>1. /\ enforce'[e].at = "apply" /\ enforce'[e].row = p.row /\ enforce'[e].changed
        BY <1>0, <2>2 DEF EnforceStates
      <3> QED BY <2>0, <2>2, <3>1 DEF CapHeld
    <2>3. CASE Lifted(p) /\ SetCPU(p.row.cpu)
                 /\ enforce' = [enforce EXCEPT ![e] = [[p EXCEPT !.capped = None, !.changed = TRUE]
                                                         EXCEPT !.at = "apply"]]
      <3>1. p.row \in Rows BY <1>0, <2>3 DEF Lifted, EnforceStates
      <3>2. live'.cpu = p.row.cpu BY <1>l, <2>3 DEF SetCPU, Limits
      <3> QED BY <1>c, <2>2, <2>3, <3>1, <3>2 DEF Rows
    <2>4. CASE p.row = None /\ UNCHANGED live
                 /\ enforce' = [enforce EXCEPT ![e] = [[p EXCEPT !.capped = None, !.changed = TRUE]
                                                         EXCEPT !.at = "apply"]]
      <3>1. live' = None BY <2>0, <2>4 DEF CapHeld, NoRowNoBox
      <3> QED BY <2>2, <2>4, <3>1
    <2> QED BY <1>3, <2>1, <2>3, <2>4 DEF RestoreQuota, CallFails
  <1>4. CASE ApplyCap(e)
    <2>0. p.at = "apply" /\ UNCHANGED <<capped, incident, quota>> /\ ~p.applied
      BY <1>0, <1>4 DEF ApplyCap, UNC, EnforceKnows
    <2>1. CASE SetCPU(Cap) /\ enforce' = [enforce EXCEPT ![e] =
                    ToSave([p EXCEPT !.capped = FALSE, !.changed = TRUE, !.applied = TRUE])]
      <3>1. enforce'[e].at = "save" /\ enforce'[e].applied
        BY <1>0, <2>1 DEF ToSave, NoEnforce, EnforceStates
      <3> QED BY <3>1 DEF CapHeld
    <2>2. CASE p.changed /\ enforce' = [enforce EXCEPT ![e] = ToSave(p)] /\ UNCHANGED live
      <3>1. enforce'[e].at = "save" /\ ~enforce'[e].applied
        BY <1>0, <2>0, <2>2 DEF ToSave, NoEnforce, EnforceStates
      <3> QED BY <2>0, <2>2, <3>1 DEF CapHeld
    <2>3. CASE ~p.changed /\ enforce' = [enforce EXCEPT ![e] = NoEnforce] /\ UNCHANGED live
      <3>1. enforce'[e].at = "idle" BY <1>0, <2>3 DEF NoEnforce
      <3> QED BY <2>0, <2>3, <3>1 DEF CapHeld
    <2>4. p.changed \/ ~p.changed OBVIOUS
    <2> QED BY <1>0, <1>4, <2>1, <2>2, <2>3 DEF ApplyCap, CallFails, EnforceStates
  <1>5. CASE Save(e)
    <2>0. p.at = "save" /\ UNCHANGED <<live, incident, quota>> BY <1>5 DEF Save, UNC
    <2>1. CASE capped' = p.capped /\ enforce' = [enforce EXCEPT ![e] = NoEnforce]
      <3>1. enforce'[e].at = "idle" BY <1>0, <2>1 DEF NoEnforce
      <3>2. p.applied => capped' # None BY <1>0, <1>n, <2>0, <2>1 DEF EnforceKnows
      <3>3. ~p.applied => live = None \/ live.cpu # Cap BY <2>0 DEF CapHeld
      <3> QED BY <2>0, <3>1, <3>2, <3>3 DEF CapHeld
    <2>2. CASE UNCHANGED capped /\ enforce' = [enforce EXCEPT ![e].at = "rollback"]
      <3>1. enforce'[e].at = "rollback" /\ enforce'[e].applied = p.applied
        BY <1>0, <2>2 DEF EnforceStates
      <3> QED BY <2>0, <2>2, <3>1 DEF CapHeld
    <2> QED BY <1>5, <2>1, <2>2 DEF Save
  <1>6. CASE RollbackCaps(e)
    <2>0. p.at = "rollback" /\ UNCHANGED <<capped, quota>> /\ enforce'[e].at = "idle"
      BY <1>0, <1>6 DEF RollbackCaps, UNC, NoEnforce
    <2>1. p.applied => p.row \in Rows BY <1>0, <2>0 DEF EnforceKnows
    <2>2. CASE p.applied /\ SetCPU(p.row.cpu) /\ UNCHANGED incident
      <3>1. live'.cpu = p.row.cpu BY <1>l, <2>2 DEF SetCPU, Limits
      <3> QED BY <1>c, <2>0, <2>1, <2>2, <3>1 DEF CapHeld, Rows
    <2>3. CASE ~p.applied /\ UNCHANGED <<live, incident>> BY <2>0, <2>3 DEF CapHeld
    <2>4. CASE live = None /\ UNCHANGED <<live, incident>> BY <2>0, <2>4 DEF CapHeld
    <2>5. CASE Happened("lost_cap") BY <2>0, <2>5 DEF CapHeld, Happened
    <2> QED BY <1>6, <2>2, <2>3, <2>4, <2>5 DEF RollbackCaps, RollbackCap
  <1>7. CASE EnforceCrash(e)
    <2>0. UNCHANGED <<live, capped, quota>> /\ enforce'[e].at = "dead"
      BY <1>0, <1>7 DEF EnforceCrash, UNC, Dead, NoEnforce
    <2>1. p.applied /\ p.at \in {"save", "rollback"} => "lost_cap" \in incident'
      BY <1>7 DEF EnforceCrash, Happened
    <2>2. ~(p.applied /\ p.at \in {"save", "rollback"}) => UNCHANGED incident
      BY <1>7 DEF EnforceCrash
    <2> QED BY <2>0, <2>1, <2>2 DEF CapHeld
  <1> QED BY <1>1, <1>2, <1>3, <1>4, <1>5, <1>6, <1>7 DEF Enforce

\* What the others do between two steps of a pass: no container is set to Cap,
\* and a lost account is not found again.
LEMMA CapUndisturbed ==
    ASSUME CpuTyped, NEW e \in Enforcers, CapHeld(e), UNCHANGED enforce,
           quota = None => quota' = None, (capped = None <=> capped' = None),
           "lost_cap" \in incident => "lost_cap" \in incident',
           live' = live \/ live' = None \/ live'.cpu # Cap \/ (live # None /\ live'.cpu = live.cpu)
    PROVE  CapHeld(e)'
  BY DEF CapHeld

LEMMA CapHeldKept ==
    ASSUME CpuTyped, NoRowNoBox, \A e, f \in Enforcers : e = f, [CpuNext]_cpuVars,
           NEW e \in Enforcers, CapHeld(e)
    PROVE  CapHeld(e)'
  <1>c. \A c \in CpuValues : c # Cap BY CpuAssumption
  <1>n. None \notin BOOLEAN BY CpuAssumption
  <1>1. CASE Elapse \/ SetCPULimitRule \/ DropUser \/ RelaunchRead \/ UNCHANGED cpuVars
    BY <1>1, <1>n, CapUndisturbed DEF Elapse, SetCPULimitRule, DropUser, RelaunchRead, BeginPass, cpuVars
  <1>2. CASE Relaunch
    <2>1. relaunch \in Rows BY <1>2 DEF Relaunch, CpuTyped, CpuTypeOK
    <2>2. live' = None \/ live'.cpu # Cap BY <1>c, <1>2, <2>1 DEF Relaunch, Rows
    <2> QED BY <1>2, <2>2, CapUndisturbed DEF Relaunch
  <1>3. ASSUME NEW f \in Enforcers, Enforce(f) \/ EnforceCrash(f) PROVE CapHeld(e)'
    <2>1. f = e OBVIOUS
    <2> QED BY <1>3, <2>1, PassHolds
  <1>4. ASSUME NEW f \in Editors, Edit(f) PROVE CapHeld(e)'
    <2>0. edit[f] \in EditStates /\ EditKnows(edit[f]) /\ (live # None => live \in Limits)
      BY DEF CpuTyped, CpuTypeOK
    <2>1. \A c \in CpuValues : SetCPU(c) => live'.cpu # Cap BY <1>c, <2>0 DEF SetCPU, Limits
    <2>2. \A m \in MemValues : SetMem(m) => live'.cpu = live.cpu /\ live # None
      BY <2>0 DEF SetMem, Limits
    <2>3. CASE EditRead(f) BY <1>4, <2>3, CapUndisturbed DEF EditRead, UNE, BeginPass
    <2>4. CASE EditCall(f, "cpu")
      <3>1. edit[f].ask.cpu \in CpuValues BY <2>0, <2>4 DEF EditCall, EditKnows
      <3> QED BY <2>1, <2>4, <3>1, CapUndisturbed DEF EditCall, UNE, CallFails
    <2>5. CASE EditCall(f, "mem")
      <3>1. edit[f].ask.mem \in MemValues BY <2>0, <2>5 DEF EditCall, EditKnows
      <3> QED BY <2>2, <2>5, <3>1, CapUndisturbed DEF EditCall, UNE, CallFails
    <2>6. CASE EditRow(f)
      <3>1. quota = None => quota' = None BY <2>6 DEF EditRow
      <3> QED BY <2>6, <3>1, CapUndisturbed DEF EditRow, UNE
    <2>7. CASE EditUndo(f)
      <3>1. edit[f].row \in Rows BY <2>0, <2>7 DEF EditUndo, EditKnows
      <3>2. live' = live \/ SetMem(edit[f].row.mem) \/ SetCPU(edit[f].row.cpu) BY <2>7 DEF EditUndo
      <3>3. UNE /\ UNCHANGED quota /\ ("lost_cap" \in incident => "lost_cap" \in incident')
        BY <2>7 DEF EditUndo, Happened
      <3> QED BY <2>1, <2>2, <3>1, <3>2, <3>3, CapUndisturbed DEF UNE, Rows
    <2> QED BY <1>4, <2>3, <2>4, <2>5, <2>6, <2>7 DEF Edit
  <1> QED BY <1>1, <1>2, <1>3, <1>4 DEF CpuNext

\* "a cap without one [a row] is never expired" (rollbackCaps): where one process
\* enforces the limit, no container is left capped without a record, unless a
\* rollback fails too or the process dies before it.
THEOREM CapsAreRecorded ==
    ASSUME NEW panel, Enforcers = {panel}
    PROVE  CpuSpec => []CapRecorded
  <1> DEFINE Inv == CpuTyped /\ NoRowNoBox /\ \A e \in Enforcers : CapHeld(e)
  <1>1. CpuInit => Inv BY CpuTypedInitially, CapHeldInitially
  <1>2. Inv /\ [CpuNext]_cpuVars => Inv' BY CpuTypedKept, BoxMoves, CapHeldKept
  <1>3. Inv => CapRecorded
    <2>1. Between(panel) => enforce[panel].at \notin {"save", "rollback"}
      BY DEF Between, NoEnforce, Dead
    <2> QED BY <2>1 DEF CapRecorded, CapHeld
  <1> QED BY <1>1, <1>2, <1>3, PTL DEF CpuSpec

-----------------------------------------------------------------------------
(* QuotaAgrees, however many enforce and edit *)

\* One enforcement, edit or reinstall at a time.
OneAtATime ==
    /\ \A e, f \in Enforcers : Between(e) \/ Between(f) \/ e = f
    /\ \A e, f \in Editors : edit[e] = NoEdit \/ edit[f] = NoEdit \/ e = f
    /\ \A e \in Enforcers, f \in Editors : Between(e) \/ edit[f] = NoEdit
    /\ relaunch # None => (\A e \in Enforcers : Between(e)) /\ (\A e \in Editors : edit[e] = NoEdit)

MemAgrees == live.mem = quota.mem
CpuAgrees == live.cpu = quota.cpu \/ (live.cpu = Cap /\ capped # None /\ Cap < quota.cpu)

\* What a pass that nothing overlaps knows of the row and of the container.
EnforceAgrees(p) ==
    /\ MemAgrees
    /\ p.at \in {"restore", "apply"} => p.row = quota /\ CpuAgrees
    /\ p.at = "restore" \/ (p.at = "apply" /\ ~p.changed) => (p.capped = None <=> capped = None)
    /\ p.at = "apply" /\ p.changed => live.cpu = quota.cpu
    /\ p.at \in {"save", "rollback"} =>
          IF p.applied THEN p.row = quota /\ live.cpu = Cap /\ Cap < quota.cpu
          ELSE live.cpu = quota.cpu

\* And an edit: what it has asked for is set, what it has not still agrees.
MemAsked(ask) == IF ask.mem = None THEN MemAgrees ELSE live.mem = ask.mem
CpuAsked(ask) == IF ask.cpu = None THEN CpuAgrees ELSE live.cpu = ask.cpu

EditAgrees(d) ==
    /\ d.row = quota
    /\ d.at = "cpu" => MemAgrees /\ CpuAgrees
    /\ d.at = "mem" => MemAgrees /\ CpuAsked(d.ask)
    /\ d.at = "row" => MemAsked(d.ask) /\ CpuAsked(d.ask)
    /\ d.at = "undo_mem" => CpuAsked(d.ask)
    /\ d.at = "undo_cpu" => MemAgrees

Settled ==
    /\ ~Busy => MemAgrees /\ CpuAgrees
    /\ \A e \in Enforcers : ~Between(e) => EnforceAgrees(enforce[e])
    /\ \A e \in Editors : edit[e] # NoEdit => EditAgrees(edit[e])

\* Only this pass, or only this edit, is under way.
OnlyPass(e) ==
    /\ \A f \in Enforcers : Between(f) \/ f = e
    /\ \A f \in Editors : edit[f] = NoEdit
    /\ relaunch = None

OnlyEdit(e) ==
    /\ \A f \in Enforcers : Between(f)
    /\ \A f \in Editors : edit[f] = NoEdit \/ f = e
    /\ relaunch = None

PassAgrees(e) == IF Between(e) THEN MemAgrees /\ CpuAgrees ELSE EnforceAgrees(enforce[e])
FormAgrees(e) == IF edit[e] = NoEdit THEN MemAgrees /\ CpuAgrees ELSE EditAgrees(edit[e])

QuotaHeld ==
    incident = {} =>
        /\ OneAtATime
        /\ relaunch # None => relaunch = quota
        /\ live # None => Settled

LEMMA QuotaHeldInitially == CpuInit => QuotaHeld
  <1> SUFFICES ASSUME CpuInit PROVE QuotaHeld OBVIOUS
  <1>1. \A e \in Enforcers : Between(e) BY DEF CpuInit, Between
  <1>2. MemAgrees /\ CpuAgrees BY DEF CpuInit, MemAgrees, CpuAgrees, Rows
  <1> QED BY <1>1, <1>2 DEF CpuInit, QuotaHeld, OneAtATime, Settled

\* Where only one is under way, what it knows is all there is to know.
LEMMA PassAlone ==
    ASSUME NEW e \in Enforcers, OnlyPass(e)', live' # None => PassAgrees(e)', relaunch' = None
    PROVE  QuotaHeld'
  BY DEF OnlyPass, PassAgrees, QuotaHeld, OneAtATime, Settled, Busy

LEMMA FormAlone ==
    ASSUME NEW e \in Editors, OnlyEdit(e)', live' # None => FormAgrees(e)', relaunch' = None
    PROVE  QuotaHeld'
  BY DEF OnlyEdit, FormAgrees, QuotaHeld, OneAtATime, Settled, Busy

\* A pass, or an edit, that begins alone or goes on.
LEMMA PassIsAlone ==
    ASSUME QuotaHeld, incident = {}, NEW e \in Enforcers, ~Between(e) \/ ~Busy
    PROVE  OnlyPass(e) /\ (live # None => PassAgrees(e))
  BY DEF OnlyPass, PassAgrees, QuotaHeld, OneAtATime, Settled, Busy

LEMMA FormIsAlone ==
    ASSUME QuotaHeld, incident = {}, NEW e \in Editors, edit[e] # NoEdit \/ ~Busy
    PROVE  OnlyEdit(e) /\ (live # None => FormAgrees(e))
  BY DEF OnlyEdit, FormAgrees, QuotaHeld, OneAtATime, Settled, Busy

\* The others stay as they are while one of them acts.
LEMMA PassStaysAlone ==
    ASSUME NEW e \in Enforcers, OnlyPass(e), CpuTyped, NEW q, enforce' = [enforce EXCEPT ![e] = q], UNC
    PROVE  OnlyPass(e)' /\ relaunch' = None /\ enforce'[e] = q /\ UNCHANGED quota
  BY DEF OnlyPass, Between, UNC, CpuTyped, CpuTypeOK

LEMMA FormStaysAlone ==
    ASSUME NEW e \in Editors, OnlyEdit(e), CpuTyped, NEW d, edit' = [edit EXCEPT ![e] = d], UNE
    PROVE  OnlyEdit(e)' /\ relaunch' = None /\ edit'[e] = d /\ UNCHANGED capped
  BY DEF OnlyEdit, Between, UNE, CpuTyped, CpuTypeOK

LEMMA PassIsBusy ==
    ASSUME CpuTyped, NEW e \in Enforcers
    PROVE  Between(e) <=> enforce[e].at \in {"idle", "dead"}
  <1>1. NoEnforce.at = "idle" /\ Dead.at = "dead" BY DEF NoEnforce, Dead
  <1> QED BY <1>1 DEF CpuTyped, EnforceKnows, Between

\* A pass that goes on alone keeps to the row.
LEMMA PassKeeps ==
    ASSUME CpuTyped, NoRowNoBox, NEW e \in Enforcers, ~Between(e), OnlyPass(e),
           live # None => PassAgrees(e),
           RestoreQuota(e) \/ ApplyCap(e) \/ Save(e) \/ RollbackCaps(e) \/ EnforceCrash(e),
           incident = {}, incident' = {}
    PROVE  QuotaHeld'
  <1> DEFINE p == enforce[e]
  <1>0. p \in EnforceStates /\ EnforceKnows(p) /\ enforce \in [Enforcers -> EnforceStates]
    BY DEF CpuTyped, CpuTypeOK
  <1>k. EnforceKnows(p) /\ EnforceKnows(enforce'[e]) /\ (Between(e)' <=> enforce'[e].at \in {"idle", "dead"})
    <2>1. CpuTyped' BY EnforceTyped DEF Enforce
    <2>2. NoEnforce.at = "idle" /\ Dead.at = "dead" BY DEF NoEnforce, Dead
    <2> QED BY <1>0, <2>1, <2>2 DEF CpuTyped, EnforceKnows, Between
  <1>a. live # None => EnforceAgrees(p) BY DEF PassAgrees
  <1>u. UNC
    BY DEF RestoreQuota, ApplyCap, Save, RollbackCaps, EnforceCrash
  <1>o. PICK q : enforce' = [enforce EXCEPT ![e] = q]
    BY DEF RestoreQuota, ApplyCap, Save, RollbackCaps, EnforceCrash
  <1>v. OnlyPass(e)' /\ relaunch' = None /\ UNCHANGED quota BY <1>o, <1>u, PassStaysAlone
  <1> SUFFICES live' # None => PassAgrees(e)' BY <1>v, PassAlone
  <1>l. live # None => live \in Limits BY DEF CpuTyped, CpuTypeOK
  <1>1. CASE RestoreQuota(e)
    <2>0. p.at = "restore" /\ UNCHANGED <<capped, quota>> /\ ~p.changed /\ ~p.applied
      BY <1>0, <1>1 DEF RestoreQuota, UNC, EnforceKnows
    <2>1. CASE enforce' = [enforce EXCEPT ![e] = [p EXCEPT !.at = "apply"]] /\ UNCHANGED live
      <3>1. /\ enforce'[e].at = "apply" /\ enforce'[e].row = p.row /\ ~enforce'[e].changed
            /\ enforce'[e].capped = p.capped
        BY <1>0, <2>0, <2>1 DEF EnforceStates
      <3> QED BY <1>a, <1>k, <2>0, <2>1, <3>1 DEF PassAgrees, EnforceAgrees, MemAgrees, CpuAgrees
    <2>2. CASE Lifted(p) /\ SetCPU(p.row.cpu)
                 /\ enforce' = [enforce EXCEPT ![e] = [[p EXCEPT !.capped = None, !.changed = TRUE]
                                                         EXCEPT !.at = "apply"]]
      <3>1. /\ enforce'[e].at = "apply" /\ enforce'[e].row = p.row /\ enforce'[e].changed
        BY <1>0, <2>2 DEF EnforceStates
      <3>2. live # None /\ live'.cpu = p.row.cpu /\ live'.mem = live.mem BY <1>l, <2>2 DEF SetCPU, Limits
      <3> QED BY <1>a, <1>k, <2>0, <3>1, <3>2 DEF PassAgrees, EnforceAgrees, MemAgrees, CpuAgrees
    <2>3. CASE p.row = None /\ UNCHANGED live
      <3>1. live = None BY <1>a, <2>0, <2>3 DEF EnforceAgrees, NoRowNoBox
      <3> QED BY <2>3, <3>1
    <2> QED BY <1>1, <2>1, <2>2, <2>3 DEF RestoreQuota, CallFails
  <1>2. CASE ApplyCap(e)
    <2>0. p.at = "apply" /\ UNCHANGED <<capped, quota>> /\ ~p.applied
      BY <1>0, <1>2 DEF ApplyCap, UNC, EnforceKnows
    <2>1. CASE /\ SetCPU(Cap) /\ p.capped = None /\ p.row # None /\ ~RaisesQuota(p)
               /\ enforce' = [enforce EXCEPT ![e] =
                    ToSave([p EXCEPT !.capped = FALSE, !.changed = TRUE, !.applied = TRUE])]
      <3>1. enforce'[e].at = "save" /\ enforce'[e].applied /\ enforce'[e].row = p.row
        BY <1>0, <2>1 DEF ToSave, NoEnforce, EnforceStates
      <3>2. live # None /\ live'.cpu = Cap /\ live'.mem = live.mem BY <1>l, <2>1 DEF SetCPU, Limits
      <3>3. p.row \in Rows BY <1>0, <2>1 DEF EnforceStates
      <3>4. Cap < p.row.cpu BY <2>1, <3>3, CpuAssumption DEF RaisesQuota, Rows
      <3> QED BY <1>a, <1>k, <2>0, <3>1, <3>2, <3>4 DEF PassAgrees, EnforceAgrees, MemAgrees
    <2>2. CASE p.changed /\ enforce' = [enforce EXCEPT ![e] = ToSave(p)] /\ UNCHANGED live
      <3>1. enforce'[e].at = "save" /\ ~enforce'[e].applied
        BY <1>0, <2>0, <2>2 DEF ToSave, NoEnforce, EnforceStates
      <3> QED BY <1>a, <1>k, <2>0, <2>2, <3>1 DEF PassAgrees, EnforceAgrees, MemAgrees
    <2>3. CASE ~p.changed /\ enforce' = [enforce EXCEPT ![e] = NoEnforce] /\ UNCHANGED live
      <3>1. enforce'[e].at = "idle" BY <1>0, <2>3 DEF NoEnforce
      <3> QED BY <1>a, <1>k, <2>0, <2>3, <3>1 DEF PassAgrees, EnforceAgrees, MemAgrees, CpuAgrees
    <2> QED BY <1>0, <1>2, <2>1, <2>2, <2>3 DEF ApplyCap, CallFails, EnforceStates
  <1>3. CASE Save(e)
    <2>0. p.at = "save" /\ UNCHANGED <<live, quota>> BY <1>3 DEF Save, UNC
    <2>1. CASE capped' = p.capped /\ enforce' = [enforce EXCEPT ![e] = NoEnforce]
      <3>1. enforce'[e].at = "idle" BY <1>0, <2>1 DEF NoEnforce
      <3>2. p.applied => capped' # None BY <1>0, <2>0, <2>1, CpuAssumption DEF EnforceKnows
      <3> QED BY <1>a, <1>k, <2>0, <3>1, <3>2 DEF PassAgrees, EnforceAgrees, MemAgrees, CpuAgrees
    <2>2. CASE UNCHANGED capped /\ enforce' = [enforce EXCEPT ![e].at = "rollback"]
      <3>1. enforce'[e].at = "rollback" /\ enforce'[e].applied = p.applied /\ enforce'[e].row = p.row
        BY <1>0, <2>2 DEF EnforceStates
      <3> QED BY <1>a, <1>k, <2>0, <3>1 DEF PassAgrees, EnforceAgrees, MemAgrees
    <2> QED BY <1>3, <2>1, <2>2 DEF Save
  <1>4. CASE RollbackCaps(e)
    <2>0. p.at = "rollback" /\ UNCHANGED <<capped, quota>> /\ enforce'[e].at = "idle"
      BY <1>0, <1>4 DEF RollbackCaps, UNC, NoEnforce
    <2>1. CASE p.applied /\ SetCPU(p.row.cpu)
      <3>1. live # None /\ live'.cpu = p.row.cpu /\ live'.mem = live.mem BY <1>l, <2>1 DEF SetCPU, Limits
      <3> QED BY <1>a, <1>k, <2>0, <2>1, <3>1 DEF PassAgrees, EnforceAgrees, MemAgrees, CpuAgrees
    <2>2. CASE ~p.applied /\ UNCHANGED live
      BY <1>a, <1>k, <2>0, <2>2 DEF PassAgrees, EnforceAgrees, MemAgrees, CpuAgrees
    <2>3. CASE live = None /\ UNCHANGED live BY <2>3
    <2>4. ~Happened("lost_cap") BY DEF Happened
    <2> QED BY <1>4, <2>1, <2>2, <2>3, <2>4 DEF RollbackCaps, RollbackCap
  <1>5. CASE EnforceCrash(e)
    <2>0. UNCHANGED <<live, capped, quota>> /\ enforce'[e].at = "dead"
      BY <1>0, <1>5 DEF EnforceCrash, UNC, Dead, NoEnforce
    <2>1. ~(p.applied /\ p.at \in {"save", "rollback"}) BY <1>5 DEF EnforceCrash, Happened
    <2>2. p.at \in {"restore", "apply", "save", "rollback"}
      BY <1>0, PassIsBusy DEF EnforceStates
    <2> QED BY <1>a, <1>k, <2>0, <2>1, <2>2 DEF PassAgrees, EnforceAgrees, MemAgrees, CpuAgrees
  <1> QED BY <1>1, <1>2, <1>3, <1>4, <1>5

\* An edit that goes on alone leaves the container and the row in agreement.
LEMMA FormKeeps ==
    ASSUME CpuTyped, NoRowNoBox, NEW e \in Editors, edit[e] # NoEdit, OnlyEdit(e),
           live # None => FormAgrees(e),
           EditCall(e, "cpu") \/ EditCall(e, "mem") \/ EditRow(e) \/ EditUndo(e),
           incident = {}, incident' = {}
    PROVE  QuotaHeld'
  <1> DEFINE d == edit[e]
  <1>0. /\ d \in EditStates /\ EditKnows(d) /\ d.row \in Rows /\ d.ask \in Asked
        /\ edit \in [Editors -> EditStates] /\ d.at # "idle"
    BY DEF CpuTyped, CpuTypeOK, EditKnows
  <1>a. live # None => EditAgrees(d) BY DEF FormAgrees
  <1>u. UNE BY DEF EditCall, EditRow, EditUndo
  <1>o. PICK q : edit' = [edit EXCEPT ![e] = q] BY DEF EditCall, EditRow, EditUndo, EditAt
  <1>v. OnlyEdit(e)' /\ relaunch' = None /\ UNCHANGED capped BY <1>o, <1>u, FormStaysAlone
  <1> SUFFICES live' # None => FormAgrees(e)' BY <1>v, FormAlone
  <1>l. live # None => live \in Limits BY DEF CpuTyped, CpuTypeOK
  <1>m. ASSUME NEW step, EditAt(e, step)
        PROVE  /\ step = "idle" => edit'[e] = NoEdit
               /\ step # "idle" => /\ edit'[e].at = step /\ edit'[e].row = d.row /\ edit'[e].ask = d.ask
                                   /\ edit'[e] # NoEdit
    BY <1>0, <1>m DEF EditAt, EditStates, NoEdit
  <1>q. live # None => quota # None BY DEF NoRowNoBox
  <1> USE DEF EditAgrees, MemAgrees, CpuAgrees, MemAsked, CpuAsked
  <1>1. CASE EditCall(e, "cpu")
    <2>0. d.at = "cpu" /\ UNCHANGED <<quota, capped>> /\ d.ask.cpu # None
      BY <1>0, <1>1, <1>v, CpuAssumption DEF EditCall, EditKnows
    <2>1. CASE SetCPU(d.ask.cpu) /\ EditAt(e, After(d.ask, "cpu"))
      <3>1. live # None /\ live'.cpu = d.ask.cpu /\ live'.mem = live.mem BY <1>l, <2>1 DEF SetCPU, Limits
      <3>2. After(d.ask, "cpu") = IF d.ask.mem # None THEN "mem" ELSE "row" BY DEF After
      <3>3. EditAgrees(edit[e])'
        BY <1>a, <1>m, <2>0, <2>1, <3>1, <3>2
      <3>4. edit'[e] # NoEdit BY <1>m, <2>1, <3>2
      <3> QED BY <3>3, <3>4 DEF FormAgrees
    <2>2. CASE UNCHANGED live /\ EditAt(e, Undone(d.ask, "cpu"))
      <3>1. edit'[e] = NoEdit BY <1>m, <2>2 DEF Undone
      <3> QED BY <1>a, <2>0, <2>2, <3>1 DEF FormAgrees
    <2> QED BY <1>1, <2>1, <2>2 DEF EditCall, CallFails
  <1>2. CASE EditCall(e, "mem")
    <2>0. d.at = "mem" /\ UNCHANGED <<quota, capped>> /\ d.ask.mem # None
      BY <1>0, <1>2, <1>v, CpuAssumption DEF EditCall, EditKnows
    <2>1. CASE SetMem(d.ask.mem) /\ EditAt(e, After(d.ask, "mem"))
      <3>1. live # None /\ live'.mem = d.ask.mem /\ live'.cpu = live.cpu BY <1>l, <2>1 DEF SetMem, Limits
      <3>2. After(d.ask, "mem") = "row" BY DEF After
      <3>3. EditAgrees(edit[e])' BY <1>a, <1>m, <2>0, <2>1, <3>1, <3>2
      <3>4. edit'[e] # NoEdit BY <1>m, <2>1, <3>2
      <3> QED BY <3>3, <3>4 DEF FormAgrees
    <2>2. CASE UNCHANGED live /\ EditAt(e, Undone(d.ask, "mem"))
      <3>1. CASE d.ask.cpu # None
        <4>1. edit'[e].at = "undo_cpu" /\ edit'[e].row = d.row /\ edit'[e] # NoEdit
          BY <1>m, <2>2, <3>1 DEF Undone
        <4> QED BY <1>a, <2>0, <2>2, <4>1 DEF FormAgrees
      <3>2. CASE d.ask.cpu = None
        <4>1. edit'[e] = NoEdit BY <1>m, <2>2, <3>2 DEF Undone
        <4> QED BY <1>a, <2>0, <2>2, <3>2, <4>1 DEF FormAgrees
      <3> QED BY <3>1, <3>2
    <2> QED BY <1>2, <2>1, <2>2 DEF EditCall, CallFails
  <1>3. CASE EditRow(e)
    <2>0. d.at = "row" /\ UNCHANGED <<live, capped>> BY <1>3, <1>v DEF EditRow
    <2>1. CASE edit' = [edit EXCEPT ![e] = NoEdit]
               /\ quota' = IF quota = None THEN None
                           ELSE [quota EXCEPT !.cpu = Chosen(d.ask.cpu, d.row.cpu),
                                              !.mem = Chosen(d.ask.mem, d.row.mem)]
      <3>1. edit'[e] = NoEdit BY <1>0, <2>1
      <3>2. live # None => /\ d.row = quota
                           /\ quota'.cpu = Chosen(d.ask.cpu, d.row.cpu)
                           /\ quota'.mem = Chosen(d.ask.mem, d.row.mem)
        BY <1>0, <1>a, <1>q, <2>1 DEF Rows
      <3> QED BY <1>a, <2>0, <3>1, <3>2 DEF FormAgrees, Chosen
    <2>2. CASE EditAt(e, Undone(d.ask, "row")) /\ UNCHANGED quota
      <3>1. CASE d.ask.mem # None
        <4>1. edit'[e].at = "undo_mem" /\ edit'[e].row = d.row /\ edit'[e].ask = d.ask /\ edit'[e] # NoEdit
          BY <1>m, <2>2, <3>1 DEF Undone
        <4> QED BY <1>a, <2>0, <2>2, <4>1 DEF FormAgrees
      <3>2. CASE d.ask.mem = None /\ d.ask.cpu # None
        <4>1. edit'[e].at = "undo_cpu" /\ edit'[e].row = d.row /\ edit'[e] # NoEdit
          BY <1>m, <2>2, <3>2 DEF Undone
        <4> QED BY <1>a, <2>0, <2>2, <3>2, <4>1 DEF FormAgrees
      <3>3. d.ask.mem # None \/ d.ask.cpu # None BY <1>0 DEF Asked
      <3> QED BY <3>1, <3>2, <3>3
    <2> QED BY <1>3, <2>1, <2>2 DEF EditRow
  <1>4. CASE EditUndo(e)
    <2>0. UNCHANGED <<quota, capped>> /\ ~Happened("half_done") BY <1>4, <1>v DEF EditUndo, Happened
    <2>1. CASE d.at = "undo_mem"
      <3>1. CASE SetMem(d.row.mem) /\ EditAt(e, IF d.ask.cpu # None THEN "undo_cpu" ELSE "idle")
        <4>1. live # None /\ live'.mem = d.row.mem /\ live'.cpu = live.cpu BY <1>l, <3>1 DEF SetMem, Limits
        <4>2. CASE d.ask.cpu # None
          <5>1. edit'[e].at = "undo_cpu" /\ edit'[e].row = d.row /\ edit'[e] # NoEdit BY <1>m, <3>1, <4>2
          <5> QED BY <1>a, <2>0, <2>1, <4>1, <5>1 DEF FormAgrees
        <4>3. CASE d.ask.cpu = None
          <5>1. edit'[e] = NoEdit BY <1>m, <3>1, <4>3
          <5> QED BY <1>a, <2>0, <2>1, <4>1, <4>3, <5>1 DEF FormAgrees
        <4> QED BY <4>2, <4>3
      <3>2. CASE live' = None BY <3>2
      <3> QED BY <1>4, <2>0, <2>1, <3>1, <3>2 DEF EditUndo
    <2>2. CASE d.at = "undo_cpu"
      <3>1. CASE SetCPU(d.row.cpu) /\ EditAt(e, "idle")
        <4>1. live # None /\ live'.cpu = d.row.cpu /\ live'.mem = live.mem BY <1>l, <3>1 DEF SetCPU, Limits
        <4>2. edit'[e] = NoEdit BY <1>m, <3>1
        <4> QED BY <1>a, <2>0, <2>2, <4>1, <4>2 DEF FormAgrees
      <3>2. CASE live' = None BY <3>2
      <3> QED BY <1>4, <2>0, <2>2, <3>1, <3>2 DEF EditUndo
    <2> QED BY <1>4, <2>1, <2>2 DEF EditUndo
  <1> QED BY <1>1, <1>2, <1>3, <1>4

\* A step that touches neither passes nor edits, and the container only by
\* deleting it.
LEMMA QuotaUndisturbed ==
    ASSUME QuotaHeld, incident' = incident, UNCHANGED <<enforce, edit>>, capped = None <=> capped' = None,
           \/ UNCHANGED <<quota, live, relaunch>>
           \/ live' = None /\ relaunch = None /\ relaunch' = None
    PROVE  QuotaHeld'
  BY DEF QuotaHeld, OneAtATime, Settled, Busy, Between, EnforceAgrees, EditAgrees, MemAgrees, CpuAgrees,
         MemAsked, CpuAsked

LEMMA QuotaHeldKept ==
    ASSUME CpuTyped, NoRowNoBox, QuotaHeld, [CpuNext]_cpuVars
    PROVE  QuotaHeld'
  <1>0. incident \subseteq incident'
    BY DEF CpuNext, Elapse, SetCPULimitRule, DropUser, RelaunchRead, Relaunch, Enforce, EnforceRead,
           EnforceRestart, RestoreQuota, ApplyCap, Save, RollbackCaps, EnforceCrash, Edit, EditRead,
           EditCall, EditRow, EditUndo, BeginPass, Happened, cpuVars
  <1> SUFFICES ASSUME incident' = {} PROVE QuotaHeld' BY DEF QuotaHeld
  <1>i. incident = {} BY <1>0
  <1>1. CASE UNCHANGED cpuVars \/ SetCPULimitRule \/ DropUser
    BY <1>1, QuotaUndisturbed DEF cpuVars, SetCPULimitRule, DropUser
  <1>2. CASE Elapse BY <1>2, QuotaUndisturbed, CpuAssumption DEF Elapse
  <1>3. CASE RelaunchRead
    <2>1. ~Busy /\ relaunch' = quota /\ UNCHANGED <<quota, live, enforce, edit>>
      BY <1>3 DEF RelaunchRead, BeginPass
    <2>2. /\ \A e \in Enforcers : Between(e)' /\ \A d \in Editors : edit'[d] = NoEdit
      BY <2>1 DEF Busy, Between
    <2>3. relaunch' # None BY <1>3 DEF RelaunchRead
    <2> QED BY <2>1, <2>2, <2>3 DEF QuotaHeld, OneAtATime, Settled, Busy
  <1>4. CASE Relaunch
    <2>1. relaunch = quota /\ \A e \in Enforcers : Between(e) /\ \A d \in Editors : edit[d] = NoEdit
      BY <1>4, <1>i DEF Relaunch, QuotaHeld, OneAtATime
    <2>2. /\ \A e \in Enforcers : Between(e)' /\ \A d \in Editors : edit'[d] = NoEdit
      BY <1>4, <2>1 DEF Relaunch, Between
    <2>3. live' # None => (MemAgrees /\ CpuAgrees)'
      BY <1>4, <2>1 DEF Relaunch, MemAgrees, CpuAgrees
    <2> QED BY <1>4, <2>2, <2>3 DEF Relaunch, QuotaHeld, OneAtATime, Settled
  <1>5. ASSUME NEW e \in Enforcers, Enforce(e) \/ EnforceCrash(e) PROVE QuotaHeld'
    <2>1. CASE EnforceRead(e)
      <3>1. ~Busy BY <2>1 DEF EnforceRead, BeginPass
      <3>2. OnlyPass(e) /\ (live # None => PassAgrees(e)) BY <1>i, <3>1, PassIsAlone
      <3>3. Between(e) /\ relaunch = None BY <3>1 DEF Busy
      <3>4. live # None => MemAgrees /\ CpuAgrees BY <3>2, <3>3 DEF PassAgrees
      <3>5. OnlyPass(e)' /\ relaunch' = None BY <2>1, <3>2, PassStaysAlone DEF EnforceRead
      <3>6. /\ enforce'[e].at = "restore" /\ enforce'[e].capped = capped /\ enforce'[e].row = quota
            /\ ~enforce'[e].applied /\ ~enforce'[e].changed
        BY <2>1 DEF EnforceRead, NoEnforce, CpuTyped, CpuTypeOK
      <3>7. UNCHANGED <<live, capped, quota>> BY <2>1 DEF EnforceRead, UNC
      <3>8. live' # None => PassAgrees(e)'
        BY <3>4, <3>6, <3>7 DEF PassAgrees, Between, NoEnforce, Dead, EnforceAgrees, MemAgrees, CpuAgrees
      <3> QED BY <3>5, <3>8, PassAlone
    <2>2. CASE EnforceRestart(e)
      <3>1. \A f \in Enforcers : (Between(f)' <=> Between(f)) /\ (f = e \/ enforce'[f] = enforce[f])
        BY <2>2 DEF EnforceRestart, Between, CpuTyped, CpuTypeOK
      <3>2. Between(e) /\ UNCHANGED <<quota, live, capped, incident, edit, relaunch>>
        BY <2>2 DEF EnforceRestart, Between, UNC
      <3> QED BY <3>1, <3>2 DEF QuotaHeld, OneAtATime, Settled, Busy, EnforceAgrees, EditAgrees, MemAgrees,
                                CpuAgrees, MemAsked, CpuAsked
    <2>3. CASE RestoreQuota(e) \/ ApplyCap(e) \/ Save(e) \/ RollbackCaps(e) \/ EnforceCrash(e)
      <3>1. ~Between(e)
        BY <2>3, PassIsBusy DEF RestoreQuota, ApplyCap, Save, RollbackCaps, EnforceCrash
      <3> QED BY <1>i, <2>3, <3>1, PassIsAlone, PassKeeps
    <2> QED BY <1>5, <2>1, <2>2, <2>3 DEF Enforce
  <1>6. ASSUME NEW e \in Editors, Edit(e) PROVE QuotaHeld'
    <2>1. CASE EditRead(e)
      <3>1. ~Busy BY <2>1 DEF EditRead, BeginPass
      <3>2. OnlyEdit(e) /\ (live # None => FormAgrees(e)) BY <1>i, <3>1, FormIsAlone
      <3>3. edit[e] = NoEdit /\ relaunch = None BY <3>1 DEF Busy
      <3>4. live # None => MemAgrees /\ CpuAgrees BY <3>2, <3>3 DEF FormAgrees
      <3>5. PICK ask \in Asked :
               edit' = [edit EXCEPT ![e] = [at |-> After(ask, "start"), row |-> quota, ask |-> ask]]
        BY <2>1 DEF EditRead
      <3>6. OnlyEdit(e)' /\ relaunch' = None BY <2>1, <3>2, <3>5, FormStaysAlone DEF EditRead
      <3>7. edit'[e] = [at |-> After(ask, "start"), row |-> quota, ask |-> ask]
        BY <3>5 DEF CpuTyped, CpuTypeOK
      <3>8. UNCHANGED <<live, capped, quota>> BY <2>1 DEF EditRead, UNE
      <3>9. After(ask, "start") = IF ask.cpu # None THEN "cpu" ELSE IF ask.mem # None THEN "mem" ELSE "row"
        BY DEF After
      <3>10. live' # None => EditAgrees(edit[e])'
        BY <3>4, <3>7, <3>8, <3>9 DEF EditAgrees, MemAgrees, CpuAgrees, MemAsked, CpuAsked
      <3>11. edit'[e] # NoEdit BY <3>7, <3>9 DEF NoEdit
      <3>12. live' # None => FormAgrees(e)' BY <3>10, <3>11 DEF FormAgrees
      <3> QED BY <3>6, <3>12, FormAlone
    <2>2. CASE EditCall(e, "cpu") \/ EditCall(e, "mem") \/ EditRow(e) \/ EditUndo(e)
      <3>1. edit[e] # NoEdit BY <2>2 DEF EditCall, EditRow, EditUndo, NoEdit
      <3> QED BY <1>i, <2>2, <3>1, FormIsAlone, FormKeeps
    <2> QED BY <1>6, <2>1, <2>2 DEF Edit
  <1> QED BY <1>1, <1>2, <1>3, <1>4, <1>5, <1>6 DEF CpuNext

\* "the live config and the database cannot disagree" (UpdateQuotas): unless two
\* of them overlap or an undo fails, the container and the row agree between
\* edits, passes and reinstalls, but for a recorded cap below the quota.
THEOREM QuotasAgree == CpuSpec => []QuotaAgrees
  <1> DEFINE Inv == CpuTyped /\ NoRowNoBox /\ QuotaHeld
  <1>1. CpuInit => Inv BY CpuTypedInitially, CapHeldInitially, QuotaHeldInitially
  <1>2. Inv /\ [CpuNext]_cpuVars => Inv' BY CpuTypedKept, BoxMoves, QuotaHeldKept
  <1>3. Inv => QuotaAgrees BY DEF QuotaAgrees, QuotaHeld, Settled, MemAgrees, CpuAgrees
  <1> QED BY <1>1, <1>2, <1>3, PTL DEF CpuSpec

\* CpuSafe, which host_safety checks: both of them where one process enforces.
THEOREM CpuIsSafe ==
    ASSUME NEW panel, Enforcers = {panel}
    PROVE  CpuSpec => []CpuTypeOK /\ []CpuSafe
  <1>1. CpuSpec => []CpuTyped
    <2>1. CpuTyped /\ [CpuNext]_cpuVars => CpuTyped' BY CpuTypedKept
    <2> QED BY <2>1, CpuTypedInitially, PTL DEF CpuSpec
  <1>2. CpuTyped => CpuTypeOK BY DEF CpuTyped
  <1>3. CpuSpec => []CapRecorded BY CapsAreRecorded
  <1>4. CpuSafe <=> CapRecorded /\ QuotaAgrees BY DEF CpuSafe
  <1> QED BY <1>1, <1>2, <1>3, <1>4, QuotasAgree, PTL

=============================================================================
