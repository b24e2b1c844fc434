------------------------- MODULE Containers_proofs --------------------------
(***************************************************************************)
(* Theorems about what is done to a container: the power operations and    *)
(* the expiry check, the checkpoints and the share flag.                   *)
(***************************************************************************)
EXTENDS Power, Snapshots, FiniteSetTheorems, TLAPS

-----------------------------------------------------------------------------
(***************************************************************************)
(* Power and expiry (Power)                                                *)
(***************************************************************************)

\* The container, the check and the operations have their types.
LEMMA PowerTyped == PowerSpec => []PowerTypeOK
  <1>1. PowerInit => PowerTypeOK
    BY PowerBounds DEF PowerInit, PowerTypeOK, Times, NotExtending
  <1>2. ASSUME PowerTypeOK, [PowerNext]_powerVars PROVE PowerTypeOK'
    <2> USE <1>2, PowerBounds DEF PowerTypeOK, Times, NotExtending
    <2>1. CASE Tick BY <2>1 DEF Tick
    <2>2. CASE GuestShutdown BY <2>2 DEF GuestShutdown
    <2>3. CASE HostReboot BY <2>3 DEF HostReboot
    <2>4. CASE Admit BY <2>4 DEF Admit
    <2>5. CASE PowerAutostart BY <2>5 DEF PowerAutostart
    <2>6. CASE PowerAct BY <2>6 DEF PowerAct
    <2>7. CASE Relaunched
      <3>1. container' \in [up: BOOLEAN, auto: BOOLEAN] /\ ready' \in BOOLEAN
        <4>1. CASE container' = [up |-> TRUE, auto |-> TRUE] /\ ready' = TRUE
          BY <4>1
        <4>2. CASE UNCHANGED <<container, ready>>
          BY <4>2
        <4> QED BY <2>7, <4>1, <4>2 DEF Relaunched
      <3> QED BY <2>7, <3>1 DEF Relaunched
    <2>8. CASE ExpiryPass
      BY <2>8 DEF ExpiryPass, PanelStarts, ExpiryList, ExpiryState, ExpiryStateFails,
                  ExpiryAutostart, ExpiryForceStop
    <2>9. CASE SetForever BY <2>9 DEF SetForever
    <2>10. ASSUME NEW e \in Extenders, ExtendRead(e) PROVE PowerTypeOK'
      BY <2>10 DEF ExtendRead, Permanent
    <2>11. ASSUME NEW e \in Extenders, ExtendWrite(e) PROVE PowerTypeOK'
      BY <2>11 DEF ExtendWrite
    <2>12. CASE UNCHANGED powerVars BY <2>12 DEF powerVars
    <2> QED
      BY <1>2, <2>1, <2>2, <2>3, <2>4, <2>5, <2>6, <2>7, <2>8, <2>9, <2>10, <2>11, <2>12
      DEF PowerNext
  <1> QED BY <1>1, <1>2, PTL DEF PowerSpec

\* What keeps a stopped account down: while anybody is admitted no pass counts
\* as undisturbed, and one that is has cleared boot.autostart before it stops
\* the container.
StopHeld ==
    /\ admitted # "none" => enforced = "no"
    /\ enforced = "clear" /\ check = "stop" => ~container.auto
    /\ enforced = "yes" => ~container.up /\ ~container.auto

LEMMA StopHeldKept ==
    ASSUME PowerTypeOK, StopHeld, [PowerNext]_powerVars
    PROVE  StopHeld'
  <1> USE DEF StopHeld, PowerTypeOK
  <1>1. CASE Tick BY <1>1 DEF Tick
  <1>2. CASE GuestShutdown BY <1>2 DEF GuestShutdown
  <1>3. CASE HostReboot BY <1>3 DEF HostReboot
  <1>4. CASE Admit BY <1>4 DEF Admit
  <1>5. CASE PowerAutostart BY <1>5 DEF PowerAutostart
  <1>6. CASE PowerAct BY <1>6 DEF PowerAct
  <1>7. CASE Relaunched BY <1>7 DEF Relaunched
  <1>8. CASE ExpiryPass
    <2>1. CASE ExpiryList BY <2>1 DEF ExpiryList
    <2>2. CASE ExpiryAutostart BY <2>2 DEF ExpiryAutostart
    <2>3. CASE ExpiryForceStop BY <2>3 DEF ExpiryForceStop
    <2>4. CASE PanelStarts \/ ExpiryState \/ ExpiryStateFails
      BY <2>4 DEF PanelStarts, ExpiryState, ExpiryStateFails
    <2> QED BY <1>8, <2>1, <2>2, <2>3, <2>4 DEF ExpiryPass
  <1>9. CASE SetForever BY <1>9 DEF SetForever
  <1>10. CASE \E e \in Extenders : ExtendRead(e) \/ ExtendWrite(e)
    BY <1>10 DEF ExtendRead, ExtendWrite
  <1>11. CASE UNCHANGED powerVars BY <1>11 DEF powerVars
  <1> QED
    BY <1>1, <1>2, <1>3, <1>4, <1>5, <1>6, <1>7, <1>8, <1>9, <1>10, <1>11 DEF PowerNext

\* For every clock and any number of extension forms: what a pass has stopped
\* stays down while the account is expired and nobody was admitted since.
THEOREM ExpiredAccountsStayDown == PowerSpec => []ExpiredStaysDown
  <1>1. PowerInit => StopHeld BY DEF PowerInit, StopHeld
  <1>2. PowerTypeOK /\ StopHeld /\ [PowerNext]_powerVars => StopHeld'
    BY StopHeldKept
  <1>3. StopHeld => ExpiredStaysDown BY DEF StopHeld, ExpiredStaysDown
  <1> QED BY <1>1, <1>2, <1>3, PowerTyped, PTL DEF PowerSpec

-----------------------------------------------------------------------------
(***************************************************************************)
(* Checkpoints and sharing (Snapshots)                                     *)
(***************************************************************************)

\* SnapTypeOK, and what the operation under opMu has in hand at each point.
OpKnows ==
    /\ op.kind = "none" <=> op = NoOp
    /\ op.at = "-" <=> op.kind = "none"
    /\ op.at = "take" <=> op.kind = "create"
    /\ op.at \in {"restore", "discard", "discard_each", "start", "restart"} <=> op.kind = "restore"
    /\ op.at = "prune" <=> op.kind = "share"
    /\ op.at \in {"clone", "replace"} <=> op.kind = "install"
    /\ op.kind # "none" => op.box \in Boxes
    /\ op.kind \in {"restore", "share", "install"} => op.snap \in Marks
    /\ op.kind = "install" => op.src \in Boxes
    /\ spare = IF op.at = "replace" THEN [box |-> op.src, snap |-> op.snap] ELSE None

\* Every checkpoint that is kept anywhere was taken, and those being deleted
\* are gone.
Taken(s) == s \in Marks => s <= taken
AllTaken ==
    /\ \A b \in Boxes : /\ \A s \in snaps[b] : Taken(s)
                        /\ Taken(share[b])
                        /\ origin[b] # None => Taken(origin[b].snap)
    /\ Taken(op.snap)
    /\ \A d \in deleting : Taken(d.snap) /\ d.snap \notin snaps[d.box]

\* Nothing is older than a checkpoint that is shared, cloned or about to be,
\* but what the share under way will delete.
IsOldest(b, s) == \A t \in snaps[b] : t >= s
AllOldest ==
    /\ \A b \in Boxes : share[b] # None => IsOldest(b, share[b])
    /\ \A b \in Boxes : origin[b] # None => IsOldest(origin[b].box, origin[b].snap)
    /\ op.kind = "install" => IsOldest(op.src, op.snap)
    /\ op.kind = "share" => \A t \in snaps[op.box] : t >= op.snap \/ t \in op.todo

\* A create that has counted has room.
AllFit ==
    /\ SnapshotCap
    /\ op.kind = "create" => Roomy(op.box)

SnapInv == SnapTypeOK /\ OpKnows /\ AllTaken /\ AllOldest /\ AllFit

LEMMA SnapInitially == SnapInit => SnapTypeOK /\ OpKnows
  BY SnapBounds DEF SnapInit, SnapTypeOK, OpKnows, NoOp, OpStates

\* What a step leaves is typed, and the operation knows what it has in hand.
LEMMA SnapTypedKept ==
    ASSUME SnapTypeOK, OpKnows, [SnapNext]_snapVars
    PROVE  SnapTypeOK' /\ OpKnows'
  <1>1. ASSUME NEW b \in Boxes, CreateCount(b) PROVE SnapTypeOK' /\ OpKnows'
    BY <1>1 DEF CreateCount, SnapTypeOK, OpKnows, NoOp, OpStates
  <1>2. ASSUME NEW b \in Boxes, Revoke(b) PROVE SnapTypeOK' /\ OpKnows'
    BY <1>2 DEF Revoke, SnapTypeOK, OpKnows, NoOp, OpStates
  <1>3. ASSUME NEW b \in Boxes, Rebuild(b) PROVE SnapTypeOK' /\ OpKnows'
    BY <1>3 DEF Rebuild, Emptied, SnapTypeOK, OpKnows, NoOp, OpStates
  <1>4. ASSUME NEW b \in Boxes, NEW s \in Marks, DeleteSnapshot(b, s) PROVE SnapTypeOK' /\ OpKnows'
    <2>1. snaps' \in [Boxes -> SUBSET Marks] BY <1>4 DEF DeleteSnapshot, IncusDelete, SnapTypeOK
    <2>2. deleting' \subseteq Origins BY <1>4 DEF DeleteSnapshot, SnapTypeOK, Origins
    <2> QED BY <1>4, <2>1, <2>2 DEF DeleteSnapshot, SnapTypeOK, OpKnows
  <1>5. ASSUME NEW b \in Boxes, NEW s \in Marks, RestoreBegin(b, s) PROVE SnapTypeOK' /\ OpKnows'
    BY <1>5, ZenonT(60) DEF RestoreBegin, StopForRestore, SnapTypeOK, OpKnows, NoOp, OpStates
  <1>6. ASSUME NEW b \in Boxes, NEW s \in Marks, ShareList(b, s) PROVE SnapTypeOK' /\ OpKnows'
    BY <1>6 DEF ShareList, Older, SnapTypeOK, OpKnows, NoOp, OpStates
  <1>7. ASSUME NEW d \in deleting, DeleteShareRow(d) PROVE SnapTypeOK' /\ OpKnows'
    BY <1>7 DEF DeleteShareRow, UnshareSnapshot, SnapTypeOK, OpKnows, NoOp, OpStates
  <1>8. ASSUME NEW b \in Boxes, NEW o \in Boxes, InstallResolve(b, o) PROVE SnapTypeOK' /\ OpKnows'
    <2>0. share[o] \in Marks /\ op = NoOp /\ spare = None /\ up[b] \in BOOLEAN
      BY <1>8 DEF InstallResolve, SnapTypeOK, OpKnows, NoOp
    <2>1. CASE o = b
      <3>1. CASE UNCHANGED <<up, op>> BY <1>8, <2>0, <2>1, <3>1 DEF InstallResolve, StopForRestore, SnapTypeOK, OpKnows
      <3>2. CASE /\ up' = [up EXCEPT ![b] = FALSE]
                 /\ op' = [NoOp EXCEPT !.kind = "restore", !.at = "restore", !.box = b, !.snap = share[b],
                                       !.was = up[b]]
        <4>1. op' \in OpStates /\ OpKnows'
          BY <1>8, <2>0, <2>1, <3>2 DEF InstallResolve, StopForRestore, OpKnows, NoOp, OpStates
        <4> QED BY <1>8, <2>1, <3>2, <4>1 DEF InstallResolve, StopForRestore, SnapTypeOK
      <3> QED BY <1>8, <2>1, <3>1, <3>2 DEF InstallResolve, StopForRestore
    <2>2. CASE o # b
      <3>1. op' \in OpStates /\ OpKnows' BY <1>8, <2>0, <2>2, ZenonT(60) DEF InstallResolve, OpKnows, NoOp, OpStates
      <3> QED BY <1>8, <2>2, <3>1 DEF InstallResolve, SnapTypeOK
    <2> QED BY <2>1, <2>2
  <1>9. CASE CreateTake
    <2>1. taken' \in 0..MaxSnap /\ snaps' \in [Boxes -> SUBSET Marks]
      BY <1>9, SnapBounds DEF CreateTake, SnapTypeOK, OpKnows, Marks
    <2>2. op' = NoOp /\ NoOp \in OpStates /\ spare = None BY <1>9 DEF CreateTake, OpKnows, NoOp, OpStates
    <2> QED BY <1>9, <2>1, <2>2 DEF CreateTake, SnapTypeOK, OpKnows, NoOp
  <1>10. CASE IncusRestore BY <1>10 DEF IncusRestore, Newer, SnapTypeOK, OpKnows, NoOp, OpStates
  <1>11. CASE DiscardList
    <2>1. op.kind = "restore" /\ op.box \in Boxes /\ op.snap \in Marks BY <1>11 DEF DiscardList, OpKnows
    <2>2. Newer(op.box, op.snap) \in SUBSET Marks BY <2>1 DEF Newer, SnapTypeOK
    <2>3. CASE op' = [op EXCEPT !.at = "restart"] BY <1>11, <2>1, <2>3 DEF DiscardList, SnapTypeOK, OpKnows, NoOp, OpStates
    <2>4. ASSUME NEW todo \in SUBSET Marks, op' = [op EXCEPT !.at = "discard_each", !.todo = todo]
          PROVE  SnapTypeOK' /\ OpKnows'
      BY <1>11, <2>1, <2>4 DEF DiscardList, SnapTypeOK, OpKnows, NoOp, OpStates
    <2> QED BY <1>11, <2>2, <2>3, <2>4, ZenonT(60) DEF DiscardList
  <1>12. CASE DiscardEach
    <2>1. op.kind = "restore" /\ op.box \in Boxes /\ op.snap \in Marks BY <1>12 DEF DiscardEach, OpKnows
    <2>2. snaps' \in [Boxes -> SUBSET Marks] BY <1>12 DEF DiscardEach, IncusDelete, SnapTypeOK
    <2>3. CASE op' = [op EXCEPT !.at = "restart"]
      BY <1>12, <2>1, <2>2, <2>3 DEF DiscardEach, SnapTypeOK, OpKnows, NoOp, OpStates
    <2>4. CASE op' = [op EXCEPT !.at = "restore", !.retried = TRUE]
      BY <1>12, <2>1, <2>2, <2>4 DEF DiscardEach, SnapTypeOK, OpKnows, NoOp, OpStates
    <2>5. ASSUME NEW s \in op.todo, op' = [op EXCEPT !.todo = @ \ {s}] PROVE SnapTypeOK' /\ OpKnows'
      BY <1>12, <2>1, <2>2, <2>5 DEF DiscardEach, SnapTypeOK, OpKnows, NoOp, OpStates
    <2> QED BY <1>12, <2>3, <2>4, <2>5 DEF DiscardEach
  <1>13. CASE RestoreEnd BY <1>13 DEF RestoreEnd, StartAgain, Restarted, SnapTypeOK, OpKnows, NoOp, OpStates
  <1>14. CASE SharePrune
    <2>1. op.kind = "share" /\ op.box \in Boxes /\ op.snap \in Marks /\ spare = None BY <1>14 DEF SharePrune, OpKnows
    <2>2. snaps' \in [Boxes -> SUBSET Marks] BY <1>14 DEF SharePrune, IncusDelete, SnapTypeOK
    <2>3. share' \in [Boxes -> Marks \cup {None}]
      BY <1>14, <2>1 DEF SharePrune, UnshareSnapshot, SnapTypeOK
    <2>4. CASE op' = NoOp
      BY <1>14, <2>1, <2>2, <2>3, <2>4 DEF SharePrune, SnapTypeOK, OpKnows, NoOp, OpStates
    <2>5. ASSUME NEW s \in op.todo, op' = [op EXCEPT !.todo = @ \ {s}] PROVE SnapTypeOK' /\ OpKnows'
      BY <1>14, <2>1, <2>2, <2>3, <2>5 DEF SharePrune, SnapTypeOK, OpKnows, NoOp, OpStates
    <2> QED BY <1>14, <2>4, <2>5 DEF SharePrune, PruneFailed
  <1>15. CASE InstallClone
    <2>1. op.kind = "install" /\ op.src \in Boxes /\ op.snap \in Marks /\ spare = None BY <1>15 DEF InstallClone, OpKnows
    <2>2. CASE op' = NoOp /\ UNCHANGED spare
      BY <1>15, <2>1, <2>2 DEF InstallClone, SnapTypeOK, OpKnows, NoOp, OpStates
    <2>3. CASE op' = [op EXCEPT !.at = "replace"] /\ spare' = [box |-> op.src, snap |-> op.snap]
      <3>1. spare' \in Origins BY <2>1, <2>3 DEF Origins
      <3>2. op' \in OpStates /\ OpKnows' BY <2>1, <2>3 DEF SnapTypeOK, OpKnows, NoOp, OpStates
      <3> QED BY <1>15, <3>1, <3>2 DEF InstallClone, SnapTypeOK
    <2> QED BY <1>15, <2>2, <2>3 DEF InstallClone
  <1>16. CASE InstallReplace BY <1>16 DEF InstallReplace, Emptied, SnapTypeOK, OpKnows, NoOp, OpStates
  <1>17. CASE InstallRollback BY <1>17 DEF InstallRollback, Emptied, SnapTypeOK, OpKnows, NoOp, OpStates
  <1>18. CASE UNCHANGED snapVars BY <1>18 DEF snapVars, SnapTypeOK, OpKnows, NoOp, OpStates
  <1> QED BY <1>1, <1>2, <1>3, <1>4, <1>5, <1>6, <1>7, <1>8, <1>9, <1>10, <1>11, <1>12, <1>13, <1>14, <1>15, <1>16, <1>17, <1>18 DEF SnapNext

\* What nearly every step leaves of the checkpoints, their codes and the clones:
\* no more than there was.
Shrinks ==
    /\ taken' = taken /\ deleting' \subseteq deleting
    /\ \A b \in Boxes : /\ snaps'[b] \subseteq snaps[b]
                        /\ share'[b] \in {share[b], None}
                        /\ origin'[b] \in {origin[b], None}

LEMMA StepShrinks ==
    ASSUME SnapTypeOK, OpKnows, [SnapNext]_snapVars
    PROVE  \/ Shrinks \/ CreateTake \/ InstallReplace
           \/ \E b \in Boxes, s \in Marks : DeleteSnapshot(b, s)
           \/ op.kind = "share" /\ op.todo = {} /\ SharePrune
  <1>1. ASSUME NEW b \in Boxes, CreateCount(b) PROVE Shrinks
    BY <1>1 DEF CreateCount, SnapTypeOK, OpKnows, Shrinks
  <1>2. ASSUME NEW b \in Boxes, Revoke(b) PROVE Shrinks
    BY <1>2 DEF Revoke, SnapTypeOK, OpKnows, Shrinks
  <1>3. ASSUME NEW b \in Boxes, Rebuild(b) PROVE Shrinks
    BY <1>3 DEF Rebuild, Emptied, SnapTypeOK, OpKnows, Shrinks
  <1>4. ASSUME NEW b \in Boxes, NEW s \in Marks, RestoreBegin(b, s) PROVE Shrinks
    BY <1>4 DEF RestoreBegin, StopForRestore, SnapTypeOK, OpKnows, Shrinks
  <1>5. ASSUME NEW b \in Boxes, NEW s \in Marks, ShareList(b, s) PROVE Shrinks
    BY <1>5 DEF ShareList, Older, SnapTypeOK, OpKnows, Shrinks
  <1>6. ASSUME NEW d \in deleting, DeleteShareRow(d) PROVE Shrinks
    BY <1>6 DEF DeleteShareRow, UnshareSnapshot, SnapTypeOK, OpKnows, Shrinks
  <1>7. ASSUME NEW b \in Boxes, NEW o \in Boxes, InstallResolve(b, o) PROVE Shrinks
    BY <1>7 DEF InstallResolve, StopForRestore, SnapTypeOK, OpKnows, Shrinks
  <1>8. CASE IncusRestore BY <1>8 DEF IncusRestore, Newer, SnapTypeOK, OpKnows, Shrinks
  <1>9. CASE DiscardList BY <1>9 DEF DiscardList, Newer, SnapTypeOK, OpKnows, Shrinks
  <1>10. CASE DiscardEach BY <1>10 DEF DiscardEach, IncusDelete, SnapTypeOK, OpKnows, Shrinks
  <1>11. CASE RestoreEnd BY <1>11 DEF RestoreEnd, StartAgain, Restarted, SnapTypeOK, OpKnows, Shrinks
  <1>12. CASE SharePrune /\ op.todo # {} /\ snaps # snaps' BY <1>12 DEF SharePrune, IncusDelete, UnshareSnapshot, PruneFailed, SnapTypeOK, OpKnows, Shrinks
  <1>13. CASE SharePrune /\ op.todo # {} /\ snaps = snaps' BY <1>13 DEF SharePrune, IncusDelete, UnshareSnapshot, PruneFailed, SnapTypeOK, OpKnows, Shrinks
  <1>14. SharePrune => op.kind = "share" BY DEF SharePrune, OpKnows
  <1>15. CASE InstallClone BY <1>15 DEF InstallClone, SnapTypeOK, OpKnows, Shrinks
  <1>16. CASE InstallRollback BY <1>16 DEF InstallRollback, Emptied, SnapTypeOK, OpKnows, Shrinks
  <1>17. CASE UNCHANGED snapVars BY <1>17 DEF snapVars, Shrinks
  <1> QED BY <1>1, <1>2, <1>3, <1>4, <1>5, <1>6, <1>7, <1>8, <1>9, <1>10, <1>11, <1>12, <1>13, <1>14, <1>15, <1>16, <1>17 DEF SnapNext

\* What an operation has in hand is what it had, or what it has just read.
OpReads ==
    /\ \/ op'.snap \in {op.snap, None}
       \/ \E b \in Boxes : op'.snap \in snaps[b]
    /\ op'.kind = "install" =>
          \/ op.kind = "install" /\ op'.src = op.src /\ op'.snap = op.snap
          \/ op'.src \in Boxes /\ op'.snap \in Marks /\ op'.snap = share[op'.src]
    /\ op'.kind = "share" =>
          \/ /\ op.kind = "share" /\ op'.box = op.box /\ op'.snap = op.snap
             /\ \/ op'.todo = op.todo
                \/ \E s \in op.todo : op'.todo = op.todo \ {s} /\ s \notin snaps'[op.box]
          \/ op'.box \in Boxes /\ op'.snap \in Marks /\ op'.todo = Older(op'.box, op'.snap)
    /\ op'.kind = "create" => (op.kind = "create" /\ op'.box = op.box) \/ Roomy(op'.box)

LEMMA OpMoves ==
    ASSUME SnapTypeOK, OpKnows, [SnapNext]_snapVars
    PROVE  OpReads
  <1>1. ASSUME NEW b \in Boxes, CreateCount(b) PROVE OpReads
    BY <1>1 DEF CreateCount, SnapTypeOK, OpStates, OpKnows, NoOp, OpReads, Counted
  <1>2. ASSUME NEW b \in Boxes, Revoke(b) PROVE OpReads
    BY <1>2 DEF Revoke, SnapTypeOK, OpStates, OpKnows, NoOp, OpReads
  <1>3. ASSUME NEW b \in Boxes, Rebuild(b) PROVE OpReads
    BY <1>3 DEF Rebuild, Emptied, SnapTypeOK, OpStates, OpKnows, NoOp, OpReads
  <1>4. ASSUME NEW b \in Boxes, NEW s \in Marks, DeleteSnapshot(b, s) PROVE OpReads
    BY <1>4 DEF DeleteSnapshot, IncusDelete, SnapTypeOK, OpStates, OpKnows, NoOp, OpReads
  <1>5. ASSUME NEW b \in Boxes, NEW s \in Marks, RestoreBegin(b, s) PROVE OpReads
    <2>1. (op'.kind = "restore" /\ op'.snap = s) \/ (op' = NoOp /\ op = NoOp)
      BY <1>5 DEF RestoreBegin, StopForRestore, NoOp
    <2> QED BY <1>5, <2>1 DEF RestoreBegin, NoOp, OpReads
  <1>6. ASSUME NEW b \in Boxes, NEW s \in Marks, ShareList(b, s) PROVE OpReads
    BY <1>6 DEF ShareList, Older, SnapTypeOK, OpStates, OpKnows, NoOp, OpReads
  <1>7. ASSUME NEW d \in deleting, DeleteShareRow(d) PROVE OpReads
    BY <1>7 DEF DeleteShareRow, UnshareSnapshot, SnapTypeOK, OpStates, OpKnows, NoOp, OpReads
  <1>8. ASSUME NEW b \in Boxes, NEW o \in Boxes, InstallResolve(b, o) PROVE OpReads
    <2>0. share[o] \in Marks /\ share[o] \in snaps[o] /\ op = NoOp BY <1>8 DEF InstallResolve, SnapTypeOK
    <2>1. \/ op'.kind = "restore" /\ op'.snap = share[o]
          \/ op' = NoOp
          \/ op'.kind = "install" /\ op'.src = o /\ op'.snap = share[o]
      BY <1>8, <2>0, ZenonT(60) DEF InstallResolve, StopForRestore, NoOp
    <2> QED BY <2>0, <2>1 DEF NoOp, OpReads
  <1>9. CASE CreateTake BY <1>9 DEF CreateTake, SnapTypeOK, OpStates, OpKnows, NoOp, OpReads
  <1>10. CASE IncusRestore BY <1>10 DEF IncusRestore, Newer, SnapTypeOK, OpStates, OpKnows, NoOp, OpReads
  <1>11. CASE DiscardList BY <1>11 DEF DiscardList, Newer, SnapTypeOK, OpStates, OpKnows, NoOp, OpReads
  <1>12. CASE DiscardEach BY <1>12 DEF DiscardEach, IncusDelete, SnapTypeOK, OpStates, OpKnows, NoOp, OpReads
  <1>13. CASE RestoreEnd BY <1>13 DEF RestoreEnd, StartAgain, Restarted, SnapTypeOK, OpStates, OpKnows, NoOp, OpReads
  <1>14. CASE SharePrune BY <1>14 DEF SharePrune, IncusDelete, UnshareSnapshot, PruneFailed, SnapTypeOK, OpStates, OpKnows, NoOp, OpReads
  <1>15. CASE InstallClone BY <1>15 DEF InstallClone, SnapTypeOK, OpStates, OpKnows, NoOp, OpReads
  <1>16. CASE InstallReplace BY <1>16 DEF InstallReplace, Emptied, SnapTypeOK, OpStates, OpKnows, NoOp, OpReads
  <1>17. CASE InstallRollback BY <1>17 DEF InstallRollback, Emptied, SnapTypeOK, OpStates, OpKnows, NoOp, OpReads
  <1>18. CASE UNCHANGED snapVars BY <1>18 DEF snapVars, OpReads
  <1> QED BY <1>1, <1>2, <1>3, <1>4, <1>5, <1>6, <1>7, <1>8, <1>9, <1>10, <1>11, <1>12, <1>13, <1>14, <1>15, <1>16, <1>17, <1>18 DEF SnapNext

LEMMA AllTakenKept ==
    ASSUME SnapTypeOK, OpKnows, AllTaken, [SnapNext]_snapVars
    PROVE  AllTaken'
  <1> USE DEF AllTaken, Taken
  <1>m. Marks \subseteq Nat /\ None \notin Marks /\ taken \in Nat BY SnapBounds DEF Marks, SnapTypeOK
  <1>o. op'.snap \in {op.snap, None} \/ \E b \in Boxes : op'.snap \in snaps[b] BY OpMoves DEF OpReads
  <1>1. CASE Shrinks
    <2>1. \A b \in Boxes : /\ \A s \in snaps'[b] : s \in Marks => s <= taken'
                           /\ share'[b] \in Marks => share'[b] <= taken'
      BY <1>1, <1>m DEF Shrinks
    <2>2. \A b \in Boxes : origin'[b] # None => (origin'[b].snap \in Marks => origin'[b].snap <= taken')
      BY <1>1 DEF Shrinks
    <2>3. op'.snap \in Marks => op'.snap <= taken' BY <1>1, <1>m, <1>o DEF Shrinks
    <2>4. \A d \in deleting' : /\ d.snap \in Marks => d.snap <= taken'
                               /\ d.snap \notin snaps'[d.box]
      <3>1. \A d \in deleting : d.box \in Boxes BY DEF SnapTypeOK, Origins
      <3> QED BY <1>1, <3>1 DEF Shrinks
    <2> QED BY <2>1, <2>2, <2>3, <2>4
  <1>2. CASE CreateTake
    <2>0. op.box \in Boxes BY <1>2 DEF CreateTake, OpKnows
    <2>1. op'.snap = None BY <1>2 DEF CreateTake, NoOp
    <2>2. \/ UNCHANGED <<snaps, taken>>
          \/ taken' = taken + 1 /\ snaps' = [snaps EXCEPT ![op.box] = @ \cup {taken + 1}]
      BY <1>2 DEF CreateTake
    <2>3. \A d \in deleting : d.box \in Boxes /\ d.snap \in Marks BY DEF SnapTypeOK, Origins
    <2>4. \A b \in Boxes : snaps[b] \subseteq Marks /\ snaps'[b] \subseteq snaps[b] \cup {taken + 1}
      BY <2>0, <2>2 DEF SnapTypeOK
    <2>5. taken' >= taken /\ (taken' = taken => UNCHANGED snaps) /\ taken' \in Nat
          /\ (taken' # taken => taken' = taken + 1)
      BY <1>m, <2>2
    <2>6. UNCHANGED <<share, origin, deleting>> BY <1>2 DEF CreateTake
    <2>7. \A b \in Boxes : \A s \in snaps'[b] : s \in Marks => s <= taken' BY <1>m, <2>4, <2>5
    <2>8. \A d \in deleting : d.snap \notin snaps'[d.box] BY <1>m, <2>3, <2>4, <2>5
    <2>a. \A s \in Marks : s <= taken => s <= taken' BY <1>m, <2>5
    <2>9. \A b \in Boxes : share[b] \in Marks => share[b] <= taken' BY <2>a
    <2>10. \A b \in Boxes : origin[b] # None => (origin[b].snap \in Marks => origin[b].snap <= taken')
      BY <2>a
    <2>11. \A d \in deleting : d.snap <= taken' BY <2>3, <2>a
    <2> QED BY <1>m, <2>1, <2>6, <2>7, <2>8, <2>9, <2>10, <2>11
  <1>3. CASE InstallReplace
    <2>0. op.box \in Boxes /\ spare = [box |-> op.src, snap |-> op.snap] BY <1>3 DEF InstallReplace, OpKnows
    <2>1. \A b \in Boxes : /\ snaps'[b] \subseteq snaps[b] /\ share'[b] \in {share[b], None}
                           /\ origin'[b] = origin[b] \/ origin'[b] = spare
      BY <1>3, <2>0 DEF InstallReplace, Emptied, SnapTypeOK
    <2>2. op'.snap = None /\ UNCHANGED <<taken, deleting>> BY <1>3 DEF InstallReplace, NoOp
    <2>3. \A d \in deleting : d.box \in Boxes BY DEF SnapTypeOK, Origins
    <2> QED BY <1>m, <2>0, <2>1, <2>2, <2>3
  <1>4. ASSUME NEW b \in Boxes, NEW s \in Marks, DeleteSnapshot(b, s) PROVE AllTaken'
    <2>1. /\ \A c \in Boxes : snaps'[c] \subseteq snaps[c]
          /\ s \notin snaps'[b] /\ s \in snaps[b]
      BY <1>4 DEF DeleteSnapshot, IncusDelete, SnapTypeOK
    <2>2. UNCHANGED <<share, origin, op, taken>> /\ deleting' = deleting \cup {[box |-> b, snap |-> s]}
      BY <1>4 DEF DeleteSnapshot
    <2>3. \A d \in deleting : d.box \in Boxes BY DEF SnapTypeOK, Origins
    <2> QED BY <2>1, <2>2, <2>3
  <1>5. CASE op.kind = "share" /\ op.todo = {} /\ SharePrune
    <2>0. op.box \in Boxes BY <1>5 DEF OpKnows
    <2>1. /\ \A b \in Boxes : share'[b] = share[b] \/ share'[b] = op.snap
          /\ UNCHANGED <<snaps, origin, deleting, taken>>
      BY <1>5, <2>0 DEF SharePrune, SnapTypeOK
    <2> QED BY <1>m, <1>o, <2>1
  <1> QED BY <1>1, <1>2, <1>3, <1>4, <1>5, StepShrinks

LEMMA SnapsShrink ==
    ASSUME SnapTypeOK, OpKnows, [SnapNext]_snapVars, ~CreateTake
    PROVE  \A b \in Boxes : snaps'[b] \subseteq snaps[b]
  <1>1. CASE Shrinks BY <1>1 DEF Shrinks
  <1>2. CASE InstallReplace BY <1>2 DEF InstallReplace, Emptied, SnapTypeOK
  <1>3. ASSUME NEW b \in Boxes, NEW s \in Marks, DeleteSnapshot(b, s)
        PROVE  \A c \in Boxes : snaps'[c] \subseteq snaps[c]
    BY <1>3 DEF DeleteSnapshot, IncusDelete, SnapTypeOK
  <1>4. CASE op.kind = "share" /\ op.todo = {} /\ SharePrune BY <1>4 DEF SharePrune
  <1> QED BY <1>1, <1>2, <1>3, <1>4, StepShrinks

LEMMA AllOldestKept ==
    ASSUME SnapTypeOK, OpKnows, AllTaken, AllOldest, [SnapNext]_snapVars
    PROVE  AllOldest'
  <1> USE DEF AllOldest, IsOldest
  <1>m. Marks \subseteq Nat /\ None \notin Marks /\ taken \in Nat BY SnapBounds DEF Marks, SnapTypeOK
  <1>b. /\ \A b \in Boxes : snaps[b] \subseteq Marks /\ share[b] \in Marks \cup {None}
        /\ \A b \in Boxes : origin[b] # None => origin[b].box \in Boxes /\ origin[b].snap \in Marks
    BY DEF SnapTypeOK, Origins
  <1>c. OpReads BY OpMoves
  <1>i. op.kind = "install" => op.src \in Boxes BY DEF OpKnows
  <1>s. op.kind = "share" => op.box \in Boxes BY DEF OpKnows
  <1>0. ASSUME ~CreateTake
        PROVE  /\ op'.kind = "install" => IsOldest(op.src, op.snap)'
               /\ op'.kind = "share" => \A t \in snaps'[op'.box] : t >= op'.snap \/ t \in op'.todo
    <2>0. \A b \in Boxes : snaps'[b] \subseteq snaps[b] BY <1>0, SnapsShrink
    <2>1. op'.kind = "install" => IsOldest(op.src, op.snap)'
      BY <1>b, <1>c, <1>i, <1>m, <2>0 DEF OpReads
    <2>2. ASSUME op'.kind = "share", op.kind = "share", op'.box = op.box, op'.snap = op.snap
          PROVE  (\/ op'.todo = op.todo
                  \/ \E s \in op.todo : op'.todo = op.todo \ {s} /\ s \notin snaps'[op.box])
                 => \A t \in snaps'[op'.box] : t >= op'.snap \/ t \in op'.todo
      BY <1>s, <2>0, <2>2
    <2>3. ASSUME op'.box \in Boxes, op'.snap \in Marks, op'.todo = Older(op'.box, op'.snap)
          PROVE  \A t \in snaps'[op'.box] : t >= op'.snap \/ t \in op'.todo
      <3>1. ASSUME NEW t \in snaps'[op'.box], t \notin op'.todo PROVE t >= op'.snap
        <4>1. t \in snaps[op'.box] /\ t \in Nat /\ op'.snap \in Nat BY <1>b, <1>m, <2>0, <2>3, <3>1
        <4>2. ~(t < op'.snap) BY <2>3, <3>1, <4>1 DEF Older
        <4> QED BY <4>1, <4>2
      <3> QED BY <3>1
    <2> QED BY <1>c, <2>1, <2>2, <2>3 DEF OpReads
  <1>1. CASE Shrinks
    <2>1. \A b \in Boxes : share'[b] # None => \A t \in snaps'[b] : t >= share'[b]
      BY <1>1 DEF Shrinks
    <2>2. \A b \in Boxes : origin'[b] # None => \A t \in snaps'[origin'[b].box] : t >= origin'[b].snap
      BY <1>1, <1>b DEF Shrinks
    <2>3. ~CreateTake \/ UNCHANGED <<snaps>>
      BY <1>1, <1>m DEF CreateTake, Shrinks
    <2>4. CreateTake => op' = NoOp BY DEF CreateTake
    <2> QED BY <1>0, <2>1, <2>2, <2>4 DEF NoOp
  <1>2. CASE CreateTake
    <2>0. op.box \in Boxes BY <1>2 DEF CreateTake, OpKnows
    <2>1. op'.kind = "none" /\ UNCHANGED <<share, origin>> BY <1>2 DEF CreateTake, NoOp
    <2>2. \A b \in Boxes : snaps'[b] \subseteq snaps[b] \cup {taken + 1}
      BY <1>2, <2>0 DEF CreateTake, SnapTypeOK
    <2>3. \A b \in Boxes : share[b] # None => share[b] \in Marks /\ share[b] <= taken
      BY <1>b DEF AllTaken, Taken
    <2>4. \A b \in Boxes : origin[b] # None => origin[b].snap <= taken
      BY <1>b DEF AllTaken, Taken
    <2>5. \A b \in Boxes : share[b] # None => \A t \in snaps'[b] : t >= share[b]
      <3>1. SUFFICES ASSUME NEW b \in Boxes, share[b] # None, NEW t \in snaps'[b] PROVE t >= share[b]
        OBVIOUS
      <3>2. t \in snaps[b] \/ t = taken + 1 BY <2>2
      <3>3. share[b] \in Nat /\ share[b] <= taken BY <1>m, <2>3, <3>1
      <3>4. taken + 1 >= share[b] BY <1>m, <3>3
      <3> QED BY <3>1, <3>2, <3>4
    <2>6. \A b \in Boxes : origin[b] # None => \A t \in snaps'[origin[b].box] : t >= origin[b].snap
      <3>1. SUFFICES ASSUME NEW b \in Boxes, origin[b] # None, NEW t \in snaps'[origin[b].box]
                     PROVE  t >= origin[b].snap
        OBVIOUS
      <3>2. t \in snaps[origin[b].box] \/ t = taken + 1 BY <1>b, <2>2, <3>1
      <3>3. origin[b].snap \in Nat /\ origin[b].snap <= taken BY <1>b, <1>m, <2>4, <3>1
      <3>4. taken + 1 >= origin[b].snap BY <1>m, <3>3
      <3> QED BY <3>1, <3>2, <3>4
    <2> QED BY <2>1, <2>5, <2>6
  <1>3. CASE InstallReplace
    <2>0. /\ op.box \in Boxes /\ op.src \in Boxes /\ op.snap \in Marks
          /\ spare = [box |-> op.src, snap |-> op.snap] /\ op.kind = "install"
      BY <1>3 DEF InstallReplace, OpKnows
    <2>1. \A b \in Boxes : /\ snaps'[b] \subseteq snaps[b] /\ share'[b] \in {share[b], None}
                           /\ origin'[b] = origin[b] \/ origin'[b] = spare
      BY <1>3, <2>0 DEF InstallReplace, Emptied, SnapTypeOK
    <2>2. op'.kind = "none" BY <1>3 DEF InstallReplace, NoOp
    <2>3. \A b \in Boxes : share'[b] # None => \A t \in snaps'[b] : t >= share'[b] BY <2>1
    <2>4. \A b \in Boxes : origin'[b] # None => \A t \in snaps'[origin'[b].box] : t >= origin'[b].snap
      BY <1>b, <2>0, <2>1
    <2> QED BY <2>2, <2>3, <2>4
  <1>4. ASSUME NEW b \in Boxes, NEW s \in Marks, DeleteSnapshot(b, s) PROVE AllOldest'
    <2>1. \A c \in Boxes : snaps'[c] \subseteq snaps[c]
      BY <1>4 DEF DeleteSnapshot, IncusDelete, SnapTypeOK
    <2>2. UNCHANGED <<share, origin, op>> BY <1>4 DEF DeleteSnapshot
    <2> QED BY <1>b, <1>i, <1>s, <2>1, <2>2
  <1>5. CASE op.kind = "share" /\ op.todo = {} /\ SharePrune
    <2>1. UNCHANGED <<snaps, origin>> /\ op'.kind = "none" BY <1>5 DEF SharePrune, NoOp
    <2>2. \A b \in Boxes : share'[b] = share[b] \/ (b = op.box /\ share'[b] = op.snap)
      BY <1>5, <1>s DEF SharePrune, SnapTypeOK
    <2> QED BY <1>5, <2>1, <2>2
  <1> QED BY <1>1, <1>2, <1>3, <1>4, <1>5, StepShrinks

LEMMA AllFitKept ==
    ASSUME SnapTypeOK, OpKnows, OpKnows', AllFit, [SnapNext]_snapVars
    PROVE  AllFit'
  <1> USE DEF AllFit, SnapshotCap, Roomy
  <1>f. \A b \in Boxes : IsFiniteSet(snaps[b]) /\ Cardinality(snaps[b]) \in Nat
    <2>1. IsFiniteSet(Marks) BY FS_Interval, SnapBounds DEF Marks
    <2> QED BY <2>1, FS_Subset, FS_CardinalityType DEF SnapTypeOK
  <1>1. CASE CreateTake
    <2>0. op.box \in Boxes /\ op.kind = "create" BY <1>1 DEF CreateTake, OpKnows
    <2>1. op'.kind = "none" BY <1>1 DEF CreateTake, NoOp
    <2>2. \A b \in Boxes : Cardinality(snaps'[b]) <= SnapLimit
      <3>1. SUFFICES ASSUME NEW b \in Boxes PROVE Cardinality(snaps'[b]) <= SnapLimit OBVIOUS
      <3>2. CASE snaps'[b] = snaps[b] BY <3>2
      <3>3. CASE b = op.box /\ snaps'[b] = snaps[b] \cup {taken + 1}
        <4>0. /\ IsFiniteSet(snaps[b] \cup {taken + 1})
              /\ Cardinality(snaps[b] \cup {taken + 1}) =
                   IF taken + 1 \in snaps[b] THEN Cardinality(snaps[b]) ELSE Cardinality(snaps[b]) + 1
          BY <1>f, FS_AddElement
        <4>1. Cardinality(snaps'[b]) <= Cardinality(snaps[b]) + 1 BY <1>f, <3>3, <4>0
        <4>2. Cardinality(snaps[b]) < SnapLimit BY <2>0, <3>3
        <4>3. IsFiniteSet(snaps'[b]) /\ Cardinality(snaps'[b]) \in Nat
          BY <1>f, <3>3, <4>0
        <4> QED BY <1>f, <4>1, <4>2, <4>3, SnapBounds
      <3> QED BY <1>1, <2>0, <3>2, <3>3 DEF CreateTake, SnapTypeOK
    <2> QED BY <2>1, <2>2
  <1>2. CASE ~CreateTake
    <2>1. \A b \in Boxes : Cardinality(snaps'[b]) <= Cardinality(snaps[b]) /\ Cardinality(snaps'[b]) \in Nat
      BY <1>2, <1>f, SnapsShrink, FS_Subset, FS_CardinalityType
    <2>2. op'.kind = "create" => op'.box \in Boxes /\ Cardinality(snaps[op'.box]) < SnapLimit
      BY OpMoves DEF OpReads, OpKnows
    <2>3. \A b \in Boxes : Cardinality(snaps'[b]) <= SnapLimit BY <1>f, <2>1, SnapBounds
    <2>4. op'.kind = "create" => Cardinality(snaps'[op'.box]) < SnapLimit BY <1>f, <2>1, <2>2, SnapBounds
    <2> QED BY <2>3, <2>4
  <1> QED BY <1>1, <1>2

LEMMA SnapInvHolds == SnapSpec => []SnapInv
  <1>1. SnapInit => SnapInv
    <2> SUFFICES ASSUME SnapInit PROVE SnapInv OBVIOUS
    <2>1. AllTaken /\ AllOldest
      <3>1. None \notin Marks BY SnapBounds DEF Marks
      <3> QED BY <3>1 DEF SnapInit, AllTaken, Taken, AllOldest, IsOldest, NoOp
    <2>2. AllFit BY FS_EmptySet, SnapBounds DEF SnapInit, AllFit, SnapshotCap, NoOp
    <2> QED BY <2>1, <2>2, SnapInitially DEF SnapInv
  <1>2. SnapInv /\ [SnapNext]_snapVars => SnapInv'
    BY SnapTypedKept, AllTakenKept, AllOldestKept, AllFitKept DEF SnapInv
  <1> QED BY <1>1, <1>2, PTL DEF SnapSpec

\* The caps and the pins of the checkpoints, at any time: a create never goes
\* past snapshots.limit, and no checkpoint older than a cloned one is left.
THEOREM SnapshotsAreSafe == SnapSpec => [](SnapTypeOK /\ SnapshotsSafe)
  <1>1. SnapInv => PinnedIsOldest
    <2> SUFFICES ASSUME SnapInv, NEW b \in Boxes, NEW s \in Pinned(b) PROVE Older(b, s) = {}
      BY DEF PinnedIsOldest
    <2>1. s \in Marks /\ Marks \subseteq Nat /\ snaps[b] \subseteq Marks
      BY SnapBounds DEF Pinned, Marks, SnapInv, SnapTypeOK
    <2>2. IsOldest(b, s)
      <3>1. CASE [box |-> b, snap |-> s] = spare
        <4>1. [box |-> b, snap |-> s] # None BY <2>1, SnapBounds DEF Origins
        <4> QED BY <3>1, <4>1 DEF SnapInv, OpKnows, AllOldest
      <3>2. ASSUME NEW c \in Boxes, [box |-> b, snap |-> s] = origin[c] PROVE IsOldest(b, s)
        <4>1. [box |-> b, snap |-> s] # None BY <2>1, SnapBounds DEF Origins
        <4> QED BY <3>2, <4>1 DEF SnapInv, AllOldest
      <3> QED BY <3>1, <3>2 DEF Pinned
    <2> QED BY <2>1, <2>2 DEF IsOldest, Older
  <1>2. SnapInv => SnapTypeOK /\ SnapshotsSafe BY <1>1 DEF SnapInv, AllFit, SnapshotsSafe
  <1> QED BY <1>2, SnapInvHolds, PTL

\* What a step may never do: end a restore in another running state than it
\* found, unless the start fails too, or take away a code whose checkpoint is
\* there.
THEOREM SnapshotStepsHold ==
    ASSUME ~CanFail("start")
    PROVE  SnapSpec => SnapshotSteps
  <1>1. SnapInv /\ [SnapNext]_snapVars => [op.kind = "restore" /\ op' = NoOp => up'[op.box] = op.was]_snapVars
    <2> SUFFICES ASSUME SnapInv, SnapNext, op.kind = "restore", op' = NoOp PROVE up'[op.box] = op.was
      OBVIOUS
    <2>1. op # NoOp /\ op.at \notin {"take", "prune", "clone", "replace"} BY DEF NoOp, SnapInv, OpKnows
    <2>2. op.box \in Boxes BY DEF SnapInv, OpKnows
    <2>3. RestoreEnd
      BY <2>1 DEF SnapNext, CreateCount, Revoke, Rebuild, DeleteSnapshot, RestoreBegin, ShareList,
         DeleteShareRow, InstallResolve, CreateTake, IncusRestore, DiscardList, DiscardEach, SharePrune,
         InstallClone, InstallReplace, InstallRollback, NoOp
    <2> QED BY <2>2, <2>3 DEF RestoreEnd, StartAgain, Restarted, SnapInv, SnapTypeOK
  <1>2. SnapInv /\ [SnapNext]_snapVars =>
          [\A b \in Boxes : share[b] # None /\ share'[b] = None /\ share[b] \in snaps'[b] => Revoke(b)]_snapVars
    <2> SUFFICES ASSUME SnapInv, SnapNext, NEW b \in Boxes, share[b] # None, share'[b] = None,
                        share[b] \in snaps'[b]
                 PROVE  Revoke(b)
      OBVIOUS
    <2> USE DEF SnapInv, SnapTypeOK
    <2>1. ASSUME NEW c \in Boxes, Revoke(c) PROVE Revoke(b)
      <3>1. c = b BY <2>1 DEF Revoke
      <3> QED BY <2>1, <3>1
    <2>2. ASSUME NEW d \in deleting, DeleteShareRow(d) PROVE FALSE
      <3>1. UNCHANGED snaps /\ d.snap \notin snaps[d.box] /\ d.box \in Boxes
        BY <2>2 DEF DeleteShareRow, AllTaken, Origins
      <3>2. b = d.box /\ share[b] = d.snap BY <2>2, <3>1 DEF DeleteShareRow, UnshareSnapshot
      <3> QED BY <3>1, <3>2
    <2>3. CASE SharePrune
      <3>1. op.box \in Boxes /\ op.snap # None BY <2>3, SnapBounds DEF SharePrune, OpKnows, Marks
      <3>2. \/ \E s \in op.todo : IncusDelete(op.box, s) /\ UnshareSnapshot(op.box, s)
            \/ UNCHANGED share
            \/ share' = [share EXCEPT ![op.box] = op.snap]
        BY <2>3 DEF SharePrune
      <3>3. ASSUME NEW s \in op.todo, IncusDelete(op.box, s), UnshareSnapshot(op.box, s) PROVE FALSE
        BY <3>1, <3>3 DEF IncusDelete, UnshareSnapshot
      <3> QED BY <3>1, <3>2, <3>3
    <2>4. ASSUME NEW c \in Boxes, Rebuild(c) PROVE FALSE BY <2>4 DEF Rebuild, Emptied
    <2>5. CASE InstallReplace \/ InstallRollback
      <3>1. op.box \in Boxes BY <2>5 DEF InstallReplace, InstallRollback, OpKnows
      <3> QED BY <2>5, <3>1 DEF InstallReplace, InstallRollback, Emptied
    <2>6. UNCHANGED share => FALSE OBVIOUS
    <2> QED BY <2>1, <2>2, <2>3, <2>4, <2>5, <2>6
         DEF SnapNext, CreateCount, DeleteSnapshot, RestoreBegin, StopForRestore, ShareList, InstallResolve,
             CreateTake, IncusRestore, DiscardList, DiscardEach, RestoreEnd, InstallClone
  <1> QED BY <1>1, <1>2, SnapInvHolds, PTL DEF SnapSpec, SnapshotSteps, RestoreReturns, ShareKept

=============================================================================
