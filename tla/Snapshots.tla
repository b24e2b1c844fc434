----------------------------- MODULE Snapshots -----------------------------
(***************************************************************************)
(* Checkpoints and their sharing (mgr.go from SnapshotCreate on,           *)
(* mgr/share.go, db/snapshot_share.go).                                    *)
(*                                                                         *)
(*   snaps    the checkpoints of each container; a larger one is newer     *)
(*   origin   the shared checkpoint a container was cloned from, or None   *)
(*   spare    the temporary clone of the install under way: its origin     *)
(*   share    the row of snapshot_shares: the published checkpoint, or None*)
(*   up       is the container running                                     *)
(*   option   its volume carries zfs.remove_snapshots; older ones do not   *)
(*   op       the operation that holds opMu, and what it has read          *)
(*   deleting SnapshotDelete, without opMu, after Incus has deleted        *)
(*                                                                         *)
(* A checkpoint name is a second and two random bytes: names are taken to  *)
(* be fresh.  A code is random too; it stands for its row.                 *)
(***************************************************************************)
EXTENDS Host

CONSTANTS
    Boxes,      \* containers, one per account
    SnapLimit,  \* snapshots.limit
    MaxSnap,    \* bound: checkpoints ever taken
    MaxDeleting \* bound: deletions under way at once

Marks == 1..MaxSnap
Origins == [box: Boxes, snap: Marks]

ASSUME SnapBounds ==
    /\ SnapLimit \in Nat /\ MaxSnap \in Nat /\ MaxDeleting \in Nat
    /\ None \notin Nat \cup Boxes \cup Origins

VARIABLES snaps, origin, spare, share, up, option, op, deleting, taken

snapVars == <<snaps, origin, spare, share, up, option, op, deleting, taken>>

NoOp == [kind |-> "none", at |-> "-", box |-> None, snap |-> None, src |-> None,
         todo |-> {}, was |-> FALSE, retried |-> FALSE]

SnapInit ==
    /\ snaps = [b \in Boxes |-> {}]
    /\ origin = [b \in Boxes |-> None] /\ spare = None
    /\ share = [b \in Boxes |-> None]
    /\ up = [b \in Boxes |-> TRUE] /\ option = [b \in Boxes |-> FALSE]
    /\ op = NoOp /\ deleting = {} /\ taken = 0

\* The checkpoints some container or clone still reads its blocks from.
Pinned(b) == {s \in Marks : [box |-> b, snap |-> s] \in {spare} \cup {origin[c] : c \in Boxes}}

Newer(b, s) == {t \in snaps[b] : t > s}
Older(b, s) == {t \in snaps[b] : t < s}
Fails == CanFail("incus")

-----------------------------------------------------------------------------
(* SnapshotCreate *)

Roomy(b) == Cardinality(snaps[b]) < SnapLimit
Counted(b) == SnapLimit > 0 /\ Roomy(b)

CreateCount(b) ==
    /\ op = NoOp /\ Counted(b)
    /\ op' = [NoOp EXCEPT !.kind = "create", !.at = "take", !.box = b]
    /\ UNCHANGED <<snaps, origin, spare, share, up, option, deleting, taken>>

CreateTake ==
    /\ op.at = "take" /\ taken < MaxSnap
    /\ \/ /\ taken' = taken + 1
          /\ snaps' = [snaps EXCEPT ![op.box] = @ \cup {taken + 1}]
       \/ Fails /\ UNCHANGED <<taken, snaps>>
    /\ op' = NoOp
    /\ UNCHANGED <<origin, spare, share, up, option, deleting>>

-----------------------------------------------------------------------------
(* SnapshotDelete *)

\* Of a checkpoint that has clones Incus refuses the deletion, or takes it off
\* the list and keeps its blocks.
IncusDelete(b, s) ==
    /\ s \in snaps[b]
    /\ snaps' = [snaps EXCEPT ![b] = @ \ {s}]

DeleteSnapshot(b, s) ==
    /\ Cardinality(deleting) < MaxDeleting /\ IncusDelete(b, s)
    /\ deleting' = deleting \cup {[box |-> b, snap |-> s]}
    /\ UNCHANGED <<origin, spare, share, up, option, op, taken>>

\* DeleteSnapshotShareBySnapshot; its error is ignored.
UnshareSnapshot(b, s) == share' = [share EXCEPT ![b] = IF @ = s THEN None ELSE @]
DeleteShareRow(d) ==
    /\ d \in deleting
    /\ UnshareSnapshot(d.box, d.snap) \/ (CanFail("share_row") /\ UNCHANGED share)
    /\ deleting' = deleting \ {d}
    /\ UNCHANGED <<snaps, origin, spare, up, option, op, taken>>

-----------------------------------------------------------------------------
(* snapshotRestoreLocked *)

StopForRestore(b, s) ==
    /\ \/ up' = [up EXCEPT ![b] = FALSE]
          /\ op' = [NoOp EXCEPT !.kind = "restore", !.at = "restore", !.box = b, !.snap = s,
                                !.was = up[b]]
       \/ Fails /\ UNCHANGED <<up, op>>
    /\ UNCHANGED <<snaps, origin, spare, share, option, deleting, taken>>

\* The panel lists the checkpoints; one that is gone by now is refused by Incus.
RestoreBegin(b, s) == op = NoOp /\ s \in snaps[b] /\ StopForRestore(b, s)

\* Newer checkpoints go with the restore where the volume allows it, but none
\* that has a clone.
IncusRestore ==
    LET b == op.box
        Blocking == {t \in Pinned(b) : t > op.snap}
    IN
    /\ op.at = "restore"
    /\ \/ /\ op.snap \in snaps[b] /\ (Newer(b, op.snap) = {} \/ option[b])
          /\ Blocking = {}
          /\ snaps' = [snaps EXCEPT ![b] = @ \ Newer(b, op.snap)]
          /\ op' = [op EXCEPT !.at = "start"]
       \/ /\ op.snap \in snaps[b]
          /\ (Newer(b, op.snap) # {} /\ ~option[b]) \/ Blocking # {}
          /\ op' = [op EXCEPT !.at = IF op.retried THEN "restart" ELSE "discard"]
          /\ UNCHANGED snaps
       \/ (op.snap \notin snaps[b] \/ Fails) /\ op' = [op EXCEPT !.at = "restart"] /\ UNCHANGED snaps
    /\ UNCHANGED <<origin, spare, share, up, option, deleting, taken>>

\* discardNewerSnapshots lists them; with no target in the list, none.
DiscardList ==
    /\ op.at = "discard"
    /\ \/ op' = [op EXCEPT !.at = "discard_each",
                           !.todo = IF op.snap \in snaps[op.box] THEN Newer(op.box, op.snap) ELSE {}]
       \/ Fails /\ op' = [op EXCEPT !.at = "restart"]
    /\ UNCHANGED <<snaps, origin, spare, share, up, option, deleting, taken>>

DiscardEach ==
    /\ op.at = "discard_each"
    /\ \/ /\ op.todo = {} /\ op' = [op EXCEPT !.at = "restore", !.retried = TRUE]
          /\ UNCHANGED snaps
       \/ \E s \in op.todo :
             \/ IncusDelete(op.box, s) /\ op' = [op EXCEPT !.todo = @ \ {s}]
             \/ /\ s \notin snaps[op.box] \/ s \in Pinned(op.box) \/ Fails
                /\ op' = [op EXCEPT !.at = "restart"] /\ UNCHANGED snaps
    /\ UNCHANGED <<origin, spare, share, up, option, deleting, taken>>

\* Back to the running state it was found in, after success and after failure.
StayDown == UNCHANGED up                                             \* mutant
StartAgain == up' = [up EXCEPT ![op.box] = op.was]
Restarted == StartAgain
RestoreEnd ==
    /\ op.at \in {"start", "restart"}
    /\ \/ IF op.at = "start" THEN StartAgain ELSE Restarted
       \/ CanFail("start") /\ UNCHANGED up
    /\ op' = NoOp
    /\ UNCHANGED <<snaps, origin, spare, share, option, deleting, taken>>

-----------------------------------------------------------------------------
(* ShareSnapshot: the older checkpoints go first, as a clone pins them *)

ShareList(b, s) ==
    /\ op = NoOp /\ s \in snaps[b]
    /\ op' = [NoOp EXCEPT !.kind = "share", !.at = "prune", !.box = b, !.snap = s, !.todo = Older(b, s)]
    /\ UNCHANGED <<snaps, origin, spare, share, up, option, deleting, taken>>

PruneSkips == op' = [op EXCEPT !.todo = {}]                        \* mutant
PruneFailed == op' = NoOp
SharePrune ==
    /\ op.at = "prune"
    /\ \/ \E s \in op.todo :
             \/ /\ IncusDelete(op.box, s) /\ op' = [op EXCEPT !.todo = @ \ {s}]
                /\ UnshareSnapshot(op.box, s) \/ (CanFail("share_row") /\ UNCHANGED share)
             \/ /\ s \notin snaps[op.box] \/ s \in Pinned(op.box) \/ Fails
                /\ PruneFailed /\ UNCHANGED <<snaps, share>>
       \/ /\ op.todo = {} /\ op' = NoOp /\ UNCHANGED snaps
          /\ \/ share' = [share EXCEPT ![op.box] = op.snap]
             \/ CanFail("share_row") /\ UNCHANGED share
    /\ UNCHANGED <<origin, spare, up, option, deleting, taken>>

Revoke(b) ==
    /\ share[b] # None /\ share' = [share EXCEPT ![b] = None]
    /\ UNCHANGED <<snaps, origin, spare, up, option, op, deleting, taken>>

-----------------------------------------------------------------------------
(* ReinstallFromShare, and what other operations do to checkpoints *)

\* resolveShare; one's own code is a restore.
InstallResolve(b, owner) ==
    /\ op = NoOp /\ share[owner] # None /\ share[owner] \in snaps[owner]
    /\ IF owner = b THEN StopForRestore(b, share[b])
       ELSE /\ op' = [NoOp EXCEPT !.kind = "install", !.at = "clone", !.box = b, !.src = owner,
                                  !.snap = share[owner]]
            /\ UNCHANGED <<snaps, origin, spare, share, up, option, deleting, taken>>

InstallClone ==
    /\ op.at = "clone"
    /\ \/ /\ op.snap \in snaps[op.src]
          /\ spare' = [box |-> op.src, snap |-> op.snap]
          /\ op' = [op EXCEPT !.at = "replace"]
       \/ (op.snap \notin snaps[op.src] \/ Fails) /\ op' = NoOp /\ UNCHANGED spare
    /\ UNCHANGED <<snaps, origin, share, up, option, deleting, taken>>

\* The old container goes with its checkpoints and its share, and the clone
\* takes its name.
Emptied(b) == snaps' = [snaps EXCEPT ![b] = {}]
InstallReplace ==
    /\ op.at = "replace"
    /\ Emptied(op.box)
    /\ share' = [share EXCEPT ![op.box] = None] \/ (CanFail("share_row") /\ UNCHANGED share)
    /\ origin' = [origin EXCEPT ![op.box] = spare] /\ spare' = None
    /\ up' = [up EXCEPT ![op.box] = TRUE] /\ option' = [option EXCEPT ![op.box] = TRUE]
    /\ op' = NoOp
    /\ UNCHANGED <<deleting, taken>>

\* The rollback removes the clone and the container, unless Incus would not let
\* go of that one.
InstallRollback ==
    /\ op.at = "replace" /\ Fails
    /\ \/ /\ Emptied(op.box)
          /\ UNCHANGED share \/ share' = [share EXCEPT ![op.box] = None]
          /\ origin' = [origin EXCEPT ![op.box] = None]
          /\ up' = [up EXCEPT ![op.box] = FALSE]
       \/ UNCHANGED <<snaps, share, origin, up>>
    /\ spare' = None /\ op' = NoOp
    /\ UNCHANGED <<option, deleting, taken>>

\* Reinstall; the new volume gets the option.
Rebuild(b) ==
    /\ op = NoOp /\ Emptied(b)
    /\ share' = [share EXCEPT ![b] = None]
    /\ origin' = [origin EXCEPT ![b] = None] /\ up' = [up EXCEPT ![b] = TRUE]
    /\ option' = [option EXCEPT ![b] = TRUE]
    /\ UNCHANGED <<spare, op, deleting, taken>>

SnapNext ==
    \/ \E b \in Boxes : CreateCount(b) \/ Revoke(b) \/ Rebuild(b)
    \/ \E b \in Boxes, s \in Marks : DeleteSnapshot(b, s) \/ RestoreBegin(b, s) \/ ShareList(b, s)
    \/ \E d \in deleting : DeleteShareRow(d)
    \/ \E b, owner \in Boxes : InstallResolve(b, owner)
    \/ CreateTake \/ IncusRestore \/ DiscardList \/ DiscardEach \/ RestoreEnd \/ SharePrune
    \/ InstallClone \/ InstallReplace \/ InstallRollback

SnapSpec == SnapInit /\ [][SnapNext]_snapVars

-----------------------------------------------------------------------------
(* Properties *)

OpStates ==
    [kind: {"none", "create", "restore", "share", "install"},
     at: {"-", "take", "restore", "discard", "discard_each", "start", "restart", "prune", "clone",
          "replace"},
     box: Boxes \cup {None}, snap: Marks \cup {None}, src: Boxes \cup {None},
     todo: SUBSET Marks, was: BOOLEAN, retried: BOOLEAN]

SnapTypeOK ==
    /\ snaps \in [Boxes -> SUBSET Marks] /\ taken \in 0..MaxSnap
    /\ origin \in [Boxes -> Origins \cup {None}] /\ spare \in Origins \cup {None}
    /\ share \in [Boxes -> Marks \cup {None}]
    /\ up \in [Boxes -> BOOLEAN] /\ option \in [Boxes -> BOOLEAN]
    /\ deleting \subseteq Origins /\ op \in OpStates

\* "opMu serializes the count-then-create so two concurrent requests cannot both
\* pass the cap check" (SnapshotCreate).
SnapshotCap == \A b \in Boxes : Cardinality(snaps[b]) <= SnapLimit

\* A cloned checkpoint never stands in the way of a restore: no older one is
\* left that could not be rolled back to (ShareSnapshot), whatever is deleted,
\* restored, shared again or fails meanwhile.
PinnedIsOldest == \A b \in Boxes : \A s \in Pinned(b) : Older(b, s) = {}

\* "On ANY failure the container is returned to its original running state"
\* (snapshotRestoreLocked), a start that fails excepted.
RestoreReturns == [][op.kind = "restore" /\ op' = NoOp => up'[op.box] = op.was]_snapVars

\* A code whose checkpoint exists disappears only when it is revoked: deleting
\* another checkpoint "does not revoke it" (DeleteSnapshotShareBySnapshot).
ShareKept == [][\A b \in Boxes :
    share[b] # None /\ share'[b] = None /\ share[b] \in snaps'[b] => Revoke(b)]_snapVars

\* What holds of the checkpoints at any time (mgr.go, share.go).
SnapshotsSafe == SnapshotCap /\ PinnedIsOldest

\* What a step may never do: end a restore in another running state, or take a
\* code away whose checkpoint is there.
SnapshotSteps == RestoreReturns /\ ShareKept

=============================================================================
