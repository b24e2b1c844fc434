--------------------------- MODULE TransferImport ---------------------------
(***************************************************************************)
(* The receiving half of a transfer: TransferImport adds an account as any *)
(* other, replaces its container by the one in the archive, makes that one *)
(* this host's own, and removes everything again when a step fails         *)
(* (internal/mgr/transfer.go, internal/lx/backup.go).                      *)
(*                                                                         *)
(* It runs in a process of its own; Add and Del are the steps they are in  *)
(* UserLifecycle, each one step here, and the panel of the host may remove *)
(* the account and create another of the name in between.                  *)
(***************************************************************************)
EXTENDS Host

CONSTANTS
    MaxAccounts, \* accounts created under the name; a bound
    Modes        \* the IPv6 modes of the two hosts: "prefix", "pool", "none"

Meta == {"keys", "notes", "deadline"}
Owners == [account : 1..MaxAccounts, meta : SUBSET Meta]
Stacks == {"networkd", "manager"}  \* systemd-networkd, or NetworkManager
Keys == {"owner", "marked", "added"} \* this host's; the source panel's; added by hand there
Guests ==
    [account : 1..MaxAccounts, disk : {"image", "moved"}, devices : {"own", "merged"},
     identity : {"own", "source"}, keys : SUBSET Keys, stack : Stacks, v4 : {"dhcp", "static"},
     v6 : SUBSET {"own", "source"}, unit : {"own", "source", "none"},
     address : {"reserved", "dynamic", "none"}, running : BOOLEAN]

ASSUME ImportAssumption ==
    /\ MaxAccounts \in Nat /\ Modes \subseteq {"prefix", "pool", "none"}
    /\ None \notin Owners \cup Guests

VARIABLES
    importer,   \* the import: [at, account, warned, restarts]; the archive's [source, stack,
                \* active]; history `quiet`: the calls that failed without ending it
    owner,      \* the row of the name: [account, meta] or None
    guest,      \* its container, None when there is none
    mode,       \* the IPv6 mode of this host
    created,    \* accounts created so far
    meddled     \* whether the panel touched the name during the import

importVars == <<importer, owner, guest, mode, created, meddled>>

\* A container made by Add: an image's disk and this host's everything.  `v6` are
\* the hosts its addresses are of, and `unit` whose vpsmgr-ipv6.service it runs.
Fresh(account) ==
    [account |-> account, disk |-> "image", devices |-> "own", identity |-> "own",
     keys |-> {}, stack |-> "networkd", v4 |-> "dhcp",
     v6 |-> IF mode = "prefix" THEN {"own"} ELSE {},
     unit |-> IF mode = "prefix" THEN "own" ELSE "none",
     address |-> "reserved", running |-> TRUE]

\* One from an archive: Incus keeps what the source host had on its disk.  The
\* device override and the fresh hardware addresses are this host's, but a
\* device the archive has and this host does not is still there.  Only prefix mode
\* installs the unit, and only pool mode takes the DHCP client off eth0.
Moved(account, source, stack) ==
    [account |-> account, disk |-> "moved",
     devices |-> "merged", identity |-> "source",
     keys |-> {"marked", "added"}, stack |-> stack,
     v4 |-> IF source = "pool" THEN "static" ELSE "dhcp",
     v6 |-> IF source = "none" THEN {} ELSE {"source"},
     unit |-> IF source = "prefix" THEN "source" ELSE "none",
     address |-> "none", running |-> FALSE]

Import(at) == importer' = [importer EXCEPT !.at = at]
Stage(from, to) == importer.at = from /\ Import(to)
Quietly(from, to, failed) ==
    /\ importer.at = from
    /\ importer' = [importer EXCEPT !.at = to, !.quiet = importer.quiet \cup failed]

ImportInit ==
    /\ mode \in Modes
    /\ \E source \in Modes, stack \in Stacks, active \in BOOLEAN :
        importer = [at |-> "target", account |-> 0, source |-> source, stack |-> stack,
                    active |-> active, quiet |-> {}, warned |-> FALSE, restarts |-> 0]
    /\ owner = None /\ guest = None
    /\ created = 0 /\ meddled = FALSE

-----------------------------------------------------------------------------
\* Any step may fail on the daemon; every failure after Add goes to the undo.
ImportFails ==
    /\ CanFail("import")
    /\ importer.at \in {"meta", "stop", "delete", "restore", "config", "start",
                        "identity", "network", "address"}
    /\ Import("undo")
    /\ UNCHANGED <<owner, guest, mode, created, meddled>>

\* TransferTarget, the driver check, and Add, which fails leaving nothing.
AccountAdded ==
    /\ importer.at = "target" /\ owner = None /\ guest = None /\ created < MaxAccounts
    /\ created' = created + 1
    /\ importer' = [importer EXCEPT !.at = "meta", !.account = created + 1]
    /\ owner' = [account |-> created + 1, meta |-> {}]
    /\ guest' = Fresh(created + 1)
    /\ UNCHANGED <<mode, meddled>>

TargetRefused ==
    /\ importer.at = "target" /\ (owner # None \/ guest # None \/ CanFail("import"))
    /\ Import("refused")
    /\ UNCHANGED <<owner, guest, mode, created, meddled>>

\* applyTransferMeta: keys, notes and script by the account's id, the deadline
\* by its name.
MetaApplied ==
    /\ Stage("meta", "stop")
    /\ owner # None
    /\ owner' = [owner EXCEPT !.meta = IF owner.account = importer.account THEN Meta
                                       ELSE @ \cup {"deadline"}]
    /\ UNCHANGED <<guest, mode, created, meddled>>

\* Without the row, or with one the keys' foreign key does not name, it fails.
MetaOrphaned ==
    /\ importer.at = "meta" /\ ~(owner # None /\ owner.account = importer.account)
    /\ Import("undo")
    /\ UNCHANGED <<owner, guest, mode, created, meddled>>

\* The container Add made is stopped and removed, by name.
ContainerStopped ==
    /\ Stage("stop", "delete")
    /\ guest # None /\ guest' = [guest EXCEPT !.running = FALSE]
    /\ UNCHANGED <<owner, mode, created, meddled>>

StopMissing ==
    /\ Stage("stop", "undo") /\ guest = None
    /\ UNCHANGED <<owner, guest, mode, created, meddled>>

ContainerRemoved ==
    /\ Stage("delete", "restore")
    /\ guest' = None
    /\ UNCHANGED <<owner, mode, created, meddled>>

\* BackupImport: refused when the name is taken.
ArchiveRestored ==
    /\ importer.at = "restore"
    /\ IF guest = None
       THEN Import("config") /\ guest' = Moved(importer.account, importer.source, importer.stack)
       ELSE Import("undo") /\ UNCHANGED guest
    /\ UNCHANGED <<owner, mode, created, meddled>>

\* ReplaceConfig and the volume's rollback setting.
ConfigReplaced ==
    /\ Stage("config", "start") /\ guest # None
    /\ guest' = [guest EXCEPT !.devices = "own"]
    /\ UNCHANGED <<owner, mode, created, meddled>>

\* Start and WaitReady: what is on the disk decides whether it asks for an
\* address, and the DHCP server may still hold the reservation.
Address(v4) ==
    IF v4 # "dhcp" THEN {"none"}
    ELSE IF CanFail("dhcp") THEN {"reserved", "dynamic"} ELSE {"reserved"}

ContainerStarted ==
    /\ Stage("start", "identity") /\ guest # None
    /\ \E a \in Address(guest.v4) : guest' = [guest EXCEPT !.running = TRUE, !.address = a]
    /\ UNCHANGED <<owner, mode, created, meddled>>

\* Provision, a new machine-id, new host keys; the authorized keys are cleared,
\* and nobody asks whether they were.
IdentityRenewed ==
    /\ guest # None
    /\ \/ Quietly("identity", "network", {}) /\ guest' = [guest EXCEPT !.identity = "own", !.keys = {}]
       \/ /\ CanFail("clear") /\ Quietly("identity", "network", {"clear"})
          /\ guest' = [guest EXCEPT !.identity = "own"]
    /\ UNCHANGED <<owner, mode, created, meddled>>

\* On a NetworkManager guest every nmcli call may fail and the script goes on.
QuietFailures == IF guest.stack = "manager" /\ CanFail("nmcli") THEN SUBSET {"ipv4", "ipv6"} ELSE {{}}

\* restoreBridgedIPv4
BridgedIPv4(v4, failed) == IF "ipv4" \in failed THEN v4 ELSE "dhcp"

DropNever(v6, failed) == v6                                       \* mutant
\* dropSourceIPv6 and what ConfigureContainerIPv6 then finds: networkd's file has
\* lost the source's stanzas; NetworkManager's profile is cleared without an own
\* address, and otherwise set to that one in the step after.
SourceDropped(v6, failed) == IF "ipv6" \in failed THEN v6 ELSE {}
OwnAdded(v6, failed) == IF mode = "prefix" /\ "ipv6" \notin failed THEN v6 \cup {"own"} ELSE v6

\* The unit is overwritten where this host has one; where it has none, it is
\* removed, but the script has left before that on NetworkManager.
Unit(g) ==
    IF mode = "prefix" THEN "own" ELSE IF g.stack = "networkd" THEN "none" ELSE g.unit

\* Then this host's wiring: an import is never given a pool address or a block.
NetworkMadeOwn ==
    /\ guest # None
    /\ \E failed \in QuietFailures :
        LET v4 == BridgedIPv4(guest.v4, failed) IN
        /\ Quietly("network", "address", failed)
        /\ \E a \in Address(v4) :
            guest' = [guest EXCEPT !.v4 = v4,
                                   !.v6 = OwnAdded(SourceDropped(guest.v6, failed), failed),
                                   !.unit = Unit(guest),
                                   !.address = IF guest.address = "none" THEN a ELSE guest.address]
    /\ UNCHANGED <<owner, mode, created, meddled>>

\* ensureStaticIPv4 waits for the recorded address, with one restart.
AddressTaken ==
    /\ Stage("address", "keys") /\ guest # None /\ guest.address = "reserved"
    /\ UNCHANGED <<owner, guest, mode, created, meddled>>

AddressAwaited ==
    /\ importer.at = "address" /\ guest # None /\ guest.address # "reserved"
    /\ IF importer.restarts = 0
       THEN \E a \in Address(guest.v4) :
                /\ guest' = [guest EXCEPT !.address = a]
                /\ importer' = [importer EXCEPT !.restarts = 1]
       ELSE Import("undo") /\ UNCHANGED guest
    /\ UNCHANGED <<owner, mode, created, meddled>>

\* applyUserKeys: ApplySSHKeys replaces the lines a panel has marked by the keys
\* that the name's row has active now, and without such a key nothing is written.
KeysToApply == owner # None /\ "keys" \in owner.meta /\ importer.active

KeysApplied ==
    \/ /\ Quietly("keys", "done", {})
       /\ guest' = IF KeysToApply /\ guest # None
                   THEN [guest EXCEPT !.keys = (guest.keys \ {"marked"}) \cup {"owner"}] ELSE guest
       /\ UNCHANGED <<owner, mode, created, meddled>>
    \/ /\ CanFail("apply") /\ Quietly("keys", "done", {"apply"})
       /\ UNCHANGED <<owner, guest, mode, created, meddled>>

\* A call on a container the panel has removed meanwhile.
ContainerMissing ==
    /\ importer.at \in {"config", "start", "identity", "network", "address"} /\ guest = None
    /\ Import("undo")
    /\ UNCHANGED <<owner, guest, mode, created, meddled>>

Withdrawn(g) == None

\* fail: Del by name, which warns when it could not, or when there is no row.
UndoImport ==
    /\ importer.at = "undo"
    /\ \/ /\ owner # None
          /\ Import("failed")
          /\ owner' = None /\ guest' = Withdrawn(guest)
       \/ /\ owner = None \/ CanFail("del")
          /\ importer' = [importer EXCEPT !.at = "failed", !.warned = TRUE]
          /\ UNCHANGED <<owner, guest>>
    /\ UNCHANGED <<mode, created, meddled>>

\* The process is killed; nothing runs its undo.
ImporterKilled ==
    /\ CanFail("kill") /\ importer.at \notin {"target", "refused", "failed", "done", "killed"}
    /\ Import("killed")
    /\ UNCHANGED <<owner, guest, mode, created, meddled>>

-----------------------------------------------------------------------------
\* The panel, in another process.
PanelRemoves ==
    /\ CanFail("meddle") /\ owner # None
    /\ owner' = None /\ guest' = None /\ meddled' = TRUE
    /\ UNCHANGED <<importer, mode, created>>

\* Add refuses a name or an address that a container has.
PanelCreates ==
    /\ CanFail("meddle") /\ owner = None /\ guest = None /\ created < MaxAccounts
    /\ created' = created + 1
    /\ owner' = [account |-> created + 1, meta |-> {}]
    /\ guest' = Fresh(created + 1)
    /\ meddled' = TRUE
    /\ UNCHANGED <<importer, mode>>

ImportStep ==
    \/ AccountAdded \/ TargetRefused \/ MetaApplied \/ MetaOrphaned
    \/ ContainerStopped \/ StopMissing \/ ContainerRemoved \/ ArchiveRestored
    \/ ConfigReplaced \/ ContainerStarted \/ IdentityRenewed \/ NetworkMadeOwn
    \/ AddressTaken \/ AddressAwaited \/ KeysApplied \/ ContainerMissing
    \/ ImportFails \/ UndoImport

ImportNext == ImportStep \/ ImporterKilled \/ PanelRemoves \/ PanelCreates

ImportSpec == ImportInit /\ [][ImportNext]_importVars

-----------------------------------------------------------------------------
Stages == {"target", "meta", "stop", "delete", "restore", "config", "start", "identity",
           "network", "address", "keys", "undo", "refused", "failed", "done", "killed"}

Importers ==
    [at : Stages, account : 0..MaxAccounts, source : Modes, stack : Stacks, active : BOOLEAN,
     quiet : SUBSET {"clear", "ipv4", "ipv6", "apply"}, warned : BOOLEAN, restarts : 0..1]

\* Type invariant: the import, the name's row and its container.
ImportTypeOK ==
    /\ importer \in Importers
    /\ owner \in Owners \cup {None}
    /\ guest \in Guests \cup {None}
    /\ mode \in Modes /\ meddled \in BOOLEAN
    /\ created \in 0..MaxAccounts

\* All or nothing: an import that returned an error and no warning has left
\* neither row nor container of its own, and one that was killed has left a
\* row by which `vps del` finds what there is (transfer.go:330-337, 377-385).
AllOrNothing ==
    /\ importer.at = "failed" /\ ~importer.warned =>
        /\ owner = None \/ owner.account # importer.account
        /\ guest = None \/ guest.account # importer.account
    /\ guest # None /\ ~meddled => owner # None

\* At home: an import that succeeded has left the disk that was moved, running
\* with this host's devices and identity and reachable where the records say,
\* whatever the modes of the two hosts (transfer.go:414-507).  Its IPv6 addresses
\* are this host's alone, never the source's beside them (transfer.go:552-563);
\* the source's route unit is gone, except where dropSourceIPv6 leaves before its
\* removal (transfer.go:590-605).  Nobody but the owner has a key, if the clearing
\* did not fail, and after a clearing that did, none that the source's panel had
\* written, once there is a key to write (share.go:374-394).
AtHome ==
    importer.at = "done" /\ ~meddled =>
        /\ owner.meta = Meta
        /\ guest.disk = "moved" /\ guest.devices = "own" /\ guest.identity = "own"
        /\ guest.running /\ guest.v4 = "dhcp" /\ guest.address = "reserved"
        /\ "ipv6" \notin importer.quiet => guest.v6 = IF mode = "prefix" THEN {"own"} ELSE {}
        /\ guest.unit = "source" => mode # "prefix" /\ guest.stack = "manager"
        /\ "clear" \notin importer.quiet => guest.keys \subseteq {"owner"}
        /\ importer.active /\ "apply" \notin importer.quiet =>
            "owner" \in guest.keys /\ "marked" \notin guest.keys

\* What an import promises when it has ended (TransferImport).
ImportSafe == AllOrNothing /\ AtHome

=============================================================================
