---------------------------- MODULE DomainRouting ----------------------------
(***************************************************************************)
(* The domains of the accounts and the HAProxy configuration derived from  *)
(* them: the handlers AddDomain, DelDomain, SetDomainProtocol,             *)
(* SyncAllDomains and ApplyHaproxyState of internal/mgr, the domain part   *)
(* of Del, and the publisher internal/hpx.                                 *)
(*                                                                         *)
(*   acct      the accounts and their container addresses (users)          *)
(*   dom       the rows of the table domains                               *)
(*   releases  the directories releases/<gen>                              *)
(*   current   the symlink to the release HAProxy loads                    *)
(*   counter   the file generation                                         *)
(*   loaded    the routes the running HAProxy serves, Down when it is not  *)
(*             running                                                     *)
(*   enabled   the settings mirror of net.haproxy                          *)
(*                                                                         *)
(* In one process domainMu admits one domain handler at a time and opMu    *)
(* one Del at a time: each of the two mutexes of a process is a lane with  *)
(* one program counter.  Del publishes without domainMu.                   *)
(***************************************************************************)
EXTENDS Naturals, FiniteSets

CONSTANTS
    Procs,     \* the processes: the panel daemon, CLI invocations
    Accounts,  \* users.id values, each used once
    Ips,       \* container addresses, which are reused
    Domains,   \* domain names
    Faults,    \* the kinds of call that may fail, and "crash"
    MaxGen,    \* bound: the generations that exist
    Keep,      \* keepReleases
    MaxBusy,   \* bound: handlers in flight at once
    MaxKinds,  \* bound: kinds of failure met in one behaviour
    None,      \* no row, no account, no release, no symlink
    Bad,       \* a release HAProxy refuses: not all written, or rejected
    Down       \* HAProxy is not running

AllFaults == {"db", "write", "switch", "check", "counter", "reload", "probe",
              "systemctl", "delete", "crash"}

ASSUME BoundsAssumption ==
    /\ MaxGen \in Nat \ {0} /\ Keep \in Nat \ {0}
    /\ MaxBusy \in Nat \ {0} /\ MaxKinds \in Nat

ASSUME FaultsAssumption == Faults \subseteq AllFaults

Gens    == 1..MaxGen
Row     == [owner: Accounts, pp: BOOLEAN]
\* owner is whose row the route was rendered from; HAProxy sees ip and pp.
Route   == [owner: Accounts, ip: Ips, pp: BOOLEAN]
Routing == [Domains -> Route \cup {None}]

Ops == {"add", "del", "set", "sync", "userdel"}

ASSUME MarksAssumption ==
    /\ {None, Bad, Down} \cap (Routing \cup Ops) = {}
    /\ None \notin Row \cup Route \cup Accounts \cup Ips \cup Gens
    /\ Cardinality({None, Bad, Down}) = 3

VARIABLES acct, fresh, dom, releases, current, counter, loaded, enabled,
          pc, ctx,
          faulted   \* history: the kinds of failure met so far, and "withdraw"
                    \* once a Del has failed to publish

tables == <<acct, fresh, dom>>
layout == <<releases, current, counter>>
vars == <<acct, fresh, dom, releases, current, counter, loaded, enabled, pc, ctx,
          faulted>>

Lanes == Procs \X {"domainMu", "opMu"}

\* A handler's locals; todo are the domains Del has yet to delete, had says
\* that it found some.
NoCtx == [op |-> None, acct |-> None, dom |-> None, pp |-> FALSE, gen |-> None,
          prev |-> None, routes |-> None, todo |-> {}, had |-> FALSE]

PubPcs == {"list", "open", "write", "switch", "check", "record", "reload", "undo"}
Pcs == {"idle", "insert", "delete", "update", "service", "rows", "done", "drop"} \cup PubPcs

-----------------------------------------------------------------------------
(* Helpers *)

NoRoutes == [d \in Domains |-> None]

\* ListAllDomains joined with users, as the publisher's input.
DbRoutes == [d \in Domains |-> IF dom[d] = None THEN None
                               ELSE [owner |-> dom[d].owner, ip |-> acct[dom[d].owner],
                                     pp |-> dom[d].pp]]

\* The release HAProxy would load; it refuses one that is missing or bad.  (A
\* half-written release that it happens to accept is taken as refused too.)
Loadable == current # None /\ releases[current] \in Routing
Load(otherwise) == IF Loadable THEN releases[current] ELSE otherwise

Fine == UNCHANGED faulted
Fails(kind) == /\ kind \in Faults
               /\ faulted' = faulted \cup {kind}
               /\ Cardinality(faulted') <= MaxKinds

Busy == {l \in Lanes : pc[l] # "idle"}
\* The bound on generations: a handler that may publish starts only when a
\* number is left for it.
Room == counter + Cardinality(Busy) < MaxGen

Free(l, mutex) == l[2] = mutex /\ pc[l] = "idle" /\ Cardinality(Busy) < MaxBusy

Enter(l, label, c) == pc' = [pc EXCEPT ![l] = label] /\ ctx' = [ctx EXCEPT ![l] = c]
Goto(l, label) == pc' = [pc EXCEPT ![l] = label] /\ UNCHANGED ctx
Return(l) == Enter(l, "idle", NoCtx)

SetRow(d, row) == dom' = [dom EXCEPT ![d] = row]
OwnedBy(a, d) == dom[d] # None /\ dom[d].owner = a
Owned(a) == {d \in Domains : OwnedBy(a, d)}

\* The installer leaves an empty generation 1 behind and starts the service.
Init ==
    /\ acct = [a \in Accounts |-> None] /\ fresh = Accounts
    /\ dom = NoRoutes
    /\ releases = [g \in Gens |-> IF g = 1 THEN NoRoutes ELSE None]
    /\ current = 1 /\ counter = 1
    /\ loaded = NoRoutes /\ enabled = TRUE
    /\ pc = [l \in Lanes |-> "idle"] /\ ctx = [l \in Lanes |-> NoCtx]
    /\ faulted = {}

-----------------------------------------------------------------------------
(* The accounts: what Add does, seen from here (module UserLifecycle).     *)

CreateAccount ==
    /\ \E a \in fresh, i \in Ips \ {acct[b] : b \in Accounts} :
          /\ acct' = [acct EXCEPT ![a] = i]
          /\ fresh' = fresh \ {a}
    /\ UNCHANGED <<dom, layout, loaded, enabled, pc, ctx, faulted>>

-----------------------------------------------------------------------------
(* The domain handlers up to the publication *)

\* AddDomain's checks.
AddDomainLookup(l) ==
    /\ Free(l, "domainMu") /\ enabled
    /\ \E a \in Accounts, d \in Domains, pp \in BOOLEAN :
          /\ acct[a] # None /\ dom[d] = None
          /\ Enter(l, "insert", [NoCtx EXCEPT !.op = "add", !.acct = a, !.dom = d, !.pp = pp])
    /\ UNCHANGED <<tables, layout, loaded, enabled, faulted>>

\* The INSERT is refused for a domain that is bound (UNIQUE) and for an
\* account that is gone (the foreign key).
AddDomainInsert(l) ==
    LET c == ctx[l] IN
    /\ pc[l] = "insert"
    /\ \/ /\ acct[c.acct] # None /\ dom[c.dom] = None
          /\ SetRow(c.dom, [owner |-> c.acct, pp |-> c.pp])
          /\ Goto(l, "list") /\ Fine
       \/ /\ \/ (acct[c.acct] = None \/ dom[c.dom] # None) /\ Fine
             \/ Fails("db")
          /\ Return(l) /\ UNCHANGED dom
    /\ UNCHANGED <<acct, fresh, layout, loaded, enabled>>

\* DelDomain remembers the flag to restore.
DelDomainLookup(l) ==
    /\ Free(l, "domainMu")
    /\ \E a \in Accounts, d \in Domains :
          /\ OwnedBy(a, d)
          /\ Enter(l, "delete", [NoCtx EXCEPT !.op = "del", !.acct = a, !.dom = d, !.pp = dom[d].pp])
    /\ UNCHANGED <<tables, layout, loaded, enabled, faulted>>

\* Deleting no row is an error too.
DelDomainDelete(l) ==
    LET c == ctx[l] IN
    /\ pc[l] = "delete"
    /\ \/ OwnedBy(c.acct, c.dom) /\ SetRow(c.dom, None) /\ Goto(l, "list") /\ Fine
       \/ /\ (~OwnedBy(c.acct, c.dom) /\ Fine) \/ Fails("db")
          /\ Return(l) /\ UNCHANGED dom
    /\ UNCHANGED <<acct, fresh, layout, loaded, enabled>>

\* SetDomainProtocol; setting the flag to what it is ends the handler.
SetDomainProtocolLookup(l) ==
    /\ Free(l, "domainMu")
    /\ \E a \in Accounts, d \in Domains :
          /\ OwnedBy(a, d)
          /\ Enter(l, "update", [NoCtx EXCEPT !.op = "set", !.acct = a, !.dom = d, !.pp = dom[d].pp])
    /\ UNCHANGED <<tables, layout, loaded, enabled, faulted>>

\* The UPDATE is by id: a no-op on a row that is gone.
SetFlag(c, pp) == IF OwnedBy(c.acct, c.dom) THEN [dom EXCEPT ![c.dom].pp = pp] ELSE dom

SetDomainProtocolUpdate(l) ==
    LET c == ctx[l] IN
    /\ pc[l] = "update"
    /\ \/ dom' = SetFlag(c, ~c.pp) /\ Goto(l, "list") /\ Fine
       \/ Fails("db") /\ Return(l) /\ UNCHANGED dom
    /\ UNCHANGED <<acct, fresh, layout, loaded, enabled>>

\* SyncAllDomains, run when the panel starts.
SyncAllDomains(l) ==
    /\ Free(l, "domainMu") /\ enabled
    /\ Enter(l, "list", [NoCtx EXCEPT !.op = "sync"])
    /\ UNCHANGED <<tables, layout, loaded, enabled, faulted>>

\* ApplyHaproxyState: the mirror first, then the service, then a full sync
\* when the proxy is switched on.
ApplyHaproxyState(l) ==
    /\ Free(l, "domainMu")
    /\ \E on \in BOOLEAN : (on => Room) /\
          \/ /\ enabled' = on /\ Fine
             /\ Enter(l, "service", [NoCtx EXCEPT !.op = "sync", !.pp = on])
          \/ Fails("db") /\ UNCHANGED <<enabled, pc, ctx>>
    /\ UNCHANGED <<tables, layout, loaded>>

SwitchService(l) ==
    LET on == ctx[l].pp IN
    /\ pc[l] = "service"
    /\ \/ ~on /\ loaded' = Down /\ Return(l) /\ Fine
       \/ /\ on /\ (loaded # Down \/ Loadable)
          /\ loaded' = IF loaded = Down THEN releases[current] ELSE loaded
          /\ Goto(l, "list") /\ Fine
       \/ /\ (on /\ loaded = Down /\ ~Loadable /\ Fine) \/ Fails("systemctl")
          /\ Return(l) /\ UNCHANGED loaded
    /\ UNCHANGED <<tables, layout, enabled>>

-----------------------------------------------------------------------------
(* Del: withdraw the domains, then remove the account *)

\* A failed ListDomains counts as no domains.
DelLookup(l) ==
    /\ Free(l, "opMu")
    /\ \E a \in Accounts : acct[a] # None /\
          LET c == [NoCtx EXCEPT !.op = "userdel", !.acct = a] IN
          \/ Owned(a) = {} /\ Enter(l, "drop", c) /\ Fine
          \/ /\ Owned(a) # {} /\ Fine
             /\ Enter(l, "rows", [c EXCEPT !.todo = Owned(a), !.had = TRUE])
          \/ Fails("db") /\ Enter(l, "drop", c)
    /\ UNCHANGED <<tables, layout, loaded, enabled>>

\* One DeleteDomain; the first error ends the handler.
DelRowsUnpublished(l) ==                                           \* mutant
    LET c == ctx[l] IN
    /\ pc[l] = "rows"
    /\ \/ c.todo = {} /\ Goto(l, "drop") /\ UNCHANGED dom
       \/ \E d \in c.todo : /\ dom' = [dom EXCEPT ![d] = None]
                            /\ Enter(l, "rows", [c EXCEPT !.todo = @ \ {d}])
    /\ UNCHANGED <<acct, fresh, layout, loaded, enabled, faulted>>
DelRows(l) ==
    LET c == ctx[l] IN
    /\ pc[l] = "rows"
    /\ \/ c.todo = {} /\ Goto(l, "list") /\ Fine /\ UNCHANGED dom
       \/ \E d \in c.todo :
             \/ /\ OwnedBy(c.acct, d) /\ SetRow(d, None) /\ Fine
                /\ Enter(l, "rows", [c EXCEPT !.todo = @ \ {d}])
             \/ /\ (~OwnedBy(c.acct, d) /\ Fine) \/ Fails("db")
                /\ Return(l) /\ UNCHANGED dom
    /\ UNCHANGED <<acct, fresh, layout, loaded, enabled>>

\* The rest of Del, seen from here: a container that cannot be deleted keeps
\* the account; the account's row takes its domain rows with it (CASCADE).
DropWithoutCascade(l) ==                                           \* mutant
    /\ pc[l] = "drop"
    /\ acct' = [acct EXCEPT ![ctx[l].acct] = None] /\ Fine /\ Return(l)
    /\ UNCHANGED <<fresh, dom, layout, loaded, enabled>>
DropAccount(l) ==
    LET a == ctx[l].acct IN
    /\ pc[l] = "drop"
    /\ \/ /\ acct' = [acct EXCEPT ![a] = None]
          /\ dom' = [d \in Domains |-> IF OwnedBy(a, d) THEN None ELSE dom[d]]
          /\ Fine
       \/ (Fails("delete") \/ Fails("db")) /\ UNCHANGED <<acct, dom>>
    /\ Return(l)
    /\ UNCHANGED <<fresh, layout, loaded, enabled>>

-----------------------------------------------------------------------------
(* syncAllDomainsLocked: list, PublishAll, reload *)

ListAllDomains(l) ==
    /\ pc[l] = "list"
    /\ \/ Enter(l, "open", [ctx[l] EXCEPT !.routes = DbRoutes]) /\ Fine
       \/ Fails("db") /\ Goto(l, "undo")
    /\ UNCHANGED <<tables, layout, loaded, enabled>>

\* One past the recorded counter, 1 when it is missing or unreadable.
SameGeneration == IF counter = 0 THEN 1 ELSE counter               \* mutant
NextGeneration == counter + 1

\* From here on a failing publication removes the directory it works in.
Remove(g) == releases' = [releases EXCEPT ![g] = None]

\* The directory is made, the first file truncated.
OpenRelease(l) ==
    LET g == NextGeneration IN
    /\ pc[l] = "open" /\ g <= MaxGen
    /\ \/ /\ releases' = [releases EXCEPT ![g] = Bad]
          /\ Enter(l, "write", [ctx[l] EXCEPT !.gen = g]) /\ Fine
       \/ Fails("write") /\ Remove(g) /\ Goto(l, "undo")
    /\ UNCHANGED <<tables, current, counter, loaded, enabled>>

\* domains.cfg, the two maps, the manifest, each synced; writing fails in a
\* directory that somebody has removed.  Whether HAProxy will accept the
\* result is settled here and found out in CheckRelease.
WriteRelease(l) ==
    LET g == ctx[l].gen IN
    /\ pc[l] = "write"
    /\ \/ /\ releases[g] # None
          /\ \/ releases' = [releases EXCEPT ![g] = ctx[l].routes] /\ Fine
             \/ releases' = [releases EXCEPT ![g] = Bad] /\ Fails("check")
          /\ Goto(l, "switch")
       \/ /\ (releases[g] = None /\ Fine) \/ Fails("write")
          /\ Remove(g) /\ Goto(l, "undo")
    /\ UNCHANGED <<tables, current, counter, loaded, enabled>>

\* currentTarget, switchCurrent: the rename, then a sync of the directory,
\* either of which may fail.
SwitchCurrent(l) ==
    LET g == ctx[l].gen IN
    /\ pc[l] = "switch"
    /\ \/ current' = g /\ UNCHANGED releases /\ Fine
          /\ Enter(l, "check", [ctx[l] EXCEPT !.prev = current])
       \/ Fails("switch") /\ current' \in {current, g} /\ Remove(g) /\ Goto(l, "undo")
    /\ UNCHANGED <<tables, counter, loaded, enabled>>

\* haproxy -c over the entry config and the candidate; a rejected candidate
\* gives the link back to the release it named before, unless that fails, which
\* nobody asks.
CheckWithoutRestore(l) ==                                          \* mutant
    LET g == ctx[l].gen IN
    /\ pc[l] = "check"
    /\ \/ releases[g] \in Routing /\ Goto(l, "record") /\ UNCHANGED releases
       \/ releases[g] \notin Routing /\ Remove(g) /\ Goto(l, "undo")
    /\ UNCHANGED <<tables, current, counter, loaded, enabled, faulted>>
CheckRelease(l) ==
    LET g == ctx[l].gen IN
    /\ pc[l] = "check"
    /\ \/ releases[g] \in Routing /\ Goto(l, "record") /\ UNCHANGED <<releases, current>> /\ Fine
       \/ /\ releases[g] \notin Routing
          /\ \/ current' = ctx[l].prev /\ Fine
             \/ Fails("switch") /\ UNCHANGED current
          /\ Remove(g) /\ Goto(l, "undo")
    /\ UNCHANGED <<tables, counter, loaded, enabled>>

\* pruneOldReleases: newest first, whatever comes after the first Keep goes,
\* except the release just published.
Kept(g) == {h \in Gens : releases[h] # None /\
               (h = g \/ Cardinality({k \in h..MaxGen : releases[k] # None}) <= Keep)}

\* The counter file is rewritten in place: a failure may leave it empty.
RecordGeneration(l) ==
    LET g == ctx[l].gen IN
    /\ pc[l] = "record"
    /\ \/ /\ counter' = g
          /\ releases' = [h \in Gens |-> IF h \in Kept(g) THEN releases[h] ELSE None]
          /\ Goto(l, "reload") /\ Fine
       \/ Fails("counter") /\ counter' \in {counter, 0} /\ Remove(g) /\ Goto(l, "undo")
    /\ UNCHANGED <<tables, current, loaded, enabled>>

\* reloadProxy: the new worker reads through the link, and when it cannot
\* start the old one goes on.  A failed reload counts only if the service is
\* seen to be active.
ReloadIgnored(l) ==                                                \* mutant
    /\ pc[l] = "reload"
    /\ \/ loaded' = (IF loaded = Down THEN Down ELSE Load(loaded)) /\ Fine
       \/ Fails("reload") /\ UNCHANGED loaded
    /\ Goto(l, "done")
    /\ UNCHANGED <<tables, layout, enabled>>
ReloadProxy(l) ==
    /\ pc[l] = "reload"
    /\ \/ loaded' = (IF loaded = Down THEN Down ELSE Load(loaded)) /\ Goto(l, "done") /\ Fine
       \/ loaded # Down /\ Fails("reload") /\ UNCHANGED loaded /\ Goto(l, "undo")
       \/ loaded # Down /\ Fails("probe") /\ UNCHANGED loaded /\ Goto(l, "done")
    /\ UNCHANGED <<tables, layout, enabled>>

\* The caller got nil: Del goes on, the others return.
Done(l) ==
    /\ pc[l] = "done"
    /\ IF ctx[l].op = "userdel" THEN Goto(l, "drop") ELSE Return(l)
    /\ UNCHANGED <<tables, layout, loaded, enabled, faulted>>

\* What each caller takes back when it got an error.  Del takes nothing back.
Undone(c) ==
    CASE c.op = "add" /\ OwnedBy(c.acct, c.dom) -> [dom EXCEPT ![c.dom] = None]
      [] c.op = "del" /\ acct[c.acct] # None /\ dom[c.dom] = None ->
            [dom EXCEPT ![c.dom] = [owner |-> c.acct, pp |-> c.pp]]
      [] c.op = "set" -> SetFlag(c, c.pp)
      [] OTHER -> dom

UndoForgotten(l) ==                                                \* mutant
    pc[l] = "undo" /\ Return(l) /\ Fine /\ UNCHANGED <<tables, layout, loaded, enabled>>
Undo(l) ==
    LET op == ctx[l].op IN
    /\ pc[l] = "undo"
    /\ \/ /\ dom' = Undone(ctx[l])
          /\ faulted' = IF op = "userdel" THEN faulted \cup {"withdraw"} ELSE faulted
       \/ op \in {"add", "del", "set"} /\ Fails("db") /\ UNCHANGED dom
    /\ Return(l)
    /\ UNCHANGED <<acct, fresh, layout, loaded, enabled>>

-----------------------------------------------------------------------------
(* A process dies between two calls. *)

Crash(p) ==
    /\ Fails("crash")
    /\ \E l \in Busy : l[1] = p
    /\ pc' = [l \in Lanes |-> IF l[1] = p THEN "idle" ELSE pc[l]]
    /\ ctx' = [l \in Lanes |-> IF l[1] = p THEN NoCtx ELSE ctx[l]]
    /\ UNCHANGED <<tables, layout, loaded, enabled>>

\* systemd restarts the service: a reboot, a crash of HAProxy, an operator.
RestartService ==
    /\ enabled /\ loaded' = Load(Down)
    /\ UNCHANGED <<tables, layout, enabled, pc, ctx, faulted>>

Start(l) ==
    \/ /\ Room
       /\ \/ AddDomainLookup(l) \/ DelDomainLookup(l) \/ SetDomainProtocolLookup(l)
          \/ SyncAllDomains(l) \/ DelLookup(l)
    \/ ApplyHaproxyState(l)

Continue(l) ==
    \/ AddDomainInsert(l) \/ DelDomainDelete(l) \/ SetDomainProtocolUpdate(l)
    \/ SwitchService(l) \/ DelRows(l) \/ DropAccount(l)
    \/ ListAllDomains(l) \/ OpenRelease(l) \/ WriteRelease(l) \/ SwitchCurrent(l)
    \/ CheckRelease(l) \/ RecordGeneration(l) \/ ReloadProxy(l) \/ Done(l) \/ Undo(l)

Next == \/ \E l \in Lanes : Start(l) \/ Continue(l)
        \/ CreateAccount \/ RestartService
        \/ \E p \in Procs : Crash(p)

Spec == Init /\ [][Next]_vars

-----------------------------------------------------------------------------
(* Properties *)

\* Tables, release layout, service and locals hold values of their kind.
TypeOK ==
    /\ acct \in [Accounts -> Ips \cup {None}] /\ fresh \subseteq Accounts
    /\ dom \in [Domains -> Row \cup {None}]
    /\ releases \in [Gens -> Routing \cup {None, Bad}]
    /\ current \in Gens \cup {None} /\ counter \in 0..MaxGen
    /\ loaded \in Routing \cup {Down} /\ enabled \in BOOLEAN
    /\ pc \in [Lanes -> Pcs] /\ faulted \subseteq AllFaults \cup {"withdraw"}

\* No domain is ever served from the container of an account that it was not
\* bound to: the "cross-tenant hijack" Del's order of steps is there to prevent.
NoForeignRoute ==
    loaded # Down =>
        \A d \in Domains, a \in Accounts :
            loaded[d] # None /\ loaded[d].ip = acct[a] => loaded[d].owner = a

\* Handlers that meet no failure and do not overlap never make one, over any
\* sequence of them and whichever addresses are used again.
RoutedToOwner == faulted = {} => NoForeignRoute

\* Whatever failed before, a handler that has published and reloaded without
\* an error leaves the link on the routes of the database, and the service
\* serves them (SyncAllDomains: "repairs drift").
ServedOnSuccess ==
    \A l \in Lanes :
        pc[l] = "done" /\ "probe" \notin faulted =>
            /\ Loadable /\ releases[current] = DbRoutes
            /\ loaded \in {Down, DbRoutes}

\* Del removes an account it found domains for only when nothing routes to it.
WithdrawnFirst ==
    \A l \in Lanes :
        pc[l] = "drop" /\ ctx[l].had /\ "probe" \notin faulted /\ loaded # Down =>
            \A d \in Domains : loaded[d] # None => loaded[d].ip # acct[ctx[l].acct]

\* The link names a release the service can load, but for the moment in which
\* a candidate is being checked: the service can be restarted at any time.
CurrentComplete == (\A l \in Lanes : pc[l] # "check") => Loadable

\* It takes a crash, a failing counter write or a failing sync of the
\* directory to break that.
AlwaysLoadable == faulted \cap {"crash", "counter", "switch"} = {} => CurrentComplete

\* Nor is the release the link names ever edited: only the link moves.
LiveUntouched ==
    [][faulted' \cap {"crash", "counter", "switch"} = {} /\ Loadable
          => current' # current \/ releases'[current] = releases[current]]_vars

\* When no handler is in flight the published release says what the database
\* says, also after a rejected or unwritten release (AddDomain: "roll the DB
\* row back so the two never disagree").  A Del whose publication fails is
\* not covered: it leaves its rows deleted.
RoutesAgree ==
    Busy = {} /\ faulted \subseteq {"check", "write"} =>
        Loadable /\ releases[current] = DbRoutes /\ loaded \in {Down, DbRoutes}

=============================================================================
