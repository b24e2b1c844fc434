------------------------ MODULE DomainRouting_proofs ------------------------
(***************************************************************************)
(* Proofs about the domain handlers and their publisher (module            *)
(* DomainRouting).                                                         *)
(*                                                                         *)
(* RoutingTyped, the types with what each handler has in hand at each of   *)
(* its steps, holds however many handlers overlap.  The rest is proved for *)
(* handlers that do not overlap (OneAtATime), as the properties are false  *)
(* for those that do, but for any number of processes, accounts, domains,  *)
(* addresses and generations, and whatever fails or crashes:               *)
(*   RowsKnown, ReleaseKnown   what a handler knows of the tables and of   *)
(*                             the release it works on                     *)
(*   Tidy                      the counter names the release of the link   *)
(*   Reversible                a handler that fails takes back its edit    *)
(*   NothingFailed             what is served and what would be loaded     *)
(*                             routes to the accounts it was rendered from *)
(* Each part is carried over the steps of the one lane that may be busy,   *)
(* group by group: the lookups, the edits, the publication, the others.    *)
(***************************************************************************)
EXTENDS DomainRouting, FiniteSetTheorems, TLAPS

\* What a handler keeps between its steps.
CtxStates ==
    [op: Ops \cup {None}, acct: Accounts \cup {None},
     dom: Domains \cup {None}, pp: BOOLEAN, gen: Gens \cup {None}, prev: Gens \cup {None},
     routes: Routing \cup {None}, todo: SUBSET Domains, had: BOOLEAN]

Edits == {"add", "del", "set"}

\* Which operation is at which step, and what it has in hand there.
CtxKnows(p, c) ==
    /\ p = "idle" => c = NoCtx
    /\ p # "idle" => c.op # None
    /\ p = "insert" => c.op = "add"
    /\ p = "delete" => c.op = "del"
    /\ p = "update" => c.op = "set"
    /\ p = "service" => c.op = "sync"
    /\ p \in {"rows", "drop"} => c.op = "userdel"
    /\ c.op \in Edits => c.acct \in Accounts /\ c.dom \in Domains
    /\ c.op = "userdel" => c.acct \in Accounts
    /\ c.op # "userdel" => ~c.had
    /\ p \in {"open", "write", "switch", "check", "record"} => c.routes \in Routing
    /\ p \in {"write", "switch", "check", "record"} => c.gen \in Gens

RoutingTyped ==
    /\ TypeOK
    /\ ctx \in [Lanes -> CtxStates]
    /\ \A l \in Lanes : CtxKnows(pc[l], ctx[l])
    /\ \A d \in Domains : dom[d] # None => acct[dom[d].owner] # None
    /\ \A a \in fresh : acct[a] = None
    /\ \A a, b \in Accounts : acct[a] # None /\ acct[a] = acct[b] => a = b

Alone == \A l, m \in Lanes : pc[l] = "idle" \/ pc[m] = "idle" \/ l = m

\* The routes a table of domains stands for.
RoutesOf(rows) == [d \in Domains |-> IF rows[d] = None THEN None
                                     ELSE [owner |-> rows[d].owner, ip |-> acct[rows[d].owner], pp |-> rows[d].pp]]

Serves(routes) == loaded = Down \/ loaded = routes

Publishing == {"list", "open", "write", "switch", "check", "record", "reload", "undo"}
After == Publishing \cup {"done"}

\* What a handler that is alone knows of the tables.
RowsKnown(p, c) ==
    /\ p = "insert" => acct[c.acct] # None /\ dom[c.dom] = None
    /\ p \in {"delete", "update"} => dom[c.dom] = [owner |-> c.acct, pp |-> c.pp]
    /\ p \in After /\ c.op = "add" => dom[c.dom] = [owner |-> c.acct, pp |-> c.pp]
    /\ p \in After /\ c.op = "del" => acct[c.acct] # None /\ dom[c.dom] = None
    /\ p \in After /\ c.op = "set" => dom[c.dom] = [owner |-> c.acct, pp |-> ~c.pp]
    /\ p = "rows" => c.had /\ c.todo = Owned(c.acct)
    /\ p \in After /\ c.op = "userdel" => c.had
    /\ p \in After \cup {"drop"} /\ c.had => Owned(c.acct) = {}
    /\ p = "drop" /\ ~c.had /\ "db" \notin faulted => Owned(c.acct) = {}

\* What it knows of the release it works on.
ReleaseKnown(p, c) ==
    /\ p \in {"open", "write"} => c.routes = DbRoutes
    /\ p = "write" => releases[c.gen] = Bad
    /\ p \in {"switch", "check"} =>
          \/ releases[c.gen] = DbRoutes
          \/ releases[c.gen] = Bad /\ "check" \in faulted
    /\ p \in {"check", "record"} => current = c.gen
    /\ p = "record" => releases[c.gen] = DbRoutes
    /\ p \in {"reload", "done"} \/ (p = "drop" /\ c.had) => current # None /\ releases[current] = DbRoutes
    /\ p = "done" \/ (p = "drop" /\ c.had) => "probe" \in faulted \/ Serves(DbRoutes)

\* Without a crash, a failing counter write or a failing sync the counter names
\* the release the link names, or is about to name again.
Clean == faulted \cap {"crash", "counter", "switch"} = {}
LinkKnown(p, c) ==
    /\ p \in {"write", "switch", "check", "record"} => c.gen = counter + 1
    /\ p = "check" => c.prev = counter
    /\ p \notin {"check", "record"} => current = counter
Tidy ==
    Clean => /\ counter \in Gens /\ releases[counter] \in Routing
             /\ \A l \in Lanes : pc[l] # "idle" => LinkKnown(pc[l], ctx[l])
             /\ (\A l \in Lanes : pc[l] = "idle") => current = counter

\* When only the checks and the writing of releases have failed, the counter
\* names the routes the handler leaves if it fails.
Agrees == releases[counter] = DbRoutes /\ Serves(DbRoutes)
Before(c) == RoutesOf(Undone(c))
RollsBack(p, c) ==
    /\ p \in {"insert", "delete", "update", "service", "drop"} => Agrees
    /\ p \in {"list", "open", "write", "switch", "check", "undo"} /\ c.op # "userdel" =>
          /\ releases[counter] = Before(c)
          /\ Serves(Before(c)) \/ (p = "check" /\ releases[c.gen] = DbRoutes /\ loaded = DbRoutes)
Reversible ==
    faulted \subseteq {"check", "write"} =>
        /\ \A l \in Lanes : RollsBack(pc[l], ctx[l])
        /\ (\A l \in Lanes : pc[l] = "idle") => Agrees

\* Routes to the containers of the accounts they were rendered from.
Sound(routes) == \A d \in Domains : routes[d] # None => acct[routes[d].owner] = routes[d].ip
NothingFailed ==
    faulted = {} => (loaded # Down => Sound(loaded)) /\ (Loadable => Sound(releases[current]))

RoutingInv ==
    /\ RoutingTyped /\ Alone
    /\ \A l \in Lanes : RowsKnown(pc[l], ctx[l]) /\ ReleaseKnown(pc[l], ctx[l])
    /\ Tidy /\ Reversible /\ NothingFailed

-----------------------------------------------------------------------------
(* Types *)

LEMMA MarksApart == None # Bad /\ None # Down /\ Bad # Down
  <1>2. ASSUME NEW a, NEW b PROVE Cardinality({a, b}) # 3
    <2>1. Cardinality({a}) = 1 /\ IsFiniteSet({a}) BY FS_Singleton
    <2>2. Cardinality({a} \cup {b}) = IF b \in {a} THEN Cardinality({a}) ELSE Cardinality({a}) + 1
      BY <2>1, FS_AddElement
    <2>3. {a} \cup {b} = {a, b} OBVIOUS
    <2> QED BY <2>1, <2>2, <2>3
  <1>3. Cardinality({None, Bad, Down}) = 3 BY MarksAssumption
  <1>4. None = Bad => {None, Bad, Down} = {None, Down} OBVIOUS
  <1>5. None = Down => {None, Bad, Down} = {None, Bad} OBVIOUS
  <1>6. Bad = Down => {None, Bad, Down} = {None, Bad} OBVIOUS
  <1> QED BY <1>2, <1>3, <1>4, <1>5, <1>6

LEMMA GensAre == 1 \in Gens /\ Gens \subseteq Nat /\ (\A g \in 0..MaxGen : g + 1 <= MaxGen => g + 1 \in Gens)
                 /\ Gens \subseteq 0..MaxGen
  BY BoundsAssumption DEF Gens

LEMMA DbRoutesTyped ==
    ASSUME RoutingTyped
    PROVE  DbRoutes \in Routing
  <1>1. ASSUME NEW d \in Domains, dom[d] # None
        PROVE  [owner |-> dom[d].owner, ip |-> acct[dom[d].owner], pp |-> dom[d].pp] \in Route
    <2>1. dom[d] \in Row BY <1>1 DEF RoutingTyped, TypeOK
    <2>2. dom[d].owner \in Accounts /\ dom[d].pp \in BOOLEAN BY <2>1 DEF Row
    <2>3. acct[dom[d].owner] \in Ips BY <1>1, <2>2 DEF RoutingTyped, TypeOK
    <2> QED BY <2>2, <2>3 DEF Route
  <1> QED BY <1>1 DEF DbRoutes, Routing

\* One lane goes on.
LEMMA LaneMoves ==
    ASSUME pc \in [Lanes -> Pcs], ctx \in [Lanes -> CtxStates], \A m \in Lanes : CtxKnows(pc[m], ctx[m]),
           NEW l \in Lanes, NEW p \in Pcs, NEW c \in CtxStates, CtxKnows(p, c), Enter(l, p, c)
    PROVE  /\ pc' \in [Lanes -> Pcs] /\ ctx' \in [Lanes -> CtxStates]
           /\ \A m \in Lanes : CtxKnows(pc'[m], ctx'[m])
           /\ pc'[l] = p /\ ctx'[l] = c /\ \A m \in Lanes : m # l => pc'[m] = pc[m] /\ ctx'[m] = ctx[m]
  BY DEF Enter

LEMMA LaneGoes ==
    ASSUME pc \in [Lanes -> Pcs], ctx \in [Lanes -> CtxStates], \A m \in Lanes : CtxKnows(pc[m], ctx[m]),
           NEW l \in Lanes, NEW p \in Pcs, CtxKnows(p, ctx[l]), Goto(l, p)
    PROVE  /\ pc' \in [Lanes -> Pcs] /\ ctx' \in [Lanes -> CtxStates]
           /\ \A m \in Lanes : CtxKnows(pc'[m], ctx'[m])
           /\ pc'[l] = p /\ ctx' = ctx /\ \A m \in Lanes : m # l => pc'[m] = pc[m]
  BY DEF Goto

LEMMA NoCtxIs ==
    /\ NoCtx \in CtxStates /\ CtxKnows("idle", NoCtx) /\ "idle" \in Pcs
    /\ NoCtx.op = None /\ NoCtx.acct = None /\ NoCtx.todo = {} /\ ~NoCtx.had
  <1>1. NoCtx \in CtxStates BY DEF NoCtx, CtxStates
  <1>2. CtxKnows("idle", NoCtx)
    <2>1. NoCtx.op = None /\ ~NoCtx.had BY DEF NoCtx
    <2>2. None \notin Ops BY MarksAssumption
    <2> QED BY <2>1, <2>2 DEF CtxKnows, Edits, Ops
  <1> QED BY <1>1, <1>2 DEF NoCtx, Pcs

\* The locals a handler begins with.
NewCall(op, a, d, pp) == [NoCtx EXCEPT !.op = op, !.acct = a, !.dom = d, !.pp = pp]
NewDel(a) == [NoCtx EXCEPT !.op = "userdel", !.acct = a]
NewWithdraw(a, todo) == [[NoCtx EXCEPT !.op = "userdel", !.acct = a] EXCEPT !.todo = todo, !.had = TRUE]

LEMMA NewCallIs ==
    ASSUME NEW op \in Ops, NEW a \in Accounts, NEW d \in Domains, NEW pp \in BOOLEAN
    PROVE  /\ NewCall(op, a, d, pp) \in CtxStates
           /\ NewCall(op, a, d, pp).op = op /\ NewCall(op, a, d, pp).acct = a
           /\ NewCall(op, a, d, pp).dom = d /\ NewCall(op, a, d, pp).pp = pp
           /\ ~NewCall(op, a, d, pp).had
  BY DEF NewCall, NoCtx, CtxStates

LEMMA NewDelIs ==
    \A a \in Accounts : \A todo \in SUBSET Domains :
        /\ NewDel(a) \in CtxStates /\ NewDel(a).op = "userdel" /\ NewDel(a).acct = a /\ ~NewDel(a).had
        /\ NewWithdraw(a, todo) \in CtxStates /\ NewWithdraw(a, todo).op = "userdel"
        /\ NewWithdraw(a, todo).acct = a /\ NewWithdraw(a, todo).todo = todo /\ NewWithdraw(a, todo).had
  <1> SUFFICES ASSUME NEW a \in Accounts, NEW todo \in SUBSET Domains
               PROVE  /\ NewDel(a) \in CtxStates /\ NewDel(a).op = "userdel" /\ NewDel(a).acct = a /\ ~NewDel(a).had
                      /\ NewWithdraw(a, todo) \in CtxStates /\ NewWithdraw(a, todo).op = "userdel"
                      /\ NewWithdraw(a, todo).acct = a /\ NewWithdraw(a, todo).todo = todo
                      /\ NewWithdraw(a, todo).had
    OBVIOUS
  <1>1. NewDel(a) \in CtxStates BY DEF NewDel, NoCtx, CtxStates, Ops
  <1>2. NewDel(a).op = "userdel" /\ NewDel(a).acct = a /\ ~NewDel(a).had BY DEF NewDel, NoCtx
  <1>3. NewWithdraw(a, todo) \in CtxStates
    <2>1. NewWithdraw(a, todo) = [NewDel(a) EXCEPT !.todo = todo, !.had = TRUE] BY DEF NewDel, NewWithdraw
    <2>2. ASSUME NEW c \in CtxStates PROVE [c EXCEPT !.todo = todo, !.had = TRUE] \in CtxStates BY DEF CtxStates
    <2> QED BY <1>1, <2>1, <2>2
  <1>4. /\ NewWithdraw(a, todo).op = "userdel" /\ NewWithdraw(a, todo).acct = a
        /\ NewWithdraw(a, todo).todo = todo /\ NewWithdraw(a, todo).had
    BY DEF NewWithdraw, NoCtx
  <1> QED BY <1>1, <1>2, <1>3, <1>4

LEMMA NewSync ==
    ASSUME NEW on \in BOOLEAN
    PROVE  /\ [NoCtx EXCEPT !.op = "sync", !.pp = on] \in CtxStates
           /\ [NoCtx EXCEPT !.op = "sync", !.pp = on].op = "sync"
           /\ ~[NoCtx EXCEPT !.op = "sync", !.pp = on].had
           /\ [NoCtx EXCEPT !.op = "sync"] \in CtxStates
           /\ [NoCtx EXCEPT !.op = "sync"].op = "sync"
           /\ ~[NoCtx EXCEPT !.op = "sync"].had
  BY DEF NoCtx, CtxStates, Ops

\* The handler is the same, whatever it has come to hold.
SameCall(e, c) == e.op = c.op /\ e.acct = c.acct /\ e.dom = c.dom /\ e.pp = c.pp /\ e.had = c.had

LEMMA LearnsRoutes ==
    ASSUME NEW c \in CtxStates, NEW r \in Routing
    PROVE  /\ [c EXCEPT !.routes = r] \in CtxStates /\ SameCall([c EXCEPT !.routes = r], c)
           /\ [c EXCEPT !.routes = r].routes = r
  BY DEF CtxStates, SameCall

LEMMA LearnsGen ==
    ASSUME NEW c \in CtxStates, NEW g \in Gens
    PROVE  /\ [c EXCEPT !.gen = g] \in CtxStates /\ SameCall([c EXCEPT !.gen = g], c)
           /\ [c EXCEPT !.gen = g].gen = g /\ [c EXCEPT !.gen = g].routes = c.routes
  BY DEF CtxStates, SameCall

LEMMA LearnsPrev ==
    ASSUME NEW c \in CtxStates, NEW h \in Gens \cup {None}
    PROVE  /\ [c EXCEPT !.prev = h] \in CtxStates /\ SameCall([c EXCEPT !.prev = h], c)
           /\ [c EXCEPT !.prev = h].prev = h /\ [c EXCEPT !.prev = h].gen = c.gen
           /\ [c EXCEPT !.prev = h].routes = c.routes
  BY DEF CtxStates, SameCall

LEMMA LearnsTodo ==
    ASSUME NEW c \in CtxStates, NEW todo \in SUBSET Domains
    PROVE  /\ [c EXCEPT !.todo = todo] \in CtxStates /\ SameCall([c EXCEPT !.todo = todo], c)
           /\ [c EXCEPT !.todo = todo].todo = todo
  BY DEF CtxStates, SameCall

\* The types, part by part.
LanesTyped ==
    /\ pc \in [Lanes -> Pcs] /\ ctx \in [Lanes -> CtxStates]
    /\ \A l \in Lanes : CtxKnows(pc[l], ctx[l])
TablesTyped ==
    /\ acct \in [Accounts -> Ips \cup {None}] /\ fresh \subseteq Accounts
    /\ dom \in [Domains -> Row \cup {None}]
    /\ \A d \in Domains : dom[d] # None => acct[dom[d].owner] # None
    /\ \A a \in fresh : acct[a] = None
    /\ \A a, b \in Accounts : acct[a] # None /\ acct[a] = acct[b] => a = b
ProxyTyped ==
    /\ releases \in [Gens -> Routing \cup {None, Bad}]
    /\ current \in Gens \cup {None} /\ counter \in 0..MaxGen
    /\ loaded \in Routing \cup {Down} /\ enabled \in BOOLEAN
FaultsTyped == faulted \subseteq AllFaults \cup {"withdraw"}

LEMMA TypedByParts == RoutingTyped <=> LanesTyped /\ TablesTyped /\ ProxyTyped /\ FaultsTyped
  BY DEF RoutingTyped, TypeOK, LanesTyped, TablesTyped, ProxyTyped, FaultsTyped

\* The actions.
Lookups(l) ==
    \/ AddDomainLookup(l) \/ DelDomainLookup(l) \/ SetDomainProtocolLookup(l)
    \/ SyncAllDomains(l) \/ DelLookup(l) \/ ApplyHaproxyState(l)
Edited(l) ==
    \/ AddDomainInsert(l) \/ DelDomainDelete(l) \/ SetDomainProtocolUpdate(l) \/ DelRows(l) \/ Undo(l)
Published(l) ==
    \/ OpenRelease(l) \/ WriteRelease(l) \/ SwitchCurrent(l) \/ CheckRelease(l) \/ RecordGeneration(l)

LEMMA NextIs ==
    ASSUME Next
    PROVE  \/ CreateAccount \/ RestartService \/ \E p \in Procs : Crash(p)
           \/ \E l \in Lanes :
                 Lookups(l) \/ Edited(l) \/ Published(l) \/ ListAllDomains(l) \/ SwitchService(l)
                 \/ ReloadProxy(l) \/ Done(l) \/ DropAccount(l)
  BY DEF Next, Start, Continue, Lookups, Edited, Published

LEMMA FaultsKept ==
    ASSUME FaultsTyped, [Next]_vars
    PROVE  FaultsTyped' /\ faulted \subseteq faulted'
  <1>1. ASSUME NEW kind, Fails(kind) PROVE FaultsTyped' /\ faulted \subseteq faulted'
    BY <1>1, FaultsAssumption DEF Fails, FaultsTyped
  <1>2. Fine => FaultsTyped' /\ faulted \subseteq faulted' BY DEF Fine, FaultsTyped
  <1>3. UNCHANGED faulted => Fine BY DEF Fine
  <1>4. ASSUME NEW l \in Lanes, Lookups(l)
        PROVE  UNCHANGED faulted \/ (\E kind \in AllFaults : Fails(kind)) \/ Fine
    BY <1>4 DEF Lookups, AddDomainLookup, DelDomainLookup, SetDomainProtocolLookup, SyncAllDomains, DelLookup,
                ApplyHaproxyState, AllFaults
  <1>5. ASSUME NEW l \in Lanes, Edited(l)
        PROVE  Fine \/ (\E kind \in AllFaults : Fails(kind)) \/ faulted' = faulted \/ faulted' = faulted \cup {"withdraw"}
    BY <1>5 DEF Edited, AddDomainInsert, DelDomainDelete, SetDomainProtocolUpdate, DelRows, Undo, AllFaults
  <1>6. ASSUME NEW l \in Lanes, Published(l)
        PROVE  UNCHANGED faulted \/ (\E kind \in AllFaults : Fails(kind)) \/ Fine
    BY <1>6 DEF Published, OpenRelease, WriteRelease, SwitchCurrent, CheckRelease, RecordGeneration, AllFaults
  <1>7. ASSUME NEW l \in Lanes, ListAllDomains(l) \/ SwitchService(l) \/ ReloadProxy(l) \/ Done(l) \/ DropAccount(l)
        PROVE  UNCHANGED faulted \/ (\E kind \in AllFaults : Fails(kind)) \/ Fine
    BY <1>7 DEF ListAllDomains, SwitchService, ReloadProxy, Done, DropAccount, AllFaults
  <1>8. CreateAccount \/ RestartService => UNCHANGED faulted BY DEF CreateAccount, RestartService
  <1>9. ASSUME NEW p \in Procs, Crash(p) PROVE Fails("crash") BY <1>9 DEF Crash
  <1>10. faulted' = faulted \/ faulted' = faulted \cup {"withdraw"} => FaultsTyped' /\ faulted \subseteq faulted'
    BY DEF FaultsTyped
  <1>11. CASE UNCHANGED vars BY <1>11, <1>10 DEF vars
  <1>12. CASE Next BY <1>12, NextIs, <1>1, <1>2, <1>3, <1>4, <1>5, <1>6, <1>7, <1>8, <1>9, <1>10
  <1> QED BY <1>11, <1>12

LEMMA ProxyKept ==
    ASSUME RoutingTyped, [Next]_vars
    PROVE  ProxyTyped'
  <1> USE TypedByParts DEF ProxyTyped
  <1>1. ASSUME NEW l \in Lanes, Lookups(l) PROVE ProxyTyped'
    BY <1>1 DEF Lookups, AddDomainLookup, DelDomainLookup, SetDomainProtocolLookup, SyncAllDomains, DelLookup,
                ApplyHaproxyState, layout
  <1>2. ASSUME NEW l \in Lanes, Edited(l) PROVE ProxyTyped'
    BY <1>2 DEF Edited, AddDomainInsert, DelDomainDelete, SetDomainProtocolUpdate, DelRows, Undo, layout
  <1>3. ASSUME NEW l \in Lanes, ListAllDomains(l) \/ Done(l) \/ DropAccount(l) PROVE ProxyTyped'
    BY <1>3 DEF ListAllDomains, Done, DropAccount, layout
  <1>4. ASSUME NEW l \in Lanes, OpenRelease(l) PROVE ProxyTyped'
    <2>1. UNCHANGED <<current, counter, loaded, enabled>> BY <1>4 DEF OpenRelease
    <2>2. \E v \in {None, Bad} : releases' = [releases EXCEPT ![NextGeneration] = v]
      BY <1>4 DEF OpenRelease, Remove
    <2> QED BY <2>1, <2>2
  <1>5. ASSUME NEW l \in Lanes, WriteRelease(l) PROVE ProxyTyped'
    <2>1. UNCHANGED <<current, counter, loaded, enabled>> BY <1>5 DEF WriteRelease
    <2>2. ctx[l].routes \in Routing BY <1>5 DEF WriteRelease, LanesTyped, CtxKnows
    <2>3. \E v \in Routing \cup {None, Bad} : releases' = [releases EXCEPT ![ctx[l].gen] = v]
      BY <1>5, <2>2 DEF WriteRelease, Remove
    <2> QED BY <2>1, <2>3
  <1>6. ASSUME NEW l \in Lanes, SwitchCurrent(l) PROVE ProxyTyped'
    <2>1. UNCHANGED <<counter, loaded, enabled>> BY <1>6 DEF SwitchCurrent
    <2>2. ctx[l].gen \in Gens BY <1>6 DEF SwitchCurrent, LanesTyped, CtxKnows
    <2>3. current' \in Gens \cup {None} BY <1>6, <2>2 DEF SwitchCurrent
    <2>4. releases' = releases \/ releases' = [releases EXCEPT ![ctx[l].gen] = None]
      BY <1>6 DEF SwitchCurrent, Remove
    <2> QED BY <2>1, <2>3, <2>4
  <1>7. ASSUME NEW l \in Lanes, CheckRelease(l) PROVE ProxyTyped'
    <2>1. UNCHANGED <<counter, loaded, enabled>> BY <1>7 DEF CheckRelease
    <2>2. ctx[l].prev \in Gens \cup {None} BY DEF LanesTyped, CtxStates
    <2>3. current' \in Gens \cup {None} BY <1>7, <2>2 DEF CheckRelease
    <2>4. releases' = releases \/ releases' = [releases EXCEPT ![ctx[l].gen] = None]
      BY <1>7 DEF CheckRelease, Remove
    <2> QED BY <2>1, <2>3, <2>4
  <1>8. ASSUME NEW l \in Lanes, RecordGeneration(l) PROVE ProxyTyped'
    <2>1. UNCHANGED <<current, loaded, enabled>> BY <1>8 DEF RecordGeneration
    <2>2. ctx[l].gen \in Gens BY <1>8 DEF RecordGeneration, LanesTyped, CtxKnows
    <2>3. counter' \in 0..MaxGen
      <3>1. counter' \in {counter, 0, ctx[l].gen} BY <1>8 DEF RecordGeneration
      <3>2. 0 \in 0..MaxGen BY BoundsAssumption
      <3> QED BY <2>2, <3>1, <3>2, GensAre
    <2>4. \/ releases' = [h \in Gens |-> IF h \in Kept(ctx[l].gen) THEN releases[h] ELSE None]
          \/ releases' = [releases EXCEPT ![ctx[l].gen] = None]
      BY <1>8 DEF RecordGeneration, Remove
    <2>5. releases' \in [Gens -> Routing \cup {None, Bad}] BY <2>4
    <2> QED BY <2>1, <2>3, <2>5
  <1>9. ASSUME NEW l \in Lanes, SwitchService(l) \/ ReloadProxy(l) PROVE ProxyTyped'
    <2>1. UNCHANGED <<releases, current, counter, enabled>>
      BY <1>9 DEF SwitchService, ReloadProxy, layout
    <2>2. Loadable => releases[current] \in Routing BY DEF Loadable
    <2>3. loaded' \in Routing \cup {Down}
      BY <1>9, <2>2 DEF SwitchService, ReloadProxy, Load
    <2> QED BY <2>1, <2>3
  <1>10. ASSUME RestartService PROVE ProxyTyped'
    <2>1. UNCHANGED <<releases, current, counter, enabled>>
      BY <1>10 DEF RestartService, layout
    <2>2. Loadable => releases[current] \in Routing BY DEF Loadable
    <2>3. loaded' \in Routing \cup {Down}
      BY <1>10, <2>2 DEF RestartService, Load
    <2> QED BY <2>1, <2>3
  <1>11. ASSUME CreateAccount \/ \E p \in Procs : Crash(p) PROVE ProxyTyped'
    BY <1>11 DEF CreateAccount, Crash, layout
  <1>12. CASE UNCHANGED vars BY <1>12 DEF vars
  <1> QED BY NextIs, <1>1, <1>2, <1>3, <1>4, <1>5, <1>6, <1>7, <1>8, <1>9, <1>10, <1>11, <1>12 DEF Published

\* What a step does to the tables: nothing, a row of a live account is written,
\* rows go, an account comes or goes.
RowWritten(d, row) ==
    dom' = [dom EXCEPT ![d] = row] /\ UNCHANGED <<acct, fresh>> /\ acct[row.owner] # None

LEMMA RowWrittenTyped ==
    ASSUME TablesTyped, NEW d \in Domains, NEW row \in Row, RowWritten(d, row)
    PROVE  TablesTyped'
  <1>1. \A e \in Domains : dom'[e] = IF e = d THEN row ELSE dom[e] BY DEF TablesTyped, RowWritten
  <1>2. \A e \in Domains : dom'[e] # None => acct'[dom'[e].owner] # None
    BY <1>1 DEF TablesTyped, RowWritten
  <1>3. dom' \in [Domains -> Row \cup {None}] BY DEF TablesTyped, RowWritten
  <1> QED BY <1>2, <1>3 DEF TablesTyped, RowWritten

LEMMA RowsGone ==
    ASSUME TablesTyped, UNCHANGED <<acct, fresh>>, dom' \in [Domains -> Row \cup {None}],
           \A d \in Domains : dom'[d] = dom[d] \/ dom'[d] = None
    PROVE  TablesTyped'
  <1>1. \A d \in Domains : dom'[d] # None => acct'[dom'[d].owner] # None BY DEF TablesTyped
  <1> QED BY <1>1 DEF TablesTyped

LEMMA FlagSet ==
    ASSUME TablesTyped, NEW c \in CtxStates, NEW pp \in BOOLEAN, c.dom \in Domains, c.acct \in Accounts,
           OwnedBy(c.acct, c.dom)
    PROVE  SetFlag(c, pp) = [dom EXCEPT ![c.dom] = [owner |-> c.acct, pp |-> pp]]
  <1>1. dom[c.dom] \in Row /\ dom[c.dom].owner = c.acct BY DEF TablesTyped, OwnedBy
  <1>2. [dom[c.dom] EXCEPT !.pp = pp] = [owner |-> c.acct, pp |-> pp] BY <1>1 DEF Row
  <1>3. SetFlag(c, pp) = [dom EXCEPT ![c.dom].pp = pp] BY DEF SetFlag
  <1>4. [dom EXCEPT ![c.dom].pp = pp] = [dom EXCEPT ![c.dom] = [dom[c.dom] EXCEPT !.pp = pp]] OBVIOUS
  <1> QED BY <1>2, <1>3, <1>4

LEMMA RowIs == \A a \in Accounts, pp \in BOOLEAN :
                  [owner |-> a, pp |-> pp] \in Row /\ [owner |-> a, pp |-> pp].owner = a
                  /\ [owner |-> a, pp |-> pp] # None
  <1>1. \A a \in Accounts, pp \in BOOLEAN : [owner |-> a, pp |-> pp] \in Row BY DEF Row
  <1> QED BY <1>1, MarksAssumption

LEMMA UndoneTyped ==
    ASSUME RoutingTyped, NEW l \in Lanes, pc[l] = "undo", dom' = Undone(ctx[l]), UNCHANGED <<acct, fresh>>
    PROVE  TablesTyped'
  <1> DEFINE c == ctx[l]
  <1>1. /\ TablesTyped /\ c \in CtxStates /\ CtxKnows(pc[l], c) /\ c.pp \in BOOLEAN
    BY TypedByParts DEF LanesTyped, CtxStates
  <1>2. CASE c.op = "add"
    <2>1. c.dom \in Domains BY <1>1, <1>2 DEF CtxKnows, Edits
    <2>2. dom' = dom \/ dom' = [dom EXCEPT ![c.dom] = None] BY <1>2 DEF Undone
    <2>3. dom' \in [Domains -> Row \cup {None}] /\ \A d \in Domains : dom'[d] = dom[d] \/ dom'[d] = None
      BY <1>1, <2>1, <2>2 DEF TablesTyped
    <2> QED BY <1>1, <2>3, RowsGone
  <1>3. CASE c.op = "del"
    <2>1. c.dom \in Domains /\ c.acct \in Accounts BY <1>1, <1>3 DEF CtxKnows, Edits
    <2>2. \/ dom' = dom
          \/ acct[c.acct] # None /\ dom' = [dom EXCEPT ![c.dom] = [owner |-> c.acct, pp |-> c.pp]]
      BY <1>3 DEF Undone
    <2> DEFINE row == [owner |-> c.acct, pp |-> c.pp]
    <2>3. row \in Row /\ row.owner = c.acct BY <1>1, <2>1, RowIs
    <2>4. CASE dom' = dom BY <1>1, <2>4 DEF TablesTyped
    <2>5. CASE acct[c.acct] # None /\ dom' = [dom EXCEPT ![c.dom] = row]
      <3>1. RowWritten(c.dom, row) BY <2>3, <2>5 DEF RowWritten
      <3> HIDE DEF row, c
      <3> QED BY <1>1, <2>1, <2>3, <3>1, RowWrittenTyped
    <2> QED BY <2>2, <2>4, <2>5
  <1>4. CASE c.op = "set"
    <2>1. c.dom \in Domains /\ c.acct \in Accounts BY <1>1, <1>4 DEF CtxKnows, Edits
    <2>2. dom' = SetFlag(c, c.pp) BY <1>4 DEF Undone
    <2> DEFINE row == [owner |-> c.acct, pp |-> c.pp]
    <2>3. CASE OwnedBy(c.acct, c.dom)
      <3>1. dom' = [dom EXCEPT ![c.dom] = row] BY <1>1, <2>1, <2>2, <2>3, FlagSet
      <3>2. row \in Row /\ row.owner = c.acct BY <1>1, <2>1, RowIs
      <3>3. acct[c.acct] # None BY <1>1, <2>1, <2>3 DEF TablesTyped, OwnedBy
      <3>4. RowWritten(c.dom, row) BY <3>1, <3>2, <3>3 DEF RowWritten
      <3> HIDE DEF row, c
      <3> QED BY <1>1, <2>1, <3>2, <3>4, RowWrittenTyped
    <2>4. CASE ~OwnedBy(c.acct, c.dom) BY <1>1, <2>2, <2>4 DEF TablesTyped, SetFlag
    <2> QED BY <2>3, <2>4
  <1>5. CASE c.op \notin Edits BY <1>1, <1>5 DEF Undone, Edits, TablesTyped
  <1> QED BY <1>2, <1>3, <1>4, <1>5 DEF Edits

LEMMA TablesKept ==
    ASSUME RoutingTyped, [Next]_vars
    PROVE  TablesTyped'
  <1>t. TablesTyped /\ LanesTyped BY TypedByParts
  <1>0. UNCHANGED tables => TablesTyped' BY <1>t DEF tables, TablesTyped
  <1>1. ASSUME NEW l \in Lanes, Lookups(l) \/ Published(l) \/ ListAllDomains(l) \/ SwitchService(l)
                                \/ ReloadProxy(l) \/ Done(l)
        PROVE  UNCHANGED tables
    BY <1>1 DEF Lookups, AddDomainLookup, DelDomainLookup, SetDomainProtocolLookup, SyncAllDomains, DelLookup,
                ApplyHaproxyState, Published, OpenRelease, WriteRelease, SwitchCurrent, CheckRelease,
                RecordGeneration, ListAllDomains, SwitchService, ReloadProxy, Done
  <1>2. ASSUME NEW l \in Lanes, AddDomainInsert(l) PROVE TablesTyped'
    <2> DEFINE c == ctx[l]
               row == [owner |-> c.acct, pp |-> c.pp]
    <2>1. CtxKnows("insert", c) /\ c \in CtxStates BY <1>2, <1>t DEF AddDomainInsert, LanesTyped
    <2>2. c.dom \in Domains /\ c.acct \in Accounts /\ c.pp \in BOOLEAN BY <2>1 DEF CtxKnows, Edits, CtxStates
    <2>3. row \in Row /\ row.owner = c.acct BY <2>2, RowIs
    <2>4. CASE UNCHANGED dom BY <1>0, <1>2, <2>4 DEF AddDomainInsert, tables
    <2>5. CASE acct[c.acct] # None /\ SetRow(c.dom, row)
      <3>1. RowWritten(c.dom, row) BY <1>2, <2>3, <2>5 DEF RowWritten, SetRow, AddDomainInsert
      <3> HIDE DEF row, c
      <3> QED BY <1>t, <2>2, <2>3, <3>1, RowWrittenTyped
    <2> QED BY <1>2, <2>4, <2>5 DEF AddDomainInsert
  <1>3. ASSUME NEW l \in Lanes, DelDomainDelete(l) \/ DelRows(l) PROVE TablesTyped'
    <2>1. UNCHANGED <<acct, fresh>> BY <1>3 DEF DelDomainDelete, DelRows
    <2>2. ctx[l].todo \subseteq Domains /\ (pc[l] = "delete" => ctx[l].dom \in Domains)
      BY <1>t DEF LanesTyped, CtxStates, CtxKnows, Edits
    <2>3. dom' = dom \/ \E d \in Domains : dom' = [dom EXCEPT ![d] = None]
      BY <1>3, <2>2 DEF DelDomainDelete, DelRows, SetRow
    <2>4. dom' \in [Domains -> Row \cup {None}] /\ \A d \in Domains : dom'[d] = dom[d] \/ dom'[d] = None
      BY <1>t, <2>3 DEF TablesTyped
    <2> QED BY <1>t, <2>1, <2>4, RowsGone
  <1>4. ASSUME NEW l \in Lanes, SetDomainProtocolUpdate(l) PROVE TablesTyped'
    <2> DEFINE c == ctx[l]
               row == [owner |-> c.acct, pp |-> ~c.pp]
    <2>1. CtxKnows("update", c) /\ c \in CtxStates BY <1>4, <1>t DEF SetDomainProtocolUpdate, LanesTyped
    <2>2. c.dom \in Domains /\ c.acct \in Accounts /\ (~c.pp) \in BOOLEAN BY <2>1 DEF CtxKnows, Edits, CtxStates
    <2>3. row \in Row /\ row.owner = c.acct BY <2>2, RowIs
    <2>4. CASE UNCHANGED dom BY <1>0, <1>4, <2>4 DEF SetDomainProtocolUpdate, tables
    <2>5. CASE dom' = SetFlag(c, ~c.pp) /\ OwnedBy(c.acct, c.dom)
      <3>1. dom' = [dom EXCEPT ![c.dom] = row] BY <1>t, <2>1, <2>2, <2>5, FlagSet
      <3>2. acct[c.acct] # None BY <1>t, <2>2, <2>5 DEF TablesTyped, OwnedBy
      <3>3. RowWritten(c.dom, row) BY <1>4, <2>3, <3>1, <3>2 DEF RowWritten, SetDomainProtocolUpdate
      <3> HIDE DEF row, c
      <3> QED BY <1>t, <2>2, <2>3, <3>3, RowWrittenTyped
    <2>6. CASE dom' = SetFlag(c, ~c.pp) /\ ~OwnedBy(c.acct, c.dom)
      BY <1>0, <1>4, <2>6 DEF SetDomainProtocolUpdate, tables, SetFlag
    <2> QED BY <1>4, <2>4, <2>5, <2>6 DEF SetDomainProtocolUpdate
  <1>5. ASSUME NEW l \in Lanes, Undo(l) PROVE TablesTyped'
    <2>1. UNCHANGED <<acct, fresh>> /\ (dom' = dom \/ dom' = Undone(ctx[l])) /\ pc[l] = "undo"
      BY <1>5 DEF Undo
    <2> QED BY <1>0, <2>1, UndoneTyped DEF tables
  <1>6. ASSUME NEW l \in Lanes, DropAccount(l) PROVE TablesTyped'
    <2> DEFINE a == ctx[l].acct
    <2>1. a \in Accounts BY <1>6, <1>t DEF DropAccount, LanesTyped, CtxKnows
    <2>2. CASE UNCHANGED <<acct, dom>> BY <1>0, <1>6, <2>2 DEF DropAccount, tables
    <2>3. CASE /\ acct' = [acct EXCEPT ![a] = None]
               /\ dom' = [d \in Domains |-> IF OwnedBy(a, d) THEN None ELSE dom[d]]
      <3>0. UNCHANGED fresh BY <1>6 DEF DropAccount
      <3>1. \A b \in Accounts : acct'[b] = IF b = a THEN None ELSE acct[b] BY <1>t, <2>3 DEF TablesTyped
      <3>2. \A d \in Domains : dom'[d] = IF OwnedBy(a, d) THEN None ELSE dom[d] BY <2>3
      <3> HIDE DEF a
      <3>3. acct' \in [Accounts -> Ips \cup {None}] /\ dom' \in [Domains -> Row \cup {None}]
        BY <1>t, <2>1, <2>3 DEF TablesTyped
      <3>4. ASSUME NEW d \in Domains, dom'[d] # None PROVE acct'[dom'[d].owner] # None
        <4>1. dom'[d] = dom[d] /\ dom[d].owner # a /\ dom[d].owner \in Accounts /\ acct[dom[d].owner] # None
          BY <1>t, <3>2, <3>4 DEF TablesTyped, OwnedBy, Row
        <4> QED BY <3>1, <4>1
      <3> QED BY <1>t, <3>0, <3>1, <3>3, <3>4 DEF TablesTyped
    <2> QED BY <1>6, <2>2, <2>3 DEF DropAccount
  <1>7. ASSUME CreateAccount PROVE TablesTyped'
    <2>1. PICK a \in fresh, i \in Ips \ {acct[b] : b \in Accounts} :
              acct' = [acct EXCEPT ![a] = i] /\ fresh' = fresh \ {a}
      BY <1>7 DEF CreateAccount
    <2>2. a \in Accounts /\ acct[a] = None /\ dom' = dom BY <1>7, <1>t, <2>1 DEF CreateAccount, TablesTyped
    <2>3. \A b \in Accounts : acct'[b] = IF b = a THEN i ELSE acct[b] BY <1>t, <2>1, <2>2 DEF TablesTyped
    <2>4. \A d \in Domains : dom[d] # None => dom[d].owner \in Accounts BY <1>t DEF TablesTyped, Row
    <2>5. i # None /\ \A b \in Accounts : acct[b] # i BY <2>1, MarksAssumption
    <2>6. \A d \in Domains : dom'[d] # None => acct'[dom'[d].owner] # None
      BY <1>t, <2>2, <2>3, <2>4, <2>5 DEF TablesTyped
    <2> QED BY <1>t, <2>1, <2>2, <2>3, <2>5, <2>6 DEF TablesTyped
  <1>8. ASSUME RestartService \/ \E p \in Procs : Crash(p) PROVE UNCHANGED tables
    BY <1>8 DEF RestartService, Crash
  <1>9. CASE UNCHANGED vars BY <1>9, <1>0 DEF vars, tables
  <1> QED BY NextIs, <1>0, <1>1, <1>2, <1>3, <1>4, <1>5, <1>6, <1>7, <1>8, <1>9 DEF Edited

LEMMA LanesKept ==
    ASSUME RoutingTyped, [Next]_vars
    PROVE  LanesTyped'
  <1>t. LanesTyped /\ TablesTyped /\ ProxyTyped BY TypedByParts
  <1>n. None \notin Ops BY MarksAssumption
  <1>e. ASSUME NEW l \in Lanes, NEW p \in Pcs, NEW c \in CtxStates, CtxKnows(p, c), Enter(l, p, c) PROVE LanesTyped'
    BY <1>e, <1>t, LaneMoves DEF LanesTyped
  <1>g. ASSUME NEW l \in Lanes, NEW p \in Pcs, CtxKnows(p, ctx[l]), Goto(l, p) PROVE LanesTyped'
    BY <1>g, <1>t, LaneGoes DEF LanesTyped
  <1>r. ASSUME NEW l \in Lanes, Return(l) PROVE LanesTyped' BY <1>r, <1>e, NoCtxIs DEF Return
  <1>s. UNCHANGED <<pc, ctx>> => LanesTyped' BY <1>t DEF LanesTyped
  <1>k. \A l \in Lanes : ctx[l] \in CtxStates /\ CtxKnows(pc[l], ctx[l]) BY <1>t DEF LanesTyped
  <1>1. ASSUME NEW l \in Lanes, AddDomainLookup(l) \/ DelDomainLookup(l) \/ SetDomainProtocolLookup(l) PROVE LanesTyped'
    <2>1. PICK p \in {"insert", "delete", "update"}, op \in Edits, a \in Accounts, d \in Domains, pp \in BOOLEAN :
              /\ Enter(l, p, NewCall(op, a, d, pp))
              /\ (p = "insert" => op = "add") /\ (p = "delete" => op = "del") /\ (p = "update" => op = "set")
      <3>1. \A d \in Domains : dom[d] # None => dom[d].pp \in BOOLEAN BY <1>t DEF TablesTyped, Row
      <3>2. CASE AddDomainLookup(l) BY <3>2 DEF AddDomainLookup, Edits, NewCall
      <3>3. CASE DelDomainLookup(l) BY <3>1, <3>3 DEF DelDomainLookup, Edits, OwnedBy, NewCall
      <3>4. CASE SetDomainProtocolLookup(l) BY <3>1, <3>4 DEF SetDomainProtocolLookup, Edits, OwnedBy, NewCall
      <3> QED BY <1>1, <3>2, <3>3, <3>4
    <2> DEFINE c == NewCall(op, a, d, pp)
    <2>a. op \in Ops BY DEF Edits, Ops
    <2>2. c \in CtxStates /\ c.op = op /\ c.acct = a /\ c.dom = d /\ ~c.had BY <2>a, NewCallIs
    <2> HIDE DEF c
    <2>3. CtxKnows(p, c) BY <1>n, <2>1, <2>2 DEF CtxKnows, Edits, Ops
    <2> QED BY <1>e, <2>1, <2>2, <2>3 DEF c, Pcs
  <1>2. ASSUME NEW l \in Lanes, SyncAllDomains(l) \/ ApplyHaproxyState(l) PROVE LanesTyped'
    <2>0. CtxKnows("list", [NoCtx EXCEPT !.op = "sync"])
          /\ \A on \in BOOLEAN : CtxKnows("service", [NoCtx EXCEPT !.op = "sync", !.pp = on])
      <3> DEFINE c == [NoCtx EXCEPT !.op = "sync"]
      <3>1. c.op = "sync" /\ ~c.had BY NewSync
      <3> HIDE DEF c
      <3>2. CtxKnows("list", c) BY <1>n, <3>1 DEF CtxKnows, Edits, Ops
      <3>3. ASSUME NEW on \in BOOLEAN PROVE CtxKnows("service", [NoCtx EXCEPT !.op = "sync", !.pp = on])
        <4> DEFINE e == [NoCtx EXCEPT !.op = "sync", !.pp = on]
        <4>1. e.op = "sync" /\ ~e.had BY NewSync
        <4> HIDE DEF e
        <4>2. CtxKnows("service", e) BY <1>n, <4>1 DEF CtxKnows, Edits, Ops
        <4> QED BY <4>2 DEF e
      <3> QED BY <3>2, <3>3 DEF c
    <2>1. CASE SyncAllDomains(l) BY <2>0, <2>1, <1>e, NewSync DEF SyncAllDomains, Pcs, PubPcs
    <2>2. CASE ApplyHaproxyState(l)
      <3>1. \/ \E on \in BOOLEAN : Enter(l, "service", [NoCtx EXCEPT !.op = "sync", !.pp = on])
            \/ UNCHANGED <<pc, ctx>>
        BY <2>2 DEF ApplyHaproxyState
      <3> QED BY <2>0, <3>1, <1>e, <1>s, NewSync DEF Pcs
    <2> QED BY <1>2, <2>1, <2>2
  <1>3. ASSUME NEW l \in Lanes, DelLookup(l) PROVE LanesTyped'
    <2>1. PICK a \in Accounts : Enter(l, "drop", NewDel(a)) \/ Enter(l, "rows", NewWithdraw(a, Owned(a)))
      BY <1>3 DEF DelLookup, NewDel, NewWithdraw
    <2> DEFINE c == NewDel(a)
               todo == Owned(a)
               e == NewWithdraw(a, todo)
    <2>2. todo \in SUBSET Domains BY DEF Owned
    <2>3. /\ c \in CtxStates /\ c.op = "userdel" /\ c.acct = a
          /\ e \in CtxStates /\ e.op = "userdel" /\ e.acct = a
      <3> HIDE DEF todo
      <3> QED BY <2>2, NewDelIs
    <2>4. Enter(l, "drop", c) \/ Enter(l, "rows", e) BY <2>1
    <2> HIDE DEF c, e
    <2>5. CtxKnows("drop", c) /\ CtxKnows("rows", e) BY <1>n, <2>3 DEF CtxKnows, Edits, Ops
    <2> QED BY <1>e, <2>3, <2>4, <2>5 DEF Pcs
  <1>4. ASSUME NEW l \in Lanes, AddDomainInsert(l) \/ DelDomainDelete(l) \/ SetDomainProtocolUpdate(l) \/ SwitchService(l)
        PROVE  LanesTyped'
    <2>1. (Goto(l, "list") \/ Return(l)) /\ pc[l] \in {"insert", "delete", "update", "service"}
      BY <1>4 DEF AddDomainInsert, DelDomainDelete, SetDomainProtocolUpdate, SwitchService
    <2>2. CtxKnows("list", ctx[l]) BY <1>k, <2>1 DEF CtxKnows, Edits
    <2> QED BY <1>g, <1>r, <2>1, <2>2 DEF Pcs, PubPcs
  <1>5. ASSUME NEW l \in Lanes, DelRows(l) PROVE LanesTyped'
    <2>0. pc[l] = "rows" BY <1>5 DEF DelRows
    <2>1. \/ Goto(l, "list") \/ Return(l)
          \/ \E d \in ctx[l].todo : Enter(l, "rows", [ctx[l] EXCEPT !.todo = @ \ {d}])
      BY <1>5 DEF DelRows
    <2>2. CtxKnows("list", ctx[l]) BY <1>k, <2>0 DEF CtxKnows, Edits
    <2>3. ASSUME NEW d \in ctx[l].todo, Enter(l, "rows", [ctx[l] EXCEPT !.todo = @ \ {d}]) PROVE LanesTyped'
      <3> DEFINE todo == ctx[l].todo \ {d}
                 c == [ctx[l] EXCEPT !.todo = todo]
      <3>1. todo \in SUBSET Domains BY <1>k DEF CtxStates
      <3> HIDE DEF todo
      <3>2. c \in CtxStates /\ SameCall(c, ctx[l])
        BY <1>k, <3>1, LearnsTodo
      <3>3. Enter(l, "rows", c) BY <2>3 DEF todo
      <3> HIDE DEF c
      <3>4. CtxKnows("rows", c) BY <1>k, <1>n, <2>0, <3>2 DEF CtxKnows, SameCall, Edits, Ops
      <3> QED BY <1>e, <3>2, <3>3, <3>4 DEF Pcs
    <2> QED BY <1>g, <1>r, <2>1, <2>2, <2>3 DEF Pcs, PubPcs
  <1>6. ASSUME NEW l \in Lanes, DropAccount(l) \/ Undo(l) PROVE LanesTyped'
    BY <1>6, <1>r DEF DropAccount, Undo
  <1>7. ASSUME NEW l \in Lanes, ListAllDomains(l) PROVE LanesTyped'
    <2> DEFINE c == [ctx[l] EXCEPT !.routes = DbRoutes]
    <2>0. pc[l] = "list" /\ (Enter(l, "open", c) \/ Goto(l, "undo")) BY <1>7 DEF ListAllDomains
    <2>1. DbRoutes \in Routing BY DbRoutesTyped
    <2>2. c \in CtxStates /\ SameCall(c, ctx[l]) /\ c.routes \in Routing
      <3> HIDE DEF DbRoutes
      <3> QED BY <1>k, <2>1, LearnsRoutes
    <2> HIDE DEF c
    <2>3. CtxKnows("open", c) BY <1>k, <1>n, <2>0, <2>2 DEF CtxKnows, SameCall, Edits, Ops
    <2>4. CtxKnows("undo", ctx[l]) BY <1>k, <2>0 DEF CtxKnows
    <2> QED BY <1>e, <1>g, <2>0, <2>2, <2>3, <2>4 DEF Pcs, PubPcs
  <1>8. ASSUME NEW l \in Lanes, OpenRelease(l) PROVE LanesTyped'
    <2> DEFINE c == [ctx[l] EXCEPT !.gen = NextGeneration]
    <2>0. pc[l] = "open" /\ (Enter(l, "write", c) \/ Goto(l, "undo")) /\ NextGeneration \in Gens
      BY <1>8, <1>t, GensAre DEF OpenRelease, ProxyTyped, NextGeneration
    <2>2. c \in CtxStates /\ SameCall(c, ctx[l]) /\ c.gen \in Gens /\ c.routes = ctx[l].routes
      BY <1>k, <2>0, LearnsGen
    <2> HIDE DEF c
    <2>3. CtxKnows("write", c) BY <1>k, <1>n, <2>0, <2>2 DEF CtxKnows, SameCall, Edits, Ops
    <2>4. CtxKnows("undo", ctx[l]) BY <1>k, <2>0 DEF CtxKnows
    <2> QED BY <1>e, <1>g, <2>0, <2>2, <2>3, <2>4 DEF Pcs, PubPcs
  <1>9. ASSUME NEW l \in Lanes, SwitchCurrent(l) PROVE LanesTyped'
    <2> DEFINE c == [ctx[l] EXCEPT !.prev = current]
    <2>0. pc[l] = "switch" /\ (Enter(l, "check", c) \/ Goto(l, "undo")) BY <1>9 DEF SwitchCurrent
    <2>2. c \in CtxStates /\ SameCall(c, ctx[l]) /\ c.gen = ctx[l].gen /\ c.routes = ctx[l].routes
      <3>1. current \in Gens \cup {None} BY <1>t DEF ProxyTyped
      <3> QED BY <1>k, <3>1, LearnsPrev
    <2> HIDE DEF c
    <2>3. CtxKnows("check", c) BY <1>k, <1>n, <2>0, <2>2 DEF CtxKnows, SameCall, Edits, Ops
    <2>4. CtxKnows("undo", ctx[l]) BY <1>k, <2>0 DEF CtxKnows
    <2> QED BY <1>e, <1>g, <2>0, <2>2, <2>3, <2>4 DEF Pcs, PubPcs
  <1>10. ASSUME NEW l \in Lanes, WriteRelease(l) \/ CheckRelease(l) \/ RecordGeneration(l) \/ ReloadProxy(l)
         PROVE  LanesTyped'
    <2>1. \E p \in Pcs : Goto(l, p) /\ CtxKnows(p, ctx[l])
      <3>1. CASE WriteRelease(l) BY <1>k, <3>1 DEF WriteRelease, CtxKnows, Pcs, PubPcs
      <3>2. CASE CheckRelease(l) BY <1>k, <3>2 DEF CheckRelease, CtxKnows, Pcs, PubPcs
      <3>3. CASE RecordGeneration(l) BY <1>k, <3>3 DEF RecordGeneration, CtxKnows, Pcs, PubPcs
      <3>4. CASE ReloadProxy(l) BY <1>k, <3>4 DEF ReloadProxy, CtxKnows, Pcs, PubPcs
      <3> QED BY <1>10, <3>1, <3>2, <3>3, <3>4
    <2> QED BY <2>1, <1>g
  <1>11. ASSUME NEW l \in Lanes, Done(l) PROVE LanesTyped'
    <2>1. pc[l] = "done" /\ ((ctx[l].op = "userdel" /\ Goto(l, "drop")) \/ Return(l)) BY <1>11 DEF Done
    <2>2. ctx[l].op = "userdel" => CtxKnows("drop", ctx[l]) BY <1>k, <2>1 DEF CtxKnows, Edits
    <2> QED BY <1>g, <1>r, <2>1, <2>2 DEF Pcs
  <1>12. ASSUME CreateAccount \/ RestartService PROVE LanesTyped'
    BY <1>12, <1>s DEF CreateAccount, RestartService
  <1>13. ASSUME NEW q \in Procs, Crash(q) PROVE LanesTyped'
    BY <1>13, <1>t, NoCtxIs DEF Crash, LanesTyped
  <1>14. CASE UNCHANGED vars BY <1>14, <1>s DEF vars
  <1> QED BY NextIs, <1>1, <1>2, <1>3, <1>4, <1>5, <1>6, <1>7, <1>8, <1>9, <1>10, <1>11, <1>12, <1>13, <1>14
          DEF Lookups, Edited, Published

LEMMA RoutingInitially ==
    ASSUME Init
    PROVE  RoutingTyped
  <1>1. LanesTyped BY NoCtxIs DEF Init, LanesTyped
  <1>2. TablesTyped BY DEF Init, TablesTyped, NoRoutes
  <1>3. ProxyTyped
    <2>1. NoRoutes \in Routing BY DEF NoRoutes, Routing
    <2>2. 1 \in Gens /\ 1 \in 0..MaxGen BY BoundsAssumption DEF Gens
    <2> HIDE DEF NoRoutes
    <2> QED BY <2>1, <2>2 DEF Init, ProxyTyped
  <1>4. FaultsTyped BY DEF Init, FaultsTyped
  <1> QED BY <1>1, <1>2, <1>3, <1>4, TypedByParts

LEMMA RoutingTypedKept ==
    ASSUME RoutingTyped, [Next]_vars
    PROVE  RoutingTyped'
  BY LanesKept, TablesKept, ProxyKept, FaultsKept, TypedByParts
     DEF RoutingTyped, TypeOK, LanesTyped, TablesTyped, ProxyTyped, FaultsTyped

\* Tables, release layout, service and locals hold values of their kind, for any
\* number of processes and of handlers in flight, whatever fails or crashes
\* (domain.go, hpx.go).
THEOREM RoutingTypes == Spec => []TypeOK
  <1>1. Init => RoutingTyped BY RoutingInitially
  <1>2. RoutingTyped /\ [Next]_vars => RoutingTyped' BY RoutingTypedKept
  <1>3. RoutingTyped => TypeOK BY DEF RoutingTyped
  <1> QED BY <1>1, <1>2, <1>3, PTL DEF Spec

-----------------------------------------------------------------------------
(* One handler at a time *)

OneAtATime == MaxBusy = 1 /\ IsFiniteSet(Procs)

Quiet == \A l \in Lanes : pc[l] = "idle"
LaneAlone(l) == \A m \in Lanes : m # l => pc[m] = "idle"

LEMMA FreeIsQuiet ==
    ASSUME OneAtATime, NEW l \in Lanes, NEW mutex, Free(l, mutex)
    PROVE  Quiet
  <1>1. IsFiniteSet({"domainMu", "opMu"})
    <2>1. IsFiniteSet({"domainMu"}) BY FS_Singleton
    <2>2. IsFiniteSet({"domainMu"} \cup {"opMu"}) BY <2>1, FS_AddElement
    <2> QED BY <2>2
  <1>2. IsFiniteSet(Lanes) BY <1>1, FS_Product DEF OneAtATime, Lanes
  <1>3. IsFiniteSet(Busy) BY <1>2, FS_Subset DEF Busy
  <1>4. Cardinality(Busy) \in Nat /\ Cardinality(Busy) < 1 BY <1>3, FS_CardinalityType DEF Free, OneAtATime
  <1>5. Cardinality(Busy) = 0 BY <1>4
  <1>6. Busy = {} BY <1>3, <1>5, FS_EmptySet
  <1> QED BY <1>6 DEF Busy, Quiet

\* A step of a lane: what it is about, and that no other lane is busy.
LaneStep(l) ==
    \/ Lookups(l) \/ Edited(l) \/ Published(l) \/ ListAllDomains(l) \/ SwitchService(l)
    \/ ReloadProxy(l) \/ Done(l) \/ DropAccount(l)

LEMMA LookupsBegin ==
    ASSUME OneAtATime, NEW l \in Lanes, Lookups(l)
    PROVE  Quiet
  <1>1. Free(l, "domainMu") \/ Free(l, "opMu")
    BY DEF Lookups, AddDomainLookup, DelDomainLookup, SetDomainProtocolLookup, SyncAllDomains, DelLookup, ApplyHaproxyState
  <1> QED BY <1>1, FreeIsQuiet

LEMMA LaneIsAlone ==
    ASSUME OneAtATime, RoutingTyped, Alone, NEW l \in Lanes, LaneStep(l)
    PROVE  LaneAlone(l) /\ LaneAlone(l)' /\ Alone'
  <1>1. ASSUME Lookups(l) PROVE LaneAlone(l) BY <1>1, LookupsBegin DEF LaneAlone, Quiet
  <1>2. ASSUME ~Lookups(l) PROVE LaneAlone(l)
    <2>1. pc[l] # "idle"
      BY <1>2 DEF LaneStep, Edited, Published, ListAllDomains, SwitchService, ReloadProxy, Done, DropAccount,
                  AddDomainInsert, DelDomainDelete, SetDomainProtocolUpdate, DelRows, Undo,
                  OpenRelease, WriteRelease, SwitchCurrent, CheckRelease, RecordGeneration
    <2> QED BY <2>1 DEF Alone, LaneAlone
  <1>3. LaneAlone(l) BY <1>1, <1>2
  <1>4. \A m \in Lanes : m # l => pc'[m] = pc[m]
    <2>1. ASSUME NEW p, NEW c, Enter(l, p, c) PROVE \A m \in Lanes : m # l => pc'[m] = pc[m]
      BY <2>1 DEF Enter, RoutingTyped, TypeOK
    <2>2. ASSUME NEW p, Goto(l, p) PROVE \A m \in Lanes : m # l => pc'[m] = pc[m]
      BY <2>2 DEF Goto, RoutingTyped, TypeOK
    <2>3. Return(l) => \A m \in Lanes : m # l => pc'[m] = pc[m] BY <2>1 DEF Return
    <2>4. CASE Lookups(l)
      BY <2>1, <2>4 DEF Lookups, AddDomainLookup, DelDomainLookup, SetDomainProtocolLookup, SyncAllDomains,
                        DelLookup, ApplyHaproxyState
    <2>5. CASE Edited(l)
      BY <2>1, <2>2, <2>3, <2>5 DEF Edited, AddDomainInsert, DelDomainDelete, SetDomainProtocolUpdate, DelRows, Undo
    <2>6. CASE Published(l)
      BY <2>1, <2>2, <2>3, <2>6 DEF Published, OpenRelease, WriteRelease, SwitchCurrent, CheckRelease, RecordGeneration
    <2>7. CASE ListAllDomains(l) \/ SwitchService(l) \/ ReloadProxy(l) \/ Done(l) \/ DropAccount(l)
      BY <2>1, <2>2, <2>3, <2>7 DEF ListAllDomains, SwitchService, ReloadProxy, Done, DropAccount
    <2> QED BY <2>4, <2>5, <2>6, <2>7 DEF LaneStep
  <1>5. LaneAlone(l)' BY <1>3, <1>4 DEF LaneAlone
  <1> QED BY <1>3, <1>5 DEF LaneAlone, Alone

LEMMA AloneKept ==
    ASSUME OneAtATime, RoutingTyped, Alone, [Next]_vars
    PROVE  Alone'
  <1>1. ASSUME NEW l \in Lanes, LaneStep(l) PROVE Alone' BY <1>1, LaneIsAlone
  <1>2. CASE CreateAccount \/ RestartService BY <1>2 DEF CreateAccount, RestartService, Alone
  <1>3. ASSUME NEW p \in Procs, Crash(p) PROVE Alone' BY <1>3 DEF Crash, Alone
  <1>4. CASE UNCHANGED vars BY <1>4 DEF vars, Alone
  <1> QED BY NextIs, <1>1, <1>2, <1>3, <1>4 DEF LaneStep

-----------------------------------------------------------------------------
(* What a handler knows of the tables *)

\* A publication goes on with the same tables.
LEMMA RowsCarried ==
    ASSUME NEW l \in Lanes, RowsKnown(pc[l], ctx[l]), UNCHANGED <<acct, dom>>, SameCall(ctx'[l], ctx[l]),
           pc[l] \in After, pc'[l] \in After
    PROVE  RowsKnown(pc[l], ctx[l])'
  <1>1. /\ ctx'[l].op = ctx[l].op /\ ctx'[l].acct = ctx[l].acct /\ ctx'[l].dom = ctx[l].dom
        /\ ctx'[l].pp = ctx[l].pp /\ ctx'[l].had = ctx[l].had
    BY DEF SameCall
  <1>2. \A a : Owned(a)' = Owned(a) BY DEF Owned, OwnedBy
  <1>3. pc'[l] \notin {"insert", "delete", "update", "rows", "drop"} BY DEF After, Publishing
  <1> QED BY <1>1, <1>2, <1>3 DEF RowsKnown

LEMMA IdleKnows ==
    ASSUME NEW l \in Lanes, pc[l] = "idle"
    PROVE  RowsKnown(pc[l], ctx[l]) /\ ReleaseKnown(pc[l], ctx[l])
  BY DEF RowsKnown, ReleaseKnown, After, Publishing

LEMMA LaneEnters ==
    ASSUME RoutingTyped, NEW l \in Lanes, NEW p, NEW c, Enter(l, p, c)
    PROVE  pc'[l] = p /\ ctx'[l] = c
  BY DEF RoutingTyped, TypeOK, Enter

LEMMA LaneGoesTo ==
    ASSUME RoutingTyped, NEW l \in Lanes, NEW p, Goto(l, p)
    PROVE  pc'[l] = p /\ ctx'[l] = ctx[l] /\ SameCall(ctx'[l], ctx[l])
  BY DEF RoutingTyped, TypeOK, Goto, SameCall

LEMMA LaneReturns ==
    ASSUME RoutingTyped, NEW l \in Lanes, Return(l)
    PROVE  pc'[l] = "idle" /\ ctx'[l] = NoCtx
  BY LaneEnters DEF Return

\* What a step of a publication does to the lane.
LEMMA PublicationGoes ==
    ASSUME RoutingTyped, NEW l \in Lanes, Published(l) \/ ListAllDomains(l) \/ ReloadProxy(l)
    PROVE  /\ UNCHANGED <<acct, dom, fresh>> /\ pc[l] \in After /\ pc'[l] \in After
           /\ SameCall(ctx'[l], ctx[l])
  <1>k. ctx[l] \in CtxStates /\ CtxKnows(pc[l], ctx[l]) BY DEF RoutingTyped
  <1>1. CASE ListAllDomains(l)
    <2>1. UNCHANGED <<acct, dom, fresh>> /\ pc[l] = "list" BY <1>1 DEF ListAllDomains, tables
    <2>2. DbRoutes \in Routing BY DbRoutesTyped
    <2>3. CASE Enter(l, "open", [ctx[l] EXCEPT !.routes = DbRoutes])
      <3>1. SameCall([ctx[l] EXCEPT !.routes = DbRoutes], ctx[l])
        <4> HIDE DEF DbRoutes
        <4> QED BY <1>k, <2>2, LearnsRoutes
      <3> QED BY <2>1, <2>3, <3>1, LaneEnters DEF After, Publishing
    <2>4. CASE Goto(l, "undo") BY <2>1, <2>4, LaneGoesTo DEF After, Publishing
    <2> QED BY <1>1, <2>3, <2>4 DEF ListAllDomains
  <1>2. CASE OpenRelease(l)
    <2> DEFINE g == NextGeneration
    <2>1. UNCHANGED <<acct, dom, fresh>> /\ pc[l] = "open" /\ g \in Gens
      BY <1>2, GensAre DEF OpenRelease, tables, NextGeneration, RoutingTyped, TypeOK
    <2>3. CASE Enter(l, "write", [ctx[l] EXCEPT !.gen = g])
      <3>1. SameCall([ctx[l] EXCEPT !.gen = g], ctx[l])
        <4> HIDE DEF g
        <4> QED BY <1>k, <2>1, LearnsGen
      <3> QED BY <2>1, <2>3, <3>1, LaneEnters DEF After, Publishing
    <2>4. CASE Goto(l, "undo") BY <2>1, <2>4, LaneGoesTo DEF After, Publishing
    <2> QED BY <1>2, <2>3, <2>4 DEF OpenRelease
  <1>3. CASE SwitchCurrent(l)
    <2>1. UNCHANGED <<acct, dom, fresh>> /\ pc[l] = "switch" /\ current \in Gens \cup {None}
      BY <1>3 DEF SwitchCurrent, tables, RoutingTyped, TypeOK
    <2>3. CASE Enter(l, "check", [ctx[l] EXCEPT !.prev = current])
      <3>1. SameCall([ctx[l] EXCEPT !.prev = current], ctx[l]) BY <1>k, <2>1, LearnsPrev
      <3> QED BY <2>1, <2>3, <3>1, LaneEnters DEF After, Publishing
    <2>4. CASE Goto(l, "undo") BY <2>1, <2>4, LaneGoesTo DEF After, Publishing
    <2> QED BY <1>3, <2>3, <2>4 DEF SwitchCurrent
  <1>4. CASE WriteRelease(l)
    BY <1>4, LaneGoesTo DEF WriteRelease, tables, After, Publishing
  <1>5. CASE CheckRelease(l)
    BY <1>5, LaneGoesTo DEF CheckRelease, tables, After, Publishing
  <1>6. CASE RecordGeneration(l)
    BY <1>6, LaneGoesTo DEF RecordGeneration, tables, After, Publishing
  <1>7. CASE ReloadProxy(l)
    BY <1>7, LaneGoesTo DEF ReloadProxy, tables, After, Publishing
  <1> QED BY <1>1, <1>2, <1>3, <1>4, <1>5, <1>6, <1>7 DEF Published

LEMMA RowsLookedUp ==
    ASSUME RoutingTyped, NEW l \in Lanes, Lookups(l)
    PROVE  RowsKnown(pc[l], ctx[l])'
  <1>i. pc'[l] \in {"idle", "service"} => RowsKnown(pc[l], ctx[l])' BY DEF RowsKnown, After, Publishing
  <1>t. TablesTyped BY TypedByParts
  <1>u. UNCHANGED <<acct, dom>>
    BY DEF Lookups, AddDomainLookup, DelDomainLookup, SetDomainProtocolLookup, SyncAllDomains, DelLookup,
           ApplyHaproxyState, tables
  <1>r. \A a \in Accounts, d \in Domains : OwnedBy(a, d) => dom[d] = [owner |-> a, pp |-> dom[d].pp] /\ dom[d].pp \in BOOLEAN
    BY <1>t DEF TablesTyped, OwnedBy, Row
  <1>1. CASE AddDomainLookup(l)
    <2>1. PICK a \in Accounts, d \in Domains, pp \in BOOLEAN :
              acct[a] # None /\ dom[d] = None /\ Enter(l, "insert", NewCall("add", a, d, pp))
      BY <1>1 DEF AddDomainLookup, NewCall
    <2> DEFINE c == NewCall("add", a, d, pp)
    <2>2. c.acct = a /\ c.dom = d BY NewCallIs DEF Ops
    <2>3. pc'[l] = "insert" /\ ctx'[l] = c BY <2>1, LaneEnters
    <2> HIDE DEF c
    <2> QED BY <1>u, <2>1, <2>2, <2>3 DEF RowsKnown, After, Publishing
  <1>2. CASE DelDomainLookup(l) \/ SetDomainProtocolLookup(l)
    <2>1. PICK p \in {"delete", "update"}, op \in Edits, a \in Accounts, d \in Domains :
              OwnedBy(a, d) /\ Enter(l, p, NewCall(op, a, d, dom[d].pp))
      BY <1>2 DEF DelDomainLookup, SetDomainProtocolLookup, Edits, NewCall
    <2> DEFINE c == NewCall(op, a, d, dom[d].pp)
    <2>2. op \in Ops /\ dom[d].pp \in BOOLEAN /\ dom[d] = [owner |-> a, pp |-> dom[d].pp] BY <1>r, <2>1 DEF Edits, Ops
    <2>3. c.acct = a /\ c.dom = d /\ c.pp = dom[d].pp BY <2>2, NewCallIs
    <2>4. pc'[l] = p /\ ctx'[l] = c BY <2>1, LaneEnters
    <2> HIDE DEF c
    <2>5. dom'[ctx'[l].dom] = [owner |-> ctx'[l].acct, pp |-> ctx'[l].pp] BY <1>u, <2>2, <2>3, <2>4
    <2> QED BY <2>4, <2>5 DEF RowsKnown, After, Publishing
  <1>3. CASE SyncAllDomains(l)
    <2> DEFINE c == [NoCtx EXCEPT !.op = "sync"]
    <2>1. pc'[l] = "list" /\ ctx'[l] = c BY <1>3, LaneEnters DEF SyncAllDomains
    <2>2. c.op = "sync" /\ ~c.had BY NewSync
    <2> HIDE DEF c
    <2> QED BY <2>1, <2>2 DEF RowsKnown, After, Publishing
  <1>4. CASE ApplyHaproxyState(l)
    <2>1. \/ \E on \in BOOLEAN : Enter(l, "service", [NoCtx EXCEPT !.op = "sync", !.pp = on])
          \/ UNCHANGED pc /\ pc[l] = "idle"
      BY <1>4 DEF ApplyHaproxyState, Free
    <2> QED BY <1>i, <2>1, LaneEnters
  <1>5. CASE DelLookup(l)
    <2>1. PICK a \in Accounts :
             \/ Enter(l, "drop", NewDel(a)) /\ (Owned(a) = {} \/ "db" \in faulted')
             \/ Enter(l, "rows", NewWithdraw(a, Owned(a)))
      BY <1>5 DEF DelLookup, NewDel, NewWithdraw, Fails
    <2> DEFINE c == NewDel(a)
               todo == Owned(a)
               e == NewWithdraw(a, todo)
    <2>2. todo \in SUBSET Domains /\ todo' = todo BY <1>u DEF Owned, OwnedBy
    <2>3. /\ c \in CtxStates /\ c.op = "userdel" /\ c.acct = a /\ ~c.had
          /\ e \in CtxStates /\ e.op = "userdel" /\ e.acct = a /\ e.todo = todo /\ e.had
      <3> HIDE DEF todo
      <3> QED BY <2>2, NewDelIs
    <2>4. CASE Enter(l, "drop", c) /\ (todo = {} \/ "db" \in faulted')
      <3>1. pc'[l] = "drop" /\ ctx'[l] = c BY <2>4, LaneEnters
      <3>2. todo = {} => Owned(a)' = {} BY <2>2
      <3> HIDE DEF c
      <3> QED BY <2>3, <2>4, <3>1, <3>2 DEF RowsKnown, After, Publishing
    <2>5. CASE Enter(l, "rows", e)
      <3>1. pc'[l] = "rows" /\ ctx'[l] = e BY <2>5, LaneEnters
      <3>2. Owned(a)' = todo BY <2>2
      <3> HIDE DEF e, todo
      <3> QED BY <2>3, <3>1, <3>2 DEF RowsKnown, After, Publishing
    <2> QED BY <2>1, <2>4, <2>5
  <1> QED BY <1>1, <1>2, <1>3, <1>4, <1>5 DEF Lookups

LEMMA RowsEdited ==
    ASSUME RoutingTyped, NEW l \in Lanes, RowsKnown(pc[l], ctx[l]), Edited(l)
    PROVE  RowsKnown(pc[l], ctx[l])'
  <1> DEFINE c == ctx[l]
  <1>t. TablesTyped /\ c \in CtxStates /\ CtxKnows(pc[l], c) BY TypedByParts DEF LanesTyped
  <1>i. pc'[l] = "idle" => RowsKnown(pc[l], ctx[l])' BY DEF RowsKnown, After, Publishing
  <1>r. Return(l) => RowsKnown(pc[l], ctx[l])' BY <1>i, LaneReturns
  <1>a. UNCHANGED acct BY DEF Edited, AddDomainInsert, DelDomainDelete, SetDomainProtocolUpdate, DelRows, Undo
  <1>w. ASSUME NEW row, NEW d \in Domains, SetRow(d, row) PROVE dom'[d] = row
    BY <1>t, <1>w DEF SetRow, TablesTyped
  <1>1. CASE AddDomainInsert(l)
    <2>1. c.op = "add" /\ ~c.had /\ c.dom \in Domains BY <1>1, <1>t DEF AddDomainInsert, CtxKnows, Edits
    <2>2. CASE SetRow(c.dom, [owner |-> c.acct, pp |-> c.pp]) /\ Goto(l, "list")
      <3>1. dom'[c.dom] = [owner |-> c.acct, pp |-> c.pp] BY <1>w, <2>1, <2>2
      <3>2. pc'[l] = "list" /\ ctx'[l] = c BY <2>2, LaneGoesTo
      <3> QED BY <2>1, <3>1, <3>2 DEF RowsKnown, After, Publishing
    <2> QED BY <1>1, <1>r, <2>2 DEF AddDomainInsert
  <1>2. CASE DelDomainDelete(l)
    <2>1. c.op = "del" /\ ~c.had /\ c.dom \in Domains BY <1>2, <1>t DEF DelDomainDelete, CtxKnows, Edits
    <2>2. CASE OwnedBy(c.acct, c.dom) /\ SetRow(c.dom, None) /\ Goto(l, "list")
      <3>1. dom'[c.dom] = None BY <1>w, <2>1, <2>2
      <3>2. acct'[c.acct] # None BY <1>a, <1>t, <2>1, <2>2 DEF OwnedBy, TablesTyped
      <3>3. pc'[l] = "list" /\ ctx'[l] = c BY <2>2, LaneGoesTo
      <3> QED BY <2>1, <3>1, <3>2, <3>3 DEF RowsKnown, After, Publishing
    <2> QED BY <1>2, <1>r, <2>2 DEF DelDomainDelete
  <1>3. CASE SetDomainProtocolUpdate(l)
    <2>1. /\ c.op = "set" /\ ~c.had /\ c.dom \in Domains /\ c.acct \in Accounts /\ (~c.pp) \in BOOLEAN
          /\ dom[c.dom] = [owner |-> c.acct, pp |-> c.pp]
      BY <1>3, <1>t DEF SetDomainProtocolUpdate, CtxKnows, Edits, RowsKnown
    <2>2. CASE dom' = SetFlag(c, ~c.pp) /\ Goto(l, "list")
      <3>0. OwnedBy(c.acct, c.dom)
        <4> DEFINE row == [owner |-> c.acct, pp |-> c.pp]
        <4>1. c.pp \in BOOLEAN BY <1>t DEF CtxStates
        <4>2. row.owner = c.acct /\ row # None /\ dom[c.dom] = row BY <2>1, <4>1, RowIs
        <4> HIDE DEF row
        <4> QED BY <4>2 DEF OwnedBy
      <3>1. dom' = [dom EXCEPT ![c.dom] = [owner |-> c.acct, pp |-> ~c.pp]] BY <1>t, <2>1, <2>2, <3>0, FlagSet
      <3>2. dom'[c.dom] = [owner |-> c.acct, pp |-> ~c.pp] BY <1>t, <2>1, <3>1 DEF TablesTyped
      <3>3. pc'[l] = "list" /\ ctx'[l] = c BY <2>2, LaneGoesTo
      <3> QED BY <2>1, <3>2, <3>3 DEF RowsKnown, After, Publishing
    <2> QED BY <1>3, <1>r, <2>2 DEF SetDomainProtocolUpdate
  <1>4. CASE DelRows(l)
    <2>1. c.op = "userdel" /\ c.had /\ c.todo = Owned(c.acct) BY <1>4, <1>t DEF DelRows, CtxKnows, RowsKnown
    <2>2. CASE c.todo = {} /\ Goto(l, "list") /\ UNCHANGED dom
      <3>1. Owned(c.acct)' = {}
        <4>1. \A a : Owned(a)' = Owned(a) BY <2>2 DEF Owned, OwnedBy
        <4>2. c' = c BY <2>2 DEF Goto
        <4> QED BY <2>1, <2>2, <4>1, <4>2
      <3>2. pc'[l] = "list" /\ ctx'[l] = c BY <2>2, LaneGoesTo
      <3> QED BY <2>1, <3>1, <3>2 DEF RowsKnown, After, Publishing
    <2>3. ASSUME NEW d \in c.todo, SetRow(d, None), Enter(l, "rows", [c EXCEPT !.todo = @ \ {d}])
          PROVE  RowsKnown(pc[l], ctx[l])'
      <3> DEFINE todo == c.todo \ {d}
                 e == [c EXCEPT !.todo = todo]
      <3>1. todo \in SUBSET Domains BY <1>t DEF CtxStates
      <3>2. SameCall(e, c) /\ e.todo = todo
        <4> HIDE DEF todo, c
        <4> QED BY <1>t, <3>1, LearnsTodo
      <3>3. pc'[l] = "rows" /\ ctx'[l] = e BY <2>3, LaneEnters
      <3>4. \A a : Owned(a)' = Owned(a) \ {d}
        <4>1. \A x \in Domains : dom'[x] = IF x = d THEN None ELSE dom[x] BY <1>t, <2>3 DEF SetRow, TablesTyped
        <4> QED BY <4>1 DEF Owned, OwnedBy
      <3>5. todo = Owned(c.acct) \ {d} BY <2>1
      <3> HIDE DEF e, todo
      <3>6. ctx'[l].had /\ ctx'[l].todo = todo /\ ctx'[l].acct = c.acct BY <2>1, <3>2, <3>3 DEF SameCall
      <3>7. ctx'[l].todo = Owned(ctx[l].acct)'
        <4>1. \A a : a = c.acct => Owned(a)' = todo BY <3>4, <3>5
        <4> QED BY <3>6, <4>1 DEF Owned, OwnedBy
      <3> QED BY <3>3, <3>6, <3>7 DEF RowsKnown, After, Publishing
    <2> QED BY <1>4, <1>r, <2>2, <2>3 DEF DelRows
  <1>5. CASE Undo(l) BY <1>5, <1>r DEF Undo
  <1> QED BY <1>1, <1>2, <1>3, <1>4, <1>5 DEF Edited

LEMMA RowsOtherwise ==
    ASSUME RoutingTyped, NEW l \in Lanes, RowsKnown(pc[l], ctx[l]), SwitchService(l) \/ Done(l) \/ DropAccount(l)
    PROVE  RowsKnown(pc[l], ctx[l])'
  <1> DEFINE c == ctx[l]
  <1>t. CtxKnows(pc[l], c) BY DEF RoutingTyped
  <1>i. pc'[l] = "idle" => RowsKnown(pc[l], ctx[l])' BY DEF RowsKnown, After, Publishing
  <1>r. Return(l) => RowsKnown(pc[l], ctx[l])' BY <1>i, LaneReturns
  <1>1. CASE SwitchService(l)
    <2>1. c.op = "sync" /\ ~c.had BY <1>1, <1>t DEF SwitchService, CtxKnows
    <2>2. ASSUME Goto(l, "list") PROVE RowsKnown(pc[l], ctx[l])'
      <3>1. pc'[l] = "list" /\ ctx'[l] = c BY <2>2, LaneGoesTo
      <3> QED BY <2>1, <3>1 DEF RowsKnown, After, Publishing
    <2> QED BY <1>1, <1>r, <2>2 DEF SwitchService
  <1>2. CASE Done(l)
    <2>1. ASSUME c.op = "userdel", Goto(l, "drop") PROVE RowsKnown(pc[l], ctx[l])'
      <3>1. pc'[l] = "drop" /\ ctx'[l] = c BY <2>1, LaneGoesTo
      <3>2. c.had /\ Owned(c.acct) = {} BY <1>2, <2>1 DEF Done, RowsKnown, After, Publishing
      <3>3. \A a : Owned(a)' = Owned(a) BY <1>2 DEF Done, tables, Owned, OwnedBy
      <3>4. Owned(ctx[l].acct)' = {} BY <3>1, <3>2, <3>3 DEF Owned, OwnedBy
      <3> QED BY <3>1, <3>2, <3>4 DEF RowsKnown, After, Publishing
    <2> QED BY <1>2, <1>r, <2>1 DEF Done
  <1>3. CASE DropAccount(l) BY <1>3, <1>r DEF DropAccount
  <1> QED BY <1>1, <1>2, <1>3

LEMMA RowsKept ==
    ASSUME RoutingTyped, NEW l \in Lanes, RowsKnown(pc[l], ctx[l]), LaneStep(l)
    PROVE  RowsKnown(pc[l], ctx[l])'
  <1>1. ASSUME Published(l) \/ ListAllDomains(l) \/ ReloadProxy(l) PROVE RowsKnown(pc[l], ctx[l])'
    <2>1. /\ UNCHANGED <<acct, dom>> /\ SameCall(ctx'[l], ctx[l])
          /\ pc[l] \in After /\ pc'[l] \in After
      BY <1>1, PublicationGoes
    <2> QED BY <2>1, RowsCarried
  <1> QED BY <1>1, RowsLookedUp, RowsEdited, RowsOtherwise DEF LaneStep

\* The accounts come and go around the rows.
LEMMA AccountsCome ==
    ASSUME RoutingTyped, CreateAccount
    PROVE  /\ \A b \in Accounts : acct[b] # None => acct'[b] = acct[b]
           /\ UNCHANGED <<dom, layout, loaded, enabled, pc, ctx, faulted>>
  <1>1. PICK a \in fresh, i \in Ips : acct' = [acct EXCEPT ![a] = i] BY DEF CreateAccount
  <1>2. acct[a] = None BY DEF RoutingTyped
  <1>3. \A b \in Accounts : b # a => acct'[b] = acct[b] BY <1>1 DEF RoutingTyped, TypeOK
  <1> QED BY <1>2, <1>3 DEF CreateAccount

LEMMA RowsStay ==
    ASSUME RoutingTyped, NEW l \in Lanes, RowsKnown(pc[l], ctx[l]),
           CreateAccount \/ RestartService \/ UNCHANGED vars
    PROVE  RowsKnown(pc[l], ctx[l])'
  <1>1. /\ UNCHANGED <<dom, pc, ctx, faulted>>
        /\ \A b \in Accounts : acct[b] # None => acct'[b] = acct[b]
    BY AccountsCome DEF RestartService, tables, vars
  <1>2. \A a : Owned(a)' = Owned(a) BY <1>1 DEF Owned, OwnedBy
  <1>3. pc'[l] = pc[l] /\ ctx'[l] = ctx[l] BY <1>1
  <1>4. Owned(ctx[l].acct)' = Owned(ctx[l].acct) BY <1>1, <1>2
  <1>5. CASE pc[l] = "insert" \/ (pc[l] \in After /\ ctx[l].op = "del")
    <2>1. ctx[l].acct \in Accounts BY <1>5 DEF RoutingTyped, CtxKnows, Edits
    <2>2. acct'[ctx[l].acct] # None BY <1>1, <1>5, <2>1 DEF RowsKnown
    <2> QED BY <1>1, <1>3, <1>4, <2>2 DEF RowsKnown
  <1>6. CASE ~(pc[l] = "insert" \/ (pc[l] \in After /\ ctx[l].op = "del"))
    BY <1>1, <1>3, <1>4, <1>6 DEF RowsKnown
  <1> QED BY <1>5, <1>6

-----------------------------------------------------------------------------
(* What the database stands for, and what a handler knows of its release *)

LEMMA DbRoutesAre == DbRoutes = RoutesOf(dom)
  BY DEF DbRoutes, RoutesOf

LEMMA DbRoutesSame ==
    ASSUME UNCHANGED dom, \A d \in Domains : dom[d] # None => acct'[dom[d].owner] = acct[dom[d].owner]
    PROVE  DbRoutes' = DbRoutes
  <1>1. \A d \in Domains : dom'[d] = dom[d] OBVIOUS
  <1> QED BY <1>1 DEF DbRoutes

LEMMA DbRoutesStay ==
    ASSUME RoutingTyped, CreateAccount \/ RestartService \/ UNCHANGED vars
    PROVE  DbRoutes' = DbRoutes
  <1>1. /\ UNCHANGED dom
        /\ \A b \in Accounts : acct[b] # None => acct'[b] = acct[b]
    BY AccountsCome DEF RestartService, tables, vars
  <1>2. \A d \in Domains : dom[d] # None => dom[d].owner \in Accounts /\ acct[dom[d].owner] # None
    BY DEF RoutingTyped, TypeOK, Row
  <1> QED BY <1>1, <1>2, DbRoutesSame

\* Only a publication gives a handler something to know of a release.
LEMMA ReleaseLookedUp ==
    ASSUME RoutingTyped, NEW l \in Lanes, Lookups(l) \/ Edited(l) \/ SwitchService(l) \/ DropAccount(l)
    PROVE  ReleaseKnown(pc[l], ctx[l])'
  <1>i. pc'[l] \notin {"open", "write", "switch", "check", "record", "reload", "done", "drop"}
        => ReleaseKnown(pc[l], ctx[l])'
    BY DEF ReleaseKnown
  <1>1. CASE AddDomainLookup(l) \/ DelDomainLookup(l) \/ SetDomainProtocolLookup(l) \/ SyncAllDomains(l)
    <2>1. ASSUME NEW p \in {"insert", "delete", "update", "list"}, NEW c, Enter(l, p, c)
          PROVE  ReleaseKnown(pc[l], ctx[l])'
      BY <1>i, <2>1, LaneEnters
    <2> QED BY <1>1, <2>1 DEF AddDomainLookup, DelDomainLookup, SetDomainProtocolLookup, SyncAllDomains
  <1>2. CASE ApplyHaproxyState(l)
    BY <1>2, <1>i, LaneEnters DEF ApplyHaproxyState, Free
  <1>3. CASE DelLookup(l)
    <2>1. PICK a \in Accounts : Enter(l, "drop", NewDel(a)) \/ Enter(l, "rows", NewWithdraw(a, Owned(a)))
      BY <1>3 DEF DelLookup, NewDel, NewWithdraw
    <2>2. CASE Enter(l, "drop", NewDel(a))
      <3>1. pc'[l] = "drop" /\ ctx'[l] = NewDel(a) BY <2>2, LaneEnters
      <3>2. ~NewDel(a).had BY NewDelIs
      <3> QED BY <3>1, <3>2 DEF ReleaseKnown
    <2> QED BY <1>i, <2>1, <2>2, LaneEnters
  <1>4. CASE Edited(l) \/ SwitchService(l) \/ DropAccount(l)
    <2>1. \/ Goto(l, "list") \/ Return(l) \/ \E c : Enter(l, "rows", c)
      BY <1>4 DEF Edited, AddDomainInsert, DelDomainDelete, SetDomainProtocolUpdate, DelRows, Undo, SwitchService, DropAccount
    <2> QED BY <1>i, <2>1, LaneEnters, LaneGoesTo, LaneReturns
  <1> QED BY <1>1, <1>2, <1>3, <1>4 DEF Lookups

\* One release of the layout is written.
LEMMA OneRelease ==
    ASSUME ProxyTyped, NEW g \in Gens, NEW r, releases' = [releases EXCEPT ![g] = r]
    PROVE  releases'[g] = r /\ \A h \in Gens : h # g => releases'[h] = releases[h]
  BY DEF ProxyTyped

LEMMA RoutingIsNot == None \notin Routing /\ Bad \notin Routing /\ Down \notin Routing
  BY MarksAssumption

LEMMA ReleasePublished ==
    ASSUME RoutingTyped, FaultsTyped, faulted \subseteq faulted', NEW l \in Lanes, RowsKnown(pc[l], ctx[l]),
           ReleaseKnown(pc[l], ctx[l]),
           Published(l) \/ ListAllDomains(l) \/ ReloadProxy(l) \/ Done(l)
    PROVE  ReleaseKnown(pc[l], ctx[l])'
  <1> DEFINE c == ctx[l]
             D == DbRoutes
  <1>t. /\ TablesTyped /\ ProxyTyped /\ c \in CtxStates /\ CtxKnows(pc[l], c)
    BY TypedByParts DEF LanesTyped
  <1>d. DbRoutes' = D BY DEF Published, ListAllDomains, ReloadProxy, Done, OpenRelease, WriteRelease, SwitchCurrent,
                             CheckRelease, RecordGeneration, tables, DbRoutes
  <1>r. D \in Routing BY DbRoutesTyped
  <1>n. D # None /\ D # Bad /\ D # Down BY <1>r, RoutingIsNot
  <1>i. pc'[l] \in {"idle", "undo"} => ReleaseKnown(pc[l], ctx[l])' BY DEF ReleaseKnown
  <1>u. ASSUME Goto(l, "undo") PROVE ReleaseKnown(pc[l], ctx[l])' BY <1>i, <1>u, LaneGoesTo
  <1>1. CASE ListAllDomains(l)
    <2>1. ASSUME Enter(l, "open", [c EXCEPT !.routes = D]) PROVE ReleaseKnown(pc[l], ctx[l])'
      <3> DEFINE e == [c EXCEPT !.routes = D]
      <3>1. e.routes = D
        <4> HIDE DEF c, D
        <4> QED BY <1>t, <1>r, LearnsRoutes
      <3>2. pc'[l] = "open" /\ ctx'[l] = e BY <2>1, LaneEnters
      <3> HIDE DEF e, D
      <3> QED BY <1>d, <3>1, <3>2 DEF ReleaseKnown
    <2> QED BY <1>1, <1>u, <2>1 DEF ListAllDomains
  <1>2. CASE OpenRelease(l)
    <2> DEFINE g == NextGeneration
    <2>0. g \in Gens /\ pc[l] = "open" BY <1>2, <1>t, GensAre DEF OpenRelease, NextGeneration, ProxyTyped
    <2>1. ASSUME releases' = [releases EXCEPT ![g] = Bad], Enter(l, "write", [c EXCEPT !.gen = g])
          PROVE  ReleaseKnown(pc[l], ctx[l])'
      <3> DEFINE e == [c EXCEPT !.gen = g]
      <3>1. e.routes = c.routes /\ e.gen = g
        <4> HIDE DEF c, g
        <4> QED BY <1>t, <2>0, LearnsGen
      <3>2. pc'[l] = "write" /\ ctx'[l] = e BY <2>1, LaneEnters
      <3>3. c.routes = D BY <2>0 DEF ReleaseKnown
      <3>4. releases'[g] = Bad BY <1>t, <2>0, <2>1, OneRelease
      <3> HIDE DEF e, D, g
      <3> QED BY <1>d, <3>1, <3>2, <3>3, <3>4 DEF ReleaseKnown
    <2> QED BY <1>2, <1>u, <2>1 DEF OpenRelease
  <1>3. CASE WriteRelease(l)
    <2>0. c.gen \in Gens /\ c.routes = D BY <1>3, <1>t DEF WriteRelease, CtxKnows, ReleaseKnown
    <2>1. ASSUME Goto(l, "switch"),
                 \/ releases' = [releases EXCEPT ![c.gen] = c.routes]
                 \/ releases' = [releases EXCEPT ![c.gen] = Bad] /\ "check" \in faulted'
          PROVE  ReleaseKnown(pc[l], ctx[l])'
      <3>1. releases'[c.gen] = D \/ (releases'[c.gen] = Bad /\ "check" \in faulted')
        BY <1>t, <2>0, <2>1, OneRelease
      <3>2. pc'[l] = "switch" /\ ctx'[l] = c BY <2>1, LaneGoesTo
      <3> HIDE DEF D
      <3> QED BY <1>d, <3>1, <3>2 DEF ReleaseKnown
    <2> QED BY <1>3, <1>u, <2>1 DEF WriteRelease, Fails
  <1>4. CASE SwitchCurrent(l)
    <2>0. /\ releases[c.gen] = D \/ (releases[c.gen] = Bad /\ "check" \in faulted)
          /\ current \in Gens \cup {None}
      BY <1>4, <1>t DEF SwitchCurrent, ReleaseKnown, ProxyTyped
    <2>1. ASSUME current' = c.gen, UNCHANGED releases, Enter(l, "check", [c EXCEPT !.prev = current])
          PROVE  ReleaseKnown(pc[l], ctx[l])'
      <3> DEFINE e == [c EXCEPT !.prev = current]
      <3>1. e.gen = c.gen
        <4> HIDE DEF c
        <4> QED BY <1>t, <2>0, LearnsPrev
      <3>2. pc'[l] = "check" /\ ctx'[l] = e BY <2>1, LaneEnters
      <3> HIDE DEF e, D
      <3> QED BY <1>d, <2>0, <2>1, <3>1, <3>2 DEF ReleaseKnown
    <2> QED BY <1>4, <1>u, <2>1 DEF SwitchCurrent
  <1>5. CASE CheckRelease(l)
    <2>1. ASSUME releases[c.gen] \in Routing, Goto(l, "record"), UNCHANGED <<releases, current>>
          PROVE  ReleaseKnown(pc[l], ctx[l])'
      <3>1. releases[c.gen] = D /\ current = c.gen BY <1>5, <2>1, RoutingIsNot DEF CheckRelease, ReleaseKnown
      <3>2. pc'[l] = "record" /\ ctx'[l] = c BY <2>1, LaneGoesTo
      <3> HIDE DEF D
      <3> QED BY <1>d, <2>1, <3>1, <3>2 DEF ReleaseKnown
    <2> QED BY <1>5, <1>u, <2>1 DEF CheckRelease
  <1>6. CASE RecordGeneration(l)
    <2>0. /\ c.gen \in Gens /\ releases[c.gen] = D /\ current = c.gen /\ UNCHANGED current
      BY <1>6, <1>t DEF RecordGeneration, CtxKnows, ReleaseKnown
    <2>1. ASSUME releases' = [h \in Gens |-> IF h \in Kept(c.gen) THEN releases[h] ELSE None], Goto(l, "reload")
          PROVE  ReleaseKnown(pc[l], ctx[l])'
      <3>1. c.gen \in Kept(c.gen) BY <1>n, <2>0 DEF Kept
      <3>2. releases'[c.gen] = D BY <2>0, <2>1, <3>1
      <3>3. pc'[l] = "reload" /\ ctx'[l] = c BY <2>1, LaneGoesTo
      <3>4. c.gen # None BY <2>0, MarksAssumption
      <3> HIDE DEF D
      <3> QED BY <1>d, <2>0, <3>2, <3>3, <3>4 DEF ReleaseKnown
    <2> QED BY <1>6, <1>u, <2>1 DEF RecordGeneration
  <1>7. CASE ReloadProxy(l)
    <2>0. current # None /\ releases[current] = D /\ UNCHANGED <<current, releases>>
      BY <1>7 DEF ReloadProxy, ReleaseKnown, layout
    <2>1. ASSUME Goto(l, "done"), loaded' = (IF loaded = Down THEN Down ELSE Load(loaded)) \/ "probe" \in faulted'
          PROVE  ReleaseKnown(pc[l], ctx[l])'
      <3>1. Load(loaded) = D BY <1>r, <2>0 DEF Load, Loadable
      <3>2. "probe" \in faulted' \/ loaded' = Down \/ loaded' = D BY <2>1, <3>1
      <3>3. pc'[l] = "done" /\ ctx'[l] = c BY <2>1, LaneGoesTo
      <3> HIDE DEF D
      <3> QED BY <1>d, <2>0, <3>2, <3>3 DEF ReleaseKnown, Serves
    <2> QED BY <1>7, <1>u, <2>1 DEF ReloadProxy, Fails
  <1>8. CASE Done(l)
    <2>0. /\ current # None /\ releases[current] = D /\ ("probe" \in faulted \/ Serves(D))
          /\ UNCHANGED <<current, releases, loaded, faulted>>
      BY <1>8 DEF Done, ReleaseKnown, layout
    <2>1. ASSUME Goto(l, "drop") PROVE ReleaseKnown(pc[l], ctx[l])'
      <3>1. pc'[l] = "drop" /\ ctx'[l] = c BY <2>1, LaneGoesTo
      <3> HIDE DEF D
      <3> QED BY <1>d, <2>0, <3>1 DEF ReleaseKnown, Serves
    <2>2. ASSUME Return(l) PROVE ReleaseKnown(pc[l], ctx[l])' BY <1>i, <2>2, LaneReturns
    <2> QED BY <1>8, <2>1, <2>2 DEF Done
  <1> QED BY <1>1, <1>2, <1>3, <1>4, <1>5, <1>6, <1>7, <1>8 DEF Published

LEMMA ReleaseStays ==
    ASSUME RoutingTyped, NEW l \in Lanes, ReleaseKnown(pc[l], ctx[l]),
           CreateAccount \/ RestartService \/ UNCHANGED vars
    PROVE  ReleaseKnown(pc[l], ctx[l])'
  <1> DEFINE D == DbRoutes
  <1>1. DbRoutes' = D BY DbRoutesStay
  <1>2. D \in Routing BY DbRoutesTyped
  <1>3. UNCHANGED <<pc, ctx, releases, current, counter, faulted>>
    BY AccountsCome DEF RestartService, tables, layout, vars
  <1>4. pc'[l] = pc[l] /\ ctx'[l] = ctx[l] BY <1>3
  <1>5. UNCHANGED loaded \/ loaded' = Load(Down) BY AccountsCome DEF RestartService, vars
  <1>6. CASE UNCHANGED loaded
    <2> HIDE DEF D
    <2> QED BY <1>1, <1>3, <1>4, <1>6 DEF ReleaseKnown, Serves, D
  <1>7. CASE loaded' = Load(Down)
    <2>1. current # None /\ releases[current] = D => loaded' = D BY <1>2, <1>7 DEF Load, Loadable
    <2> QED BY <1>1, <1>3, <1>4, <2>1 DEF ReleaseKnown, Serves
  <1> QED BY <1>5, <1>6, <1>7

-----------------------------------------------------------------------------
(* The link and the counter *)

\* For the one lane that may be busy.
TidyAt(p, c) == Clean => counter \in Gens /\ releases[counter] \in Routing /\ LinkKnown(p, c)

LEMMA TidyHere ==
    ASSUME NEW l \in Lanes, LaneAlone(l), Tidy
    PROVE  TidyAt(pc[l], ctx[l])
  <1>1. CASE pc[l] = "idle" BY <1>1 DEF LaneAlone, Tidy, TidyAt, LinkKnown
  <1>2. CASE pc[l] # "idle" BY <1>2 DEF Tidy, TidyAt
  <1> QED BY <1>1, <1>2

LEMMA TidyThere ==
    ASSUME NEW l \in Lanes, LaneAlone(l)', TidyAt(pc[l], ctx[l])'
    PROVE  Tidy'
  <1>1. \A m \in Lanes : pc'[m] # "idle" => m = l BY DEF LaneAlone
  <1>2. pc'[l] = "idle" /\ Clean' => current' = counter' BY DEF TidyAt, LinkKnown
  <1> QED BY <1>1, <1>2 DEF Tidy, TidyAt

LEMMA StaysClean ==
    ASSUME faulted \subseteq faulted', Clean'
    PROVE  Clean
  BY DEF Clean

\* The steps that leave the layout alone.
LEMMA TidyAside ==
    ASSUME RoutingTyped, NEW l \in Lanes, faulted \subseteq faulted', TidyAt(pc[l], ctx[l]),
           Lookups(l) \/ Edited(l) \/ ListAllDomains(l) \/ SwitchService(l) \/ ReloadProxy(l) \/ Done(l) \/ DropAccount(l)
    PROVE  TidyAt(pc[l], ctx[l])'
  <1>1. UNCHANGED layout
    BY DEF Lookups, AddDomainLookup, DelDomainLookup, SetDomainProtocolLookup, SyncAllDomains, DelLookup,
           ApplyHaproxyState, Edited, AddDomainInsert, DelDomainDelete, SetDomainProtocolUpdate, DelRows, Undo,
           ListAllDomains, SwitchService, ReloadProxy, Done, DropAccount
  <1>2. pc[l] \notin {"check", "record"}
    BY DEF Lookups, AddDomainLookup, DelDomainLookup, SetDomainProtocolLookup, SyncAllDomains, DelLookup,
           ApplyHaproxyState, Edited, AddDomainInsert, DelDomainDelete, SetDomainProtocolUpdate, DelRows, Undo,
           ListAllDomains, SwitchService, ReloadProxy, Done, DropAccount, Free
  <1>3. pc'[l] \notin {"write", "switch", "check", "record"}
    <2> DEFINE Far == {"idle", "insert", "delete", "update", "service", "list", "rows", "drop", "open", "undo", "done"}
    <2>1. ASSUME NEW p \in Far, NEW c, Enter(l, p, c) PROVE pc'[l] \in Far BY <2>1, LaneEnters
    <2>2. ASSUME NEW p \in Far, Goto(l, p) PROVE pc'[l] \in Far BY <2>2, LaneGoesTo
    <2>3. Return(l) => pc'[l] \in Far BY LaneReturns
    <2>4. CASE Lookups(l)
      <3>1. \/ \E c : \E p \in Far : Enter(l, p, c)
            \/ UNCHANGED pc /\ pc[l] = "idle"
        BY <2>4 DEF Lookups, AddDomainLookup, DelDomainLookup, SetDomainProtocolLookup, SyncAllDomains, DelLookup,
                    ApplyHaproxyState, Free
      <3> QED BY <2>1, <3>1
    <2>5. CASE Edited(l)
      <3>1. \/ Goto(l, "list") \/ Return(l) \/ \E c : Enter(l, "rows", c)
        BY <2>5 DEF Edited, AddDomainInsert, DelDomainDelete, SetDomainProtocolUpdate, DelRows, Undo
      <3> QED BY <2>1, <2>2, <2>3, <3>1
    <2>6. CASE ListAllDomains(l) BY <2>1, <2>2, <2>6 DEF ListAllDomains
    <2>7. CASE SwitchService(l) \/ ReloadProxy(l) \/ Done(l) \/ DropAccount(l)
      BY <2>2, <2>3, <2>7 DEF SwitchService, ReloadProxy, Done, DropAccount
    <2> QED BY <2>4, <2>5, <2>6, <2>7
  <1> QED BY <1>1, <1>2, <1>3, StaysClean DEF TidyAt, LinkKnown, layout

\* Releases is unchanged but for one number.
Apart(g) == \A h \in Gens : h # g => releases'[h] = releases[h]

LEMMA TidyPublished ==
    ASSUME RoutingTyped, NEW l \in Lanes, faulted \subseteq faulted', TidyAt(pc[l], ctx[l]),
           ReleaseKnown(pc[l], ctx[l]), Published(l)
    PROVE  TidyAt(pc[l], ctx[l])'
  <1> DEFINE c == ctx[l]
  <1>t. ProxyTyped /\ c \in CtxStates /\ CtxKnows(pc[l], c) BY TypedByParts DEF LanesTyped
  <1> SUFFICES ASSUME Clean' PROVE TidyAt(pc[l], ctx[l])' BY DEF TidyAt
  <1>c. Clean BY StaysClean
  <1>k. counter \in Gens /\ releases[counter] \in Routing /\ LinkKnown(pc[l], c) BY <1>c DEF TidyAt
  <1>n. counter \in Nat /\ counter + 1 # counter BY <1>k, GensAre
  <1>m. "crash" \notin faulted' /\ "counter" \notin faulted' /\ "switch" \notin faulted' BY DEF Clean
  <1>a. \A g \in Gens : Remove(g) => Apart(g)
    BY <1>t, OneRelease DEF Remove, Apart
  <1>o. ASSUME counter' = counter, current' = counter, pc'[l] = "undo", UNCHANGED releases \/ Apart(counter + 1)
        PROVE  TidyAt(pc[l], ctx[l])'
    <2>1. releases'[counter] = releases[counter] BY <1>o, <1>k, <1>n DEF Apart
    <2> QED BY <1>o, <1>k, <2>1 DEF TidyAt, LinkKnown
  <1>1. CASE OpenRelease(l)
    <2> DEFINE g == NextGeneration
    <2>0. g = counter + 1 /\ g \in Gens /\ pc[l] = "open" /\ UNCHANGED <<current, counter>>
      BY <1>1, <1>t, GensAre DEF OpenRelease, NextGeneration, ProxyTyped
    <2>k. current = counter BY <1>k, <2>0 DEF LinkKnown
    <2>1. ASSUME releases' = [releases EXCEPT ![g] = Bad], Enter(l, "write", [c EXCEPT !.gen = g])
          PROVE  TidyAt(pc[l], ctx[l])'
      <3> DEFINE e == [c EXCEPT !.gen = g]
      <3>1. e.gen = g
        <4> HIDE DEF c, g
        <4> QED BY <1>t, <2>0, LearnsGen
      <3>2. pc'[l] = "write" /\ ctx'[l] = e BY <2>1, LaneEnters
      <3>3. Apart(g) BY <1>t, <2>0, <2>1, OneRelease DEF Apart
      <3>4. releases'[counter] = releases[counter] BY <1>k, <1>n, <2>0, <3>3 DEF Apart
      <3> HIDE DEF e, g
      <3> QED BY <1>k, <2>0, <2>k, <3>1, <3>2, <3>4 DEF TidyAt, LinkKnown
    <2>2. ASSUME Remove(g), Goto(l, "undo") PROVE TidyAt(pc[l], ctx[l])'
      <3>1. pc'[l] = "undo" BY <2>2, LaneGoesTo
      <3>2. Apart(counter + 1) BY <1>a, <2>0, <2>2
      <3> QED BY <1>o, <2>0, <2>k, <3>1, <3>2
    <2> QED BY <1>1, <2>1, <2>2 DEF OpenRelease
  <1>2. CASE WriteRelease(l)
    <2>0. c.gen \in Gens /\ c.gen = counter + 1 /\ current = counter /\ UNCHANGED <<current, counter>>
      BY <1>2, <1>t, <1>k DEF WriteRelease, CtxKnows, LinkKnown
    <2>3. Apart(c.gen) BY <1>2, <1>t, <2>0, OneRelease DEF WriteRelease, Remove, Apart
    <2>4. releases'[counter] = releases[counter] BY <1>k, <1>n, <2>0, <2>3 DEF Apart
    <2>1. ASSUME Goto(l, "switch") PROVE TidyAt(pc[l], ctx[l])'
      <3>2. pc'[l] = "switch" /\ ctx'[l] = c BY <2>1, LaneGoesTo
      <3> QED BY <1>k, <2>0, <2>4, <3>2 DEF TidyAt, LinkKnown
    <2>2. ASSUME Goto(l, "undo") PROVE TidyAt(pc[l], ctx[l])'
      <3>1. pc'[l] = "undo" BY <2>2, LaneGoesTo
      <3> QED BY <1>o, <2>0, <2>3, <3>1
    <2> QED BY <1>2, <2>1, <2>2 DEF WriteRelease
  <1>3. CASE SwitchCurrent(l)
    <2>0. /\ c.gen \in Gens /\ c.gen = counter + 1 /\ current = counter /\ UNCHANGED counter
          /\ current \in Gens \cup {None}
      BY <1>3, <1>t, <1>k DEF SwitchCurrent, CtxKnows, LinkKnown, ProxyTyped
    <2>1. current' = c.gen /\ UNCHANGED releases /\ Enter(l, "check", [c EXCEPT !.prev = current])
      BY <1>3, <1>m DEF SwitchCurrent, Fails
    <2> DEFINE e == [c EXCEPT !.prev = current]
    <2>2. e.gen = c.gen /\ e.prev = current
      <3> HIDE DEF c
      <3> QED BY <1>t, <2>0, LearnsPrev
    <2>3. pc'[l] = "check" /\ ctx'[l] = e BY <2>1, LaneEnters
    <2> HIDE DEF e
    <2> QED BY <1>k, <2>0, <2>1, <2>2, <2>3 DEF TidyAt, LinkKnown
  <1>4. CASE CheckRelease(l)
    <2>0. c.gen \in Gens /\ c.gen = counter + 1 /\ c.prev = counter /\ UNCHANGED counter
      BY <1>4, <1>t, <1>k DEF CheckRelease, CtxKnows, LinkKnown
    <2>1. ASSUME Goto(l, "record"), UNCHANGED <<releases, current>> PROVE TidyAt(pc[l], ctx[l])'
      <3>1. pc'[l] = "record" /\ ctx'[l] = c BY <2>1, LaneGoesTo
      <3> QED BY <1>k, <2>0, <2>1, <3>1 DEF TidyAt, LinkKnown
    <2>2. ASSUME current' = c.prev, Remove(c.gen), Goto(l, "undo") PROVE TidyAt(pc[l], ctx[l])'
      <3>1. pc'[l] = "undo" BY <2>2, LaneGoesTo
      <3>2. Apart(counter + 1) BY <1>a, <2>0, <2>2
      <3> QED BY <1>o, <2>0, <2>2, <3>1, <3>2
    <2>3. ~Fails("switch") BY <1>m DEF Fails
    <2> QED BY <1>4, <2>1, <2>2, <2>3 DEF CheckRelease
  <1>5. CASE RecordGeneration(l)
    <2>0. /\ c.gen \in Gens /\ current = c.gen /\ UNCHANGED current
          /\ releases[c.gen] \in Routing
      BY <1>5, <1>t, DbRoutesTyped DEF RecordGeneration, CtxKnows, ReleaseKnown
    <2>1. /\ counter' = c.gen /\ Goto(l, "reload")
          /\ releases' = [h \in Gens |-> IF h \in Kept(c.gen) THEN releases[h] ELSE None]
      BY <1>5, <1>m DEF RecordGeneration, Fails
    <2>2. c.gen \in Kept(c.gen) BY <2>0, RoutingIsNot DEF Kept
    <2>3. releases'[c.gen] \in Routing BY <2>0, <2>1, <2>2
    <2>4. pc'[l] = "reload" BY <2>1, LaneGoesTo
    <2> QED BY <2>0, <2>1, <2>3, <2>4 DEF TidyAt, LinkKnown
  <1> QED BY <1>1, <1>2, <1>3, <1>4, <1>5 DEF Published

LEMMA TidyStays ==
    ASSUME RoutingTyped, Tidy, CreateAccount \/ RestartService \/ UNCHANGED vars
    PROVE  Tidy'
  <1>1. UNCHANGED <<pc, ctx, releases, current, counter, faulted>>
    BY AccountsCome DEF RestartService, tables, layout, vars
  <1> QED BY <1>1 DEF Tidy, LinkKnown, Clean

LEMMA TidyKept ==
    ASSUME OneAtATime, RoutingTyped, Alone, Tidy, NEW l \in Lanes, ReleaseKnown(pc[l], ctx[l]),
           faulted \subseteq faulted', LaneStep(l)
    PROVE  Tidy'
  <1>1. LaneAlone(l) /\ LaneAlone(l)' BY LaneIsAlone
  <1>2. TidyAt(pc[l], ctx[l]) BY <1>1, TidyHere
  <1>3. TidyAt(pc[l], ctx[l])' BY <1>2, TidyAside, TidyPublished DEF LaneStep
  <1> QED BY <1>1, <1>3, TidyThere

-----------------------------------------------------------------------------
(* What a handler that fails takes back *)

LEMMA PutBack ==
    ASSUME NEW S, NEW f \in [Domains -> S], NEW x \in Domains, NEW r
    PROVE  [[f EXCEPT ![x] = r] EXCEPT ![x] = f[x]] = f
  OBVIOUS

LEMMA UndoneRows ==
    ASSUME RoutingTyped, NEW l \in Lanes, NEW d \in Domains, Undone(ctx[l])[d] # None
    PROVE  Undone(ctx[l])[d].owner \in Accounts /\ acct[Undone(ctx[l])[d].owner] # None
  <1> DEFINE c == ctx[l]
             U == Undone(c)
             row == [owner |-> c.acct, pp |-> c.pp]
  <1>t. TablesTyped /\ c \in CtxStates /\ CtxKnows(pc[l], c) BY TypedByParts DEF LanesTyped
  <1>l. \A e \in Domains : dom[e] # None => dom[e].owner \in Accounts /\ acct[dom[e].owner] # None
    BY <1>t DEF TablesTyped, Row
  <1>f. dom \in [Domains -> Row \cup {None}] BY <1>t DEF TablesTyped
  <1>e. c.op \in Edits => c.dom \in Domains /\ c.acct \in Accounts /\ row \in Row /\ row.owner = c.acct
    <2>1. c.pp \in BOOLEAN BY <1>t DEF CtxStates
    <2>2. c.op \in Edits => c.dom \in Domains /\ c.acct \in Accounts BY <1>t DEF CtxKnows
    <2> QED BY <2>1, <2>2, RowIs
  <1>0. U = dom \/ U = [dom EXCEPT ![c.dom] = None] \/ (c.op \in Edits /\ acct[c.acct] # None /\ U = [dom EXCEPT ![c.dom] = row])
    <2>1. CASE c.op = "set" /\ OwnedBy(c.acct, c.dom)
      <3>1. c.dom \in Domains /\ c.acct \in Accounts /\ c.pp \in BOOLEAN BY <1>t, <2>1 DEF CtxKnows, Edits, CtxStates
      <3>2. U = [dom EXCEPT ![c.dom] = row] BY <1>t, <2>1, <3>1, FlagSet DEF Undone
      <3>3. acct[c.acct] # None BY <1>l, <2>1, <3>1 DEF OwnedBy
      <3> QED BY <2>1, <3>2, <3>3 DEF Edits
    <2>2. CASE c.op = "set" /\ ~OwnedBy(c.acct, c.dom) BY <2>2 DEF Undone, SetFlag
    <2>3. CASE c.op = "add" BY <2>3 DEF Undone
    <2>4. CASE c.op = "del" BY <2>4 DEF Undone, Edits
    <2>5. CASE c.op \notin Edits BY <2>5 DEF Undone, Edits
    <2> QED BY <2>1, <2>2, <2>3, <2>4, <2>5 DEF Edits
  <1>1. U[d] = None \/ U[d] = dom[d] \/ (c.op \in Edits /\ acct[c.acct] # None /\ U[d] = row)
    <2> HIDE DEF U, row, c
    <2> QED BY <1>0, <1>f
  <1>2. U[d] # None BY DEF U
  <1>3. U[d].owner \in Accounts /\ acct[U[d].owner] # None
    <2> HIDE DEF U, row
    <2> QED BY <1>1, <1>2, <1>l, <1>e
  <1> QED BY <1>3

\* While a handler publishes, what it would take back stays the same.
LEMMA BeforeCarried ==
    ASSUME NEW l \in Lanes, UNCHANGED <<acct, dom>>, SameCall(ctx'[l], ctx[l])
    PROVE  Before(ctx[l])' = Before(ctx[l])
  <1>1. /\ ctx'[l].op = ctx[l].op /\ ctx'[l].acct = ctx[l].acct /\ ctx'[l].dom = ctx[l].dom
        /\ ctx'[l].pp = ctx[l].pp
    BY DEF SameCall
  <1>2. Undone(ctx[l])' = Undone(ctx[l]) BY <1>1 DEF Undone, SetFlag, OwnedBy
  <1> QED BY <1>2 DEF Before, RoutesOf

LEMMA BeforeStays ==
    ASSUME RoutingTyped, NEW l \in Lanes, RowsKnown(pc[l], ctx[l]), pc[l] \in After,
           CreateAccount \/ RestartService \/ UNCHANGED vars
    PROVE  Before(ctx[l])' = Before(ctx[l])
  <1> DEFINE c == ctx[l]
             U == Undone(c)
  <1>1. /\ UNCHANGED <<dom, pc, ctx>>
        /\ \A b \in Accounts : acct[b] # None => acct'[b] = acct[b]
    BY AccountsCome DEF RestartService, tables, vars
  <1>2. c.op = "del" => acct[c.acct] # None /\ acct'[c.acct] # None
    <2>1. c.op = "del" => c.acct \in Accounts BY DEF RoutingTyped, CtxKnows, Edits
    <2> QED BY <1>1, <2>1 DEF RowsKnown
  <1>3. Undone(ctx[l])' = U BY <1>1, <1>2 DEF Undone, SetFlag, OwnedBy
  <1>4. \A d \in Domains : U[d] # None => acct'[U[d].owner] = acct[U[d].owner]
    <2>1. \A d \in Domains : U[d] # None => U[d].owner \in Accounts /\ acct[U[d].owner] # None BY UndoneRows
    <2> HIDE DEF U
    <2> QED BY <1>1, <2>1
  <1>5. Before(ctx[l])' = [d \in Domains |-> IF U[d] = None THEN None
                                  ELSE [owner |-> U[d].owner, ip |-> acct'[U[d].owner], pp |-> U[d].pp]]
    BY <1>3 DEF Before, RoutesOf
  <1>6. Before(ctx[l]) = [d \in Domains |-> IF U[d] = None THEN None
                                  ELSE [owner |-> U[d].owner, ip |-> acct[U[d].owner], pp |-> U[d].pp]]
    BY DEF Before, RoutesOf
  <1> HIDE DEF U
  <1> QED BY <1>4, <1>5, <1>6

\* An edit can be taken back exactly.
LEMMA EditReverts ==
    ASSUME RoutingTyped, NEW l \in Lanes, RowsKnown(pc[l], ctx[l]),
           AddDomainInsert(l) \/ DelDomainDelete(l) \/ SetDomainProtocolUpdate(l), Goto(l, "list"), pc'[l] = "list"
    PROVE  Undone(ctx[l])' = dom
  <1> DEFINE c == ctx[l]
             x == c.dom
             row == [owner |-> c.acct, pp |-> c.pp]
  <1>t. TablesTyped /\ c \in CtxStates /\ CtxKnows(pc[l], c) BY TypedByParts DEF LanesTyped
  <1>f. dom \in [Domains -> Row \cup {None}] BY <1>t DEF TablesTyped
  <1>s. ctx' = ctx BY DEF Goto
  <1>r. ~Return(l) BY LaneReturns
  <1>1. CASE AddDomainInsert(l)
    <2>1. c.op = "add" /\ x \in Domains /\ c.acct \in Accounts /\ c.pp \in BOOLEAN
      BY <1>1, <1>t DEF AddDomainInsert, CtxKnows, Edits, CtxStates
    <2>2. UNCHANGED acct /\ dom[x] = None /\ dom' = [dom EXCEPT ![x] = row] BY <1>1, <1>r DEF AddDomainInsert, SetRow
    <2>3. row.owner = c.acct /\ row # None BY <2>1, RowIs
    <2>4. dom'[x] = row /\ [dom' EXCEPT ![x] = None] = dom
      <3> HIDE DEF row, x
      <3> QED BY <1>f, <2>1, <2>2, PutBack
    <2>5. dom'[x] # None /\ dom'[x].owner = c.acct
      <3> HIDE DEF row
      <3> QED BY <2>3, <2>4
    <2>6. Undone(ctx[l])' = [dom' EXCEPT ![x] = None] BY <1>s, <2>1, <2>5 DEF Undone, OwnedBy
    <2> QED BY <2>4, <2>6
  <1>2. CASE DelDomainDelete(l)
    <2>1. c.op = "del" /\ x \in Domains /\ c.acct \in Accounts BY <1>2, <1>t DEF DelDomainDelete, CtxKnows, Edits
    <2>2. UNCHANGED acct /\ OwnedBy(c.acct, x) /\ dom' = [dom EXCEPT ![x] = None] /\ dom[x] = row
      BY <1>2, <1>r DEF DelDomainDelete, SetRow, RowsKnown
    <2>3. acct'[c.acct] # None BY <1>t, <2>1, <2>2 DEF TablesTyped, OwnedBy
    <2>4. dom'[x] = None /\ [dom' EXCEPT ![x] = row] = dom
      <3> HIDE DEF row, x
      <3> QED BY <1>f, <2>1, <2>2, PutBack
    <2>6. Undone(ctx[l])' = [dom' EXCEPT ![x] = row] BY <1>s, <2>1, <2>3, <2>4 DEF Undone
    <2> QED BY <2>4, <2>6
  <1>3. CASE SetDomainProtocolUpdate(l)
    <2> DEFINE new == [owner |-> c.acct, pp |-> ~c.pp]
    <2>1. c.op = "set" /\ x \in Domains /\ c.acct \in Accounts /\ c.pp \in BOOLEAN /\ (~c.pp) \in BOOLEAN
      BY <1>3, <1>t DEF SetDomainProtocolUpdate, CtxKnows, Edits, CtxStates
    <2>2. UNCHANGED acct /\ dom[x] = row /\ dom' = SetFlag(c, ~c.pp)
      BY <1>3, <1>r DEF SetDomainProtocolUpdate, RowsKnown
    <2>3. OwnedBy(c.acct, x)
      <3>1. row.owner = c.acct /\ row # None BY <2>1, RowIs
      <3> HIDE DEF row
      <3> QED BY <2>2, <3>1 DEF OwnedBy
    <2>4. dom' = [dom EXCEPT ![x] = new] BY <1>t, <2>1, <2>2, <2>3, FlagSet
    <2>5. new # None /\ new.owner = c.acct BY <2>1, RowIs
    <2>6. dom'[x] = new /\ [dom' EXCEPT ![x] = row] = dom
      <3> HIDE DEF row, x, new
      <3> QED BY <1>f, <2>1, <2>2, <2>4, PutBack
    <2>7. dom'[x] # None /\ dom'[x].owner = c.acct
      <3> HIDE DEF new
      <3> QED BY <2>5, <2>6
    <2>8. Undone(ctx[l])' = [dom' EXCEPT ![x].pp = c.pp] BY <1>s, <2>1, <2>7 DEF Undone, SetFlag, OwnedBy
    <2>9. [dom' EXCEPT ![x].pp = c.pp] = [dom' EXCEPT ![x] = [dom'[x] EXCEPT !.pp = c.pp]] OBVIOUS
    <2>10. [new EXCEPT !.pp = c.pp] = row OBVIOUS
    <2>11. [dom'[x] EXCEPT !.pp = c.pp] = row
      <3> HIDE DEF new, row
      <3> QED BY <2>6, <2>10
    <2> QED BY <2>6, <2>8, <2>9, <2>11
  <1> QED BY <1>1, <1>2, <1>3

\* For the one lane that may be busy.
ReversibleAt(p, c) == faulted \subseteq {"check", "write"} => RollsBack(p, c) /\ (p = "idle" => Agrees)

LEMMA ReversibleHere ==
    ASSUME NEW l \in Lanes, LaneAlone(l), Reversible
    PROVE  ReversibleAt(pc[l], ctx[l])
  BY DEF LaneAlone, Reversible, ReversibleAt

LEMMA ReversibleThere ==
    ASSUME NEW l \in Lanes, LaneAlone(l)', ReversibleAt(pc[l], ctx[l])'
    PROVE  Reversible'
  <1>1. \A m \in Lanes : m # l => RollsBack(pc[m], ctx[m])' BY DEF LaneAlone, RollsBack
  <1> QED BY <1>1 DEF Reversible, ReversibleAt

LEMMA OnlyRefused ==
    ASSUME faulted \subseteq faulted', faulted' \subseteq {"check", "write"}
    PROVE  /\ faulted \subseteq {"check", "write"} /\ Clean /\ Clean'
           /\ \A kind : Fails(kind) => kind \in {"check", "write"}
  BY DEF Clean, Fails

LEMMA ReversibleLookedUp ==
    ASSUME RoutingTyped, NEW l \in Lanes, faulted \subseteq faulted', ReversibleAt(pc[l], ctx[l]), Lookups(l)
    PROVE  ReversibleAt(pc[l], ctx[l])'
  <1> SUFFICES ASSUME faulted' \subseteq {"check", "write"} PROVE ReversibleAt(pc[l], ctx[l])' BY DEF ReversibleAt
  <1>1. pc[l] = "idle" /\ UNCHANGED <<acct, dom, releases, counter, loaded>>
    BY DEF Lookups, AddDomainLookup, DelDomainLookup, SetDomainProtocolLookup, SyncAllDomains, DelLookup,
           ApplyHaproxyState, Free, tables, layout
  <1>2. Agrees BY <1>1, OnlyRefused DEF ReversibleAt
  <1>3. DbRoutes' = DbRoutes BY <1>1 DEF DbRoutes
  <1>4. Agrees' BY <1>1, <1>2, <1>3 DEF Agrees, Serves
  <1>5. ASSUME pc'[l] \in {"idle", "insert", "delete", "update", "service", "rows", "drop"}
        PROVE  ReversibleAt(pc[l], ctx[l])'
    BY <1>4, <1>5 DEF ReversibleAt, RollsBack
  <1>6. ASSUME NEW p \in {"insert", "delete", "update", "service", "rows", "drop"}, NEW c, Enter(l, p, c)
        PROVE  ReversibleAt(pc[l], ctx[l])'
    BY <1>5, <1>6, LaneEnters
  <1>7. CASE SyncAllDomains(l)
    <2> DEFINE c == [NoCtx EXCEPT !.op = "sync"]
    <2>1. pc'[l] = "list" /\ ctx'[l] = c BY <1>7, LaneEnters DEF SyncAllDomains
    <2>2. c.op = "sync" BY NewSync
    <2> HIDE DEF c
    <2>3. Undone(ctx[l])' = dom BY <1>1, <2>1, <2>2 DEF Undone
    <2>4. Before(ctx[l])' = DbRoutes' BY <1>1, <2>3, DbRoutesAre DEF Before, RoutesOf, DbRoutes
    <2> QED BY <1>4, <2>1, <2>4 DEF ReversibleAt, RollsBack, Agrees
  <1>8. CASE ApplyHaproxyState(l)
    <2>1. (\E c : Enter(l, "service", c)) \/ UNCHANGED pc BY <1>8 DEF ApplyHaproxyState
    <2> QED BY <1>1, <1>5, <1>6, <2>1
  <1>9. CASE DelLookup(l)
    <2>1. \E c : Enter(l, "drop", c) \/ Enter(l, "rows", c) BY <1>9 DEF DelLookup
    <2> QED BY <1>6, <2>1
  <1>10. CASE AddDomainLookup(l) \/ DelDomainLookup(l) \/ SetDomainProtocolLookup(l)
    <2>1. \E c : \E p \in {"insert", "delete", "update"} : Enter(l, p, c)
      BY <1>10 DEF AddDomainLookup, DelDomainLookup, SetDomainProtocolLookup
    <2> QED BY <1>6, <2>1
  <1> QED BY <1>7, <1>8, <1>9, <1>10 DEF Lookups

LEMMA ReversibleEdited ==
    ASSUME RoutingTyped, NEW l \in Lanes, faulted \subseteq faulted', RowsKnown(pc[l], ctx[l]),
           ReversibleAt(pc[l], ctx[l]), Edited(l)
    PROVE  ReversibleAt(pc[l], ctx[l])'
  <1> DEFINE c == ctx[l]
  <1> SUFFICES ASSUME faulted' \subseteq {"check", "write"} PROVE ReversibleAt(pc[l], ctx[l])' BY DEF ReversibleAt
  <1>t. TablesTyped /\ c \in CtxStates /\ CtxKnows(pc[l], c) BY TypedByParts DEF LanesTyped
  <1>n. ~Fails("db") BY OnlyRefused
  <1>u. UNCHANGED <<acct, releases, counter, loaded>>
    BY DEF Edited, AddDomainInsert, DelDomainDelete, SetDomainProtocolUpdate, DelRows, Undo, layout
  <1>k. RollsBack(pc[l], c) BY OnlyRefused DEF ReversibleAt
  <1>i. ASSUME DbRoutes' = releases[counter], Serves(releases[counter]), Return(l) PROVE ReversibleAt(pc[l], ctx[l])'
    <2>1. Agrees' BY <1>u, <1>i DEF Agrees, Serves
    <2>2. pc'[l] = "idle" BY <1>i, LaneReturns
    <2> QED BY <2>1, <2>2 DEF ReversibleAt, RollsBack
  <1>1. CASE AddDomainInsert(l) \/ DelDomainDelete(l) \/ SetDomainProtocolUpdate(l)
    <2>0. pc[l] \in {"insert", "delete", "update"}
      BY <1>1 DEF AddDomainInsert, DelDomainDelete, SetDomainProtocolUpdate
    <2>1. releases[counter] = DbRoutes /\ Serves(DbRoutes) BY <1>k, <2>0 DEF RollsBack, Agrees
    <2>2. Goto(l, "list") \/ (Return(l) /\ UNCHANGED dom)
      BY <1>1, <1>n DEF AddDomainInsert, DelDomainDelete, SetDomainProtocolUpdate
    <2>3. CASE Goto(l, "list")
      <3>1. pc'[l] = "list" BY <2>3, LaneGoesTo
      <3>2. Undone(ctx[l])' = dom BY <1>1, <2>3, <3>1, EditReverts
      <3>3. Before(ctx[l])' = DbRoutes BY <1>u, <3>2, DbRoutesAre DEF Before, RoutesOf
      <3>4. releases'[counter'] = Before(ctx[l])' /\ Serves(Before(ctx[l]))' BY <1>u, <2>1, <3>3 DEF Serves
      <3> QED BY <3>1, <3>4 DEF ReversibleAt, RollsBack
    <2>4. CASE Return(l) /\ UNCHANGED dom
      <3>1. DbRoutes' = DbRoutes BY <1>u, <2>4 DEF DbRoutes
      <3> QED BY <1>i, <2>1, <2>4, <3>1
    <2> QED BY <2>2, <2>3, <2>4
  <1>2. CASE DelRows(l)
    <2>0. c.op = "userdel" /\ c.todo = Owned(c.acct) BY <1>2, <1>t DEF DelRows, CtxKnows, RowsKnown
    <2>1. \A d \in c.todo : OwnedBy(c.acct, d) BY <2>0 DEF Owned
    <2>2. Goto(l, "list") \/ \E d \in c.todo : Enter(l, "rows", [c EXCEPT !.todo = @ \ {d}])
      BY <1>2, <1>n, <2>1 DEF DelRows
    <2>3. CASE Goto(l, "list")
      <3>1. pc'[l] = "list" /\ ctx'[l] = c BY <2>3, LaneGoesTo
      <3> QED BY <2>0, <3>1 DEF ReversibleAt, RollsBack
    <2>4. ASSUME NEW e, Enter(l, "rows", e) PROVE ReversibleAt(pc[l], ctx[l])'
      <3>1. pc'[l] = "rows" BY <2>4, LaneEnters
      <3> QED BY <3>1 DEF ReversibleAt, RollsBack
    <2> QED BY <2>2, <2>3, <2>4
  <1>3. CASE Undo(l)
    <2>1. /\ pc[l] = "undo" /\ Return(l) /\ dom' = Undone(c) /\ c.op # "userdel"
      BY <1>3, <1>n DEF Undo
    <2>2. releases[counter] = Before(c) /\ Serves(Before(c)) BY <1>k, <2>1 DEF RollsBack
    <2>3. DbRoutes' = Before(c) BY <1>u, <2>1 DEF DbRoutes, Before, RoutesOf
    <2> QED BY <1>i, <2>1, <2>2, <2>3
  <1> QED BY <1>1, <1>2, <1>3 DEF Edited

\* A publication that fails leaves the counter and the service where they were.
LEMMA ReversiblePublished ==
    ASSUME RoutingTyped, NEW l \in Lanes, faulted \subseteq faulted', ReleaseKnown(pc[l], ctx[l]),
           TidyAt(pc[l], ctx[l]), ReversibleAt(pc[l], ctx[l]), ListAllDomains(l) \/ Published(l)
    PROVE  ReversibleAt(pc[l], ctx[l])'
  <1> DEFINE c == ctx[l]
             B == Before(c)
  <1> SUFFICES ASSUME faulted' \subseteq {"check", "write"} PROVE ReversibleAt(pc[l], ctx[l])' BY DEF ReversibleAt
  <1>t. ProxyTyped /\ c \in CtxStates /\ CtxKnows(pc[l], c) BY TypedByParts DEF LanesTyped
  <1>n. ~Fails("db") /\ ~Fails("counter") /\ ~Fails("switch") BY OnlyRefused
  <1>k. RollsBack(pc[l], c) BY OnlyRefused DEF ReversibleAt
  <1>g. counter \in Gens /\ counter + 1 # counter /\ LinkKnown(pc[l], c)
    <2>1. counter \in Gens /\ LinkKnown(pc[l], c) BY OnlyRefused DEF TidyAt
    <2>2. counter \in Nat BY <2>1, GensAre
    <2> QED BY <2>1, <2>2
  <1>u. UNCHANGED loaded
    BY DEF ListAllDomains, Published, OpenRelease, WriteRelease, SwitchCurrent, CheckRelease, RecordGeneration
  <1>b. SameCall(ctx'[l], c) /\ Before(ctx[l])' = B
    <2>1. UNCHANGED <<acct, dom>> /\ SameCall(ctx'[l], ctx[l]) BY PublicationGoes
    <2> QED BY <2>1, BeforeCarried
  <1>q. ctx'[l].op = c.op BY <1>b DEF SameCall
  <1>1. ASSUME pc[l] \in {"list", "open", "write", "switch"} \/ (pc[l] = "check" /\ releases[c.gen] \notin Routing),
               pc'[l] \in {"open", "write", "switch", "check", "undo"},
               UNCHANGED counter, releases'[counter] = releases[counter]
        PROVE  ReversibleAt(pc[l], ctx[l])'
    <2>0. releases[c.gen] \notin Routing => releases[c.gen] # DbRoutes BY DbRoutesTyped
    <2>1. c.op # "userdel" => releases[counter] = B /\ Serves(B) BY <1>1, <1>k, <2>0 DEF RollsBack
    <2>2. ctx'[l].op # "userdel" => releases'[counter'] = Before(ctx[l])' /\ Serves(Before(ctx[l]))'
      BY <1>1, <1>b, <1>q, <1>u, <2>1 DEF Serves
    <2> QED BY <1>1, <2>2 DEF ReversibleAt, RollsBack
  <1>2. CASE ListAllDomains(l)
    <2>1. pc[l] = "list" /\ UNCHANGED <<releases, counter>> /\ \E e : Enter(l, "open", e)
      BY <1>2, <1>n DEF ListAllDomains, layout
    <2> QED BY <1>1, <2>1, LaneEnters
  <1>3. CASE OpenRelease(l)
    <2>1. /\ pc[l] = "open" /\ UNCHANGED counter /\ counter + 1 \in Gens
          /\ (\E e : Enter(l, "write", e)) \/ Goto(l, "undo")
          /\ \E r : releases' = [releases EXCEPT ![counter + 1] = r]
      BY <1>3, <1>t, GensAre DEF OpenRelease, NextGeneration, Remove, ProxyTyped
    <2>2. releases'[counter] = releases[counter] BY <1>t, <1>g, <2>1, OneRelease
    <2>3. pc'[l] \in {"write", "undo"} BY <2>1, LaneEnters, LaneGoesTo
    <2> QED BY <1>1, <2>1, <2>2, <2>3
  <1>4. CASE WriteRelease(l)
    <2>1. /\ pc[l] = "write" /\ UNCHANGED counter /\ c.gen \in Gens
          /\ Goto(l, "switch") \/ Goto(l, "undo")
          /\ \E r : releases' = [releases EXCEPT ![c.gen] = r]
      BY <1>4, <1>t DEF WriteRelease, CtxKnows, Remove
    <2>2. c.gen # counter BY <1>g, <2>1 DEF LinkKnown
    <2>3. releases'[counter] = releases[counter] BY <1>t, <1>g, <2>1, <2>2, OneRelease
    <2>4. pc'[l] \in {"switch", "undo"} BY <2>1, LaneGoesTo
    <2> QED BY <1>1, <2>1, <2>3, <2>4
  <1>5. CASE SwitchCurrent(l)
    <2>1. pc[l] = "switch" /\ UNCHANGED <<releases, counter>> /\ \E e : Enter(l, "check", e)
      BY <1>5, <1>n DEF SwitchCurrent
    <2> QED BY <1>1, <2>1, LaneEnters
  <1>6. CASE CheckRelease(l)
    <2>1. pc[l] = "check" /\ UNCHANGED counter /\ c.gen \in Gens BY <1>6, <1>t DEF CheckRelease, CtxKnows
    <2>2. ASSUME Goto(l, "record") PROVE ReversibleAt(pc[l], ctx[l])'
      <3>1. pc'[l] = "record" BY <2>2, LaneGoesTo
      <3> QED BY <3>1 DEF ReversibleAt, RollsBack
    <2>3. ASSUME releases[c.gen] \notin Routing, Remove(c.gen), Goto(l, "undo") PROVE ReversibleAt(pc[l], ctx[l])'
      <3>1. c.gen # counter BY <1>g, <2>1 DEF LinkKnown
      <3>2. releases'[counter] = releases[counter] BY <1>t, <1>g, <2>1, <2>3, <3>1, OneRelease DEF Remove
      <3>3. pc'[l] = "undo" BY <2>3, LaneGoesTo
      <3> QED BY <1>1, <2>1, <2>3, <3>2, <3>3
    <2> QED BY <1>6, <2>2, <2>3 DEF CheckRelease
  <1>7. CASE RecordGeneration(l)
    <2>1. Goto(l, "reload") BY <1>7, <1>n DEF RecordGeneration
    <2>2. pc'[l] = "reload" BY <2>1, LaneGoesTo
    <2> QED BY <2>2 DEF ReversibleAt, RollsBack
  <1> QED BY <1>2, <1>3, <1>4, <1>5, <1>6, <1>7 DEF Published

LEMMA ReversibleOtherwise ==
    ASSUME RoutingTyped, NEW l \in Lanes, faulted \subseteq faulted', RowsKnown(pc[l], ctx[l]),
           ReleaseKnown(pc[l], ctx[l]), TidyAt(pc[l], ctx[l]), ReversibleAt(pc[l], ctx[l]),
           SwitchService(l) \/ ReloadProxy(l) \/ Done(l) \/ DropAccount(l)
    PROVE  ReversibleAt(pc[l], ctx[l])'
  <1> DEFINE c == ctx[l]
             D == DbRoutes
  <1> SUFFICES ASSUME faulted' \subseteq {"check", "write"} PROVE ReversibleAt(pc[l], ctx[l])' BY DEF ReversibleAt
  <1>t. TablesTyped /\ c \in CtxStates /\ CtxKnows(pc[l], c) BY TypedByParts DEF LanesTyped
  <1>n. \A kind : Fails(kind) => kind \in {"check", "write"} BY OnlyRefused
  <1>k. RollsBack(pc[l], c) BY OnlyRefused DEF ReversibleAt
  <1>g. counter \in Gens /\ releases[counter] \in Routing /\ LinkKnown(pc[l], c) BY OnlyRefused DEF TidyAt
  <1>x. counter # None BY <1>g, MarksAssumption
  <1>1. CASE SwitchService(l)
    <2>0. /\ pc[l] = "service" /\ c.op = "sync" /\ UNCHANGED <<acct, dom, releases, counter>>
      BY <1>1, <1>t DEF SwitchService, CtxKnows, tables, layout
    <2>1. releases[counter] = D /\ Serves(D) /\ current = counter
      BY <1>k, <1>g, <2>0 DEF RollsBack, Agrees, LinkKnown
    <2>2. DbRoutes' = D BY <2>0 DEF DbRoutes
    <2>3. loaded' = Down \/ loaded' = D
      <3>1. loaded' = Down \/ loaded' = releases[current] \/ loaded' = loaded BY <1>1 DEF SwitchService
      <3> QED BY <2>1, <3>1 DEF Serves
    <2>4. Agrees' BY <2>0, <2>1, <2>2, <2>3 DEF Agrees, Serves
    <2>5. ASSUME Goto(l, "list") PROVE ReversibleAt(pc[l], ctx[l])'
      <3>1. pc'[l] = "list" /\ ctx'[l] = c BY <2>5, LaneGoesTo
      <3>2. Undone(ctx[l])' = dom BY <2>0, <3>1 DEF Undone
      <3>3. Before(ctx[l])' = DbRoutes' BY <2>0, <3>2, DbRoutesAre DEF Before, RoutesOf, DbRoutes
      <3> QED BY <2>4, <3>1, <3>3 DEF ReversibleAt, RollsBack, Agrees
    <2>6. ASSUME Return(l) PROVE ReversibleAt(pc[l], ctx[l])'
      <3>1. pc'[l] = "idle" BY <2>6, LaneReturns
      <3> QED BY <2>4, <3>1 DEF ReversibleAt, RollsBack
    <2> QED BY <1>1, <2>5, <2>6 DEF SwitchService
  <1>2. CASE ReloadProxy(l)
    <2>1. Goto(l, "done") BY <1>2, <1>n DEF ReloadProxy
    <2>2. pc'[l] = "done" BY <2>1, LaneGoesTo
    <2> QED BY <2>2 DEF ReversibleAt, RollsBack
  <1>3. CASE Done(l)
    <2>0. pc[l] = "done" /\ UNCHANGED <<acct, dom, releases, counter, loaded>>
      BY <1>3 DEF Done, tables, layout
    <2>1. "probe" \notin faulted BY OnlyRefused
    <2>2. releases[counter] = D /\ Serves(D) BY <1>g, <2>0, <2>1 DEF ReleaseKnown, LinkKnown
    <2>3. DbRoutes' = D BY <2>0 DEF DbRoutes
    <2>4. Agrees' BY <2>0, <2>2, <2>3 DEF Agrees, Serves
    <2>5. pc'[l] \in {"drop", "idle"} BY <1>3, LaneGoesTo, LaneReturns DEF Done
    <2> QED BY <2>4, <2>5 DEF ReversibleAt, RollsBack
  <1>4. CASE DropAccount(l)
    <2>0. pc[l] = "drop" /\ UNCHANGED <<releases, counter, loaded>> /\ Return(l)
      BY <1>4 DEF DropAccount, layout
    <2>1. releases[counter] = D /\ Serves(D) BY <1>k, <2>0 DEF RollsBack, Agrees
    <2>2. "db" \notin faulted BY OnlyRefused
    <2>3. Owned(c.acct) = {} /\ c.acct \in Accounts
      BY <1>t, <2>0, <2>2 DEF RowsKnown, CtxKnows
    <2>4. /\ acct' = [acct EXCEPT ![c.acct] = None]
          /\ dom' = [d \in Domains |-> IF OwnedBy(c.acct, d) THEN None ELSE dom[d]]
      BY <1>4, <1>n DEF DropAccount
    <2>5. \A d \in Domains : dom'[d] = dom[d] BY <2>3, <2>4 DEF Owned
    <2>6. \A d \in Domains : dom[d] # None => acct'[dom[d].owner] = acct[dom[d].owner]
      BY <1>t, <2>3, <2>4 DEF Owned, OwnedBy, TablesTyped, Row
    <2>7. DbRoutes' = D BY <2>5, <2>6 DEF DbRoutes
    <2>8. Agrees' BY <2>0, <2>1, <2>7 DEF Agrees, Serves
    <2>9. pc'[l] = "idle" BY <2>0, LaneReturns
    <2> QED BY <2>8, <2>9 DEF ReversibleAt, RollsBack
  <1> QED BY <1>1, <1>2, <1>3, <1>4

LEMMA ReversibleKept ==
    ASSUME OneAtATime, RoutingTyped, Alone, Tidy, Reversible, NEW l \in Lanes, RowsKnown(pc[l], ctx[l]),
           ReleaseKnown(pc[l], ctx[l]), faulted \subseteq faulted', LaneStep(l)
    PROVE  Reversible'
  <1>1. LaneAlone(l) /\ LaneAlone(l)' BY LaneIsAlone
  <1>2. TidyAt(pc[l], ctx[l]) /\ ReversibleAt(pc[l], ctx[l]) BY <1>1, TidyHere, ReversibleHere
  <1>3. ReversibleAt(pc[l], ctx[l])'
    BY <1>2, ReversibleLookedUp, ReversibleEdited, ReversiblePublished, ReversibleOtherwise DEF LaneStep
  <1> QED BY <1>1, <1>3, ReversibleThere

\* An account that comes takes no route; a service that restarts loads what
\* the link names.
LEMMA ReversibleStays ==
    ASSUME RoutingTyped, \A l \in Lanes : RowsKnown(pc[l], ctx[l]) /\ ReleaseKnown(pc[l], ctx[l]),
           Tidy, Reversible, CreateAccount \/ RestartService \/ UNCHANGED vars
    PROVE  Reversible'
  <1> DEFINE D == DbRoutes
  <1>1. UNCHANGED <<dom, pc, ctx, releases, current, counter, faulted>> /\ (UNCHANGED loaded \/ loaded' = Load(Down))
    BY AccountsCome DEF RestartService, tables, layout, vars
  <1> SUFFICES ASSUME faulted \subseteq {"check", "write"}
               PROVE  /\ \A l \in Lanes : RollsBack(pc[l], ctx[l])'
                      /\ (\A l \in Lanes : pc[l] = "idle") => Agrees'
    BY <1>1 DEF Reversible
  <1>2. DbRoutes' = D /\ D \in Routing BY DbRoutesStay, DbRoutesTyped
  <1>3. counter \in Gens /\ counter # None /\ releases[counter] \in Routing
    BY MarksAssumption DEF Tidy, Clean
  <1>4. ASSUME current = counter, Serves(releases[counter]) PROVE Serves(releases[counter])'
    BY <1>1, <1>3, <1>4 DEF Serves, Load, Loadable
  <1>5. ASSUME current = counter, Agrees PROVE Agrees'
    <2>1. releases[counter] = D /\ Serves(releases[counter]) BY <1>5 DEF Agrees
    <2>2. Serves(releases[counter])' BY <1>4, <1>5, <2>1
    <2> QED BY <1>1, <1>2, <2>1, <2>2 DEF Agrees, Serves
  <1>6. ASSUME NEW l \in Lanes PROVE RollsBack(pc[l], ctx[l])'
    <2> DEFINE c == ctx[l]
               B == Before(c)
    <2>k. RollsBack(pc[l], c) BY DEF Reversible
    <2>l. pc[l] # "idle" => LinkKnown(pc[l], c) BY DEF Tidy, Clean
    <2>s. pc'[l] = pc[l] /\ ctx'[l] = c BY <1>1
    <2>1. CASE pc[l] \in {"insert", "delete", "update", "service", "drop"}
      <3>1. Agrees /\ current = counter BY <2>1, <2>k, <2>l DEF RollsBack, LinkKnown
      <3> QED BY <1>5, <2>1, <2>s, <3>1 DEF RollsBack
    <2>2. CASE pc[l] \in {"list", "open", "write", "switch", "check", "undo"} /\ c.op # "userdel"
      <3>1. Before(ctx[l])' = B BY <2>2, BeforeStays DEF After, Publishing
      <3>2. releases[counter] = B BY <2>2, <2>k DEF RollsBack
      <3>3. CASE pc[l] # "check"
        <4>1. current = counter /\ Serves(releases[counter]) BY <2>2, <2>k, <2>l, <3>3 DEF RollsBack, LinkKnown
        <4>2. Serves(releases[counter])' BY <1>4, <4>1
        <4>3. Serves(Before(ctx[l]))' BY <1>1, <3>1, <3>2, <4>2 DEF Serves
        <4> QED BY <1>1, <2>2, <2>s, <3>1, <3>2, <4>3 DEF RollsBack
      <3>4. CASE pc[l] = "check"
        <4>1. current = c.gen /\ (releases[c.gen] = D \/ releases[c.gen] = Bad) BY <3>4 DEF ReleaseKnown
        <4>2. Serves(B) \/ (releases[c.gen] = D /\ loaded = D) BY <2>k, <2>2, <3>4 DEF RollsBack
        <4>3. Serves(Before(ctx[l]))' \/ (releases[c.gen] = D /\ loaded' = D)
          <5>1. CASE UNCHANGED loaded BY <3>1, <4>2, <5>1 DEF Serves
          <5>2. CASE loaded' = Load(Down)
            <6>1. releases[c.gen] = D => loaded' = Down \/ loaded' = D BY <4>1, <5>2 DEF Load
            <6>2. releases[c.gen] = Bad => loaded' = Down BY <4>1, <5>2, RoutingIsNot DEF Load, Loadable
            <6> QED BY <4>1, <6>1, <6>2 DEF Serves
          <5> QED BY <1>1, <5>1, <5>2
        <4> QED BY <1>1, <1>2, <2>2, <2>s, <3>1, <3>2, <3>4, <4>3 DEF RollsBack
      <3> QED BY <3>3, <3>4
    <2> QED BY <2>1, <2>2, <2>s DEF RollsBack
  <1>7. ASSUME \A l \in Lanes : pc[l] = "idle" PROVE Agrees'
    BY <1>5, <1>7 DEF Reversible, Tidy, Clean
  <1> QED BY <1>6, <1>7

-----------------------------------------------------------------------------
(* Routes to the containers of the accounts they were rendered from *)

LEMMA DbRoutesSound ==
    ASSUME RoutingTyped
    PROVE  Sound(DbRoutes)
  <1>1. \A d \in Domains : DbRoutes[d] # None => dom[d] # None BY DEF DbRoutes
  <1>2. ASSUME NEW d \in Domains, dom[d] # None
        PROVE  DbRoutes[d].owner = dom[d].owner /\ DbRoutes[d].ip = acct[dom[d].owner]
    <2>1. DbRoutes[d] = [owner |-> dom[d].owner, ip |-> acct[dom[d].owner], pp |-> dom[d].pp] BY <1>2 DEF DbRoutes
    <2> QED BY <2>1
  <1> QED BY <1>1, <1>2 DEF Sound

\* The accounts that a sound routing names have an address.
LEMMA SoundLives ==
    ASSUME NEW routes \in Routing, Sound(routes), NEW d \in Domains, routes[d] # None
    PROVE  routes[d].owner \in Accounts /\ acct[routes[d].owner] = routes[d].ip /\ acct[routes[d].owner] # None
  <1>1. routes[d] \in Route BY DEF Routing
  <1>2. routes[d].owner \in Accounts /\ routes[d].ip \in Ips BY <1>1 DEF Route
  <1> QED BY <1>2, MarksAssumption DEF Sound

\* What the service serves and what it would load are sound.
Served == loaded # Down => Sound(loaded)
Named == Loadable => Sound(releases[current])

LEMMA SoundKept ==
    ASSUME RoutingTyped, Alone, Tidy, Reversible, Served, Named, faulted' = {}, faulted = {},
           NEW l \in Lanes, LaneAlone(l), RowsKnown(pc[l], ctx[l]), ReleaseKnown(pc[l], ctx[l]), LaneStep(l)
    PROVE  Served' /\ Named'
  <1> DEFINE c == ctx[l]
  <1>t. TablesTyped /\ ProxyTyped /\ c \in CtxStates /\ CtxKnows(pc[l], c) BY TypedByParts DEF LanesTyped
  <1>n. \A kind : ~Fails(kind) BY DEF Fails
  <1>g. TidyAt(pc[l], c) /\ ReversibleAt(pc[l], c) BY TidyHere, ReversibleHere
  <1>k. counter \in Gens /\ releases[counter] \in Routing /\ LinkKnown(pc[l], c) BY <1>g DEF TidyAt, Clean
  <1>m. counter \in Nat BY <1>k, GensAre
  <1>a. ASSUME UNCHANGED acct, loaded' \in {loaded, Down} \/ (Loadable /\ loaded' = releases[current]) PROVE Served'
    BY <1>a DEF Served, Named, Sound
  <1>b. ASSUME UNCHANGED <<acct, current>>, releases'[current] = releases[current] PROVE Named'
    BY <1>b DEF Named, Loadable, Sound
  <1>1. CASE Lookups(l) \/ Edited(l) \/ ListAllDomains(l) \/ Done(l)
    <2>1. UNCHANGED <<acct, loaded, releases, current>>
      BY <1>1 DEF Lookups, AddDomainLookup, DelDomainLookup, SetDomainProtocolLookup, SyncAllDomains, DelLookup,
                  ApplyHaproxyState, Edited, AddDomainInsert, DelDomainDelete, SetDomainProtocolUpdate, DelRows, Undo,
                  ListAllDomains, Done, tables, layout
    <2> QED BY <1>a, <1>b, <2>1
  <1>2. CASE SwitchService(l) \/ ReloadProxy(l)
    <2>1. UNCHANGED <<acct, releases, current>> BY <1>2 DEF SwitchService, ReloadProxy, tables, layout
    <2>2. loaded' \in {loaded, Down} \/ (Loadable /\ loaded' = releases[current])
      BY <1>2 DEF SwitchService, ReloadProxy, Load
    <2> QED BY <1>a, <1>b, <2>1, <2>2
  <1>3. CASE OpenRelease(l) \/ WriteRelease(l)
    <2> DEFINE g == IF pc[l] = "open" THEN counter + 1 ELSE c.gen
    <2>1. UNCHANGED <<acct, loaded, current>> /\ g \in Gens /\ \E r : releases' = [releases EXCEPT ![g] = r]
      BY <1>3, <1>t, GensAre DEF OpenRelease, WriteRelease, NextGeneration, CtxKnows, Remove, ProxyTyped, tables
    <2>2. current = counter /\ g = counter + 1 BY <1>3, <1>k DEF OpenRelease, WriteRelease, LinkKnown
    <2>3. releases'[current] = releases[current] BY <1>t, <1>k, <1>m, <2>1, <2>2, OneRelease
    <2> QED BY <1>a, <1>b, <2>1, <2>3
  <1>4. CASE SwitchCurrent(l)
    <2>1. UNCHANGED <<acct, dom, loaded, releases>> /\ current' = c.gen BY <1>4, <1>n DEF SwitchCurrent, tables
    <2>2. releases[c.gen] = DbRoutes BY <1>4 DEF SwitchCurrent, ReleaseKnown
    <2>3. Sound(releases[c.gen]) BY <2>2, DbRoutesSound
    <2>4. Named' BY <2>1, <2>3 DEF Named, Sound
    <2> QED BY <1>a, <2>1, <2>4
  <1>5. CASE CheckRelease(l)
    <2>1. UNCHANGED <<acct, loaded>> BY <1>5 DEF CheckRelease, tables
    <2>2. releases[c.gen] \in Routing BY <1>5, DbRoutesTyped DEF CheckRelease, ReleaseKnown
    <2>3. UNCHANGED <<releases, current>> BY <1>5, <2>2 DEF CheckRelease
    <2> QED BY <1>a, <1>b, <2>1, <2>3
  <1>6. CASE RecordGeneration(l)
    <2>1. /\ UNCHANGED <<acct, loaded, current>> /\ current = c.gen /\ c.gen \in Gens
          /\ releases[c.gen] \in Routing
      BY <1>6, <1>t, DbRoutesTyped DEF RecordGeneration, CtxKnows, ReleaseKnown, tables
    <2>2. releases' = [h \in Gens |-> IF h \in Kept(c.gen) THEN releases[h] ELSE None] BY <1>6, <1>n DEF RecordGeneration
    <2>3. c.gen \in Kept(c.gen) BY <2>1, RoutingIsNot DEF Kept
    <2> QED BY <1>a, <1>b, <2>1, <2>2, <2>3
  <1>7. CASE DropAccount(l)
    <2>0. pc[l] = "drop" /\ UNCHANGED <<releases, current, loaded>> BY <1>7 DEF DropAccount, layout
    <2>1. releases[current] = DbRoutes /\ (loaded = Down \/ loaded = DbRoutes)
      BY <1>g, <1>k, <2>0 DEF ReversibleAt, RollsBack, Agrees, Serves, LinkKnown
    <2>2. Owned(c.acct) = {} /\ c.acct \in Accounts BY <1>t, <2>0 DEF RowsKnown, CtxKnows
    <2>3. acct' = [acct EXCEPT ![c.acct] = None] BY <1>7, <1>n DEF DropAccount
    <2>4. Sound(DbRoutes) BY DbRoutesSound
    <2>5. ASSUME NEW d \in Domains, DbRoutes[d] # None PROVE acct'[DbRoutes[d].owner] = acct[DbRoutes[d].owner]
      <3>1. dom[d] # None /\ DbRoutes[d] = [owner |-> dom[d].owner, ip |-> acct[dom[d].owner], pp |-> dom[d].pp]
        BY <2>5 DEF DbRoutes
      <3>2. DbRoutes[d].owner = dom[d].owner BY <3>1
      <3>3. dom[d].owner # c.acct BY <2>2, <3>1 DEF Owned, OwnedBy
      <3> QED BY <1>t, <2>3, <3>2, <3>3 DEF TablesTyped
    <2> DEFINE D == DbRoutes
    <2>6. \A d \in Domains : D[d] # None => acct'[D[d].owner] = D[d].ip BY <2>4, <2>5 DEF Sound
    <2>7. releases'[current'] = D /\ (loaded' = Down \/ loaded' = D) BY <2>0, <2>1
    <2> HIDE DEF D
    <2> QED BY <2>6, <2>7 DEF Served, Named, Sound
  <1> QED BY <1>1, <1>2, <1>3, <1>4, <1>5, <1>6, <1>7 DEF LaneStep, Published

LEMMA SoundStays ==
    ASSUME RoutingTyped, Served, Named, CreateAccount \/ RestartService \/ UNCHANGED vars
    PROVE  Served' /\ Named'
  <1>1. /\ UNCHANGED <<releases, current>> /\ (UNCHANGED loaded \/ loaded' = Load(Down))
        /\ \A b \in Accounts : acct[b] # None => acct'[b] = acct[b]
    BY AccountsCome DEF RestartService, tables, layout, vars
  <1>2. ASSUME NEW routes \in Routing, Sound(routes)
        PROVE  \A d \in Domains : routes[d] # None => acct'[routes[d].owner] = routes[d].ip
    BY <1>1, <1>2, SoundLives
  <1>3. loaded \in Routing \cup {Down} BY DEF RoutingTyped, TypeOK
  <1>4. ASSUME loaded # Down PROVE \A d \in Domains : loaded[d] # None => acct'[loaded[d].owner] = loaded[d].ip
    BY <1>2, <1>3, <1>4 DEF Served
  <1>5. ASSUME Loadable
        PROVE  \A d \in Domains : releases[current][d] # None => acct'[releases[current][d].owner] = releases[current][d].ip
    BY <1>2, <1>5 DEF Named, Loadable
  <1>6. Named' BY <1>1, <1>5 DEF Named, Loadable, Sound
  <1>7. Served' BY <1>1, <1>4, <1>5 DEF Served, Sound, Load
  <1> QED BY <1>6, <1>7

-----------------------------------------------------------------------------
(* The invariant *)

LEMMA InvInitially ==
    ASSUME Init
    PROVE  RoutingInv
  <1>1. RoutingTyped BY RoutingInitially
  <1>2. \A l \in Lanes : pc[l] = "idle" BY DEF Init
  <1>3. Alone BY <1>2 DEF Alone
  <1>4. \A l \in Lanes : RowsKnown(pc[l], ctx[l]) /\ ReleaseKnown(pc[l], ctx[l]) BY <1>2, IdleKnows
  <1>5. NoRoutes \in Routing /\ DbRoutes = NoRoutes /\ releases[1] = NoRoutes /\ loaded = NoRoutes
    BY GensAre DEF Init, NoRoutes, Routing, DbRoutes
  <1>6. counter = 1 /\ current = 1 BY DEF Init
  <1>7. Agrees BY <1>5, <1>6 DEF Agrees, Serves
  <1>8. Tidy BY <1>2, <1>5, <1>6, GensAre DEF Tidy
  <1>9. Reversible BY <1>2, <1>7 DEF Reversible, RollsBack
  <1>10. Sound(NoRoutes) BY DEF Sound, NoRoutes
  <1>11. NothingFailed BY <1>5, <1>6, <1>10 DEF NothingFailed
  <1> QED BY <1>1, <1>3, <1>4, <1>8, <1>9, <1>11 DEF RoutingInv

LEMMA InvKept ==
    ASSUME OneAtATime, RoutingInv, [Next]_vars
    PROVE  RoutingInv'
  <1>a. RoutingTyped /\ Alone /\ Tidy /\ Reversible /\ NothingFailed BY DEF RoutingInv
  <1>k. \A l \in Lanes : RowsKnown(pc[l], ctx[l]) /\ ReleaseKnown(pc[l], ctx[l]) BY DEF RoutingInv
  <1>1. RoutingTyped' BY <1>a, RoutingTypedKept
  <1>2. Alone' BY <1>a, AloneKept
  <1>3. FaultsTyped /\ faulted \subseteq faulted' BY <1>a, TypedByParts, FaultsKept
  <1>s. faulted = {} => Served /\ Named BY <1>a DEF NothingFailed, Served, Named
  <1>i. \A l \in Lanes : pc'[l] = "idle" => RowsKnown(pc[l], ctx[l])' /\ ReleaseKnown(pc[l], ctx[l])'
    BY DEF RowsKnown, ReleaseKnown, After, Publishing
  <1>4. ASSUME NEW l \in Lanes, LaneStep(l) PROVE RoutingInv'
    <2>1. LaneAlone(l) /\ LaneAlone(l)' BY <1>4, <1>a, LaneIsAlone
    <2>2. RowsKnown(pc[l], ctx[l])' BY <1>4, <1>a, <1>k, RowsKept
    <2>3. ReleaseKnown(pc[l], ctx[l])' BY <1>4, <1>a, <1>k, <1>3, ReleaseLookedUp, ReleasePublished DEF LaneStep
    <2>4. \A m \in Lanes : RowsKnown(pc[m], ctx[m])' /\ ReleaseKnown(pc[m], ctx[m])'
      <3>1. ASSUME NEW m \in Lanes, m # l PROVE pc'[m] = "idle" BY <2>1, <3>1 DEF LaneAlone
      <3> QED BY <1>i, <2>2, <2>3, <3>1
    <2>5. Tidy' BY <1>4, <1>a, <1>k, <1>3, TidyKept
    <2>6. Reversible' BY <1>4, <1>a, <1>k, <1>3, ReversibleKept
    <2>7. NothingFailed'
      <3>1. ASSUME faulted' = {} PROVE Served' /\ Named' BY <1>4, <1>a, <1>k, <1>3, <1>s, <2>1, <3>1, SoundKept
      <3> QED BY <3>1 DEF NothingFailed, Served, Named
    <2> QED BY <1>1, <1>2, <2>4, <2>5, <2>6, <2>7 DEF RoutingInv
  <1>5. ASSUME CreateAccount \/ RestartService \/ UNCHANGED vars PROVE RoutingInv'
    <2>1. \A m \in Lanes : RowsKnown(pc[m], ctx[m])' /\ ReleaseKnown(pc[m], ctx[m])'
      BY <1>5, <1>a, <1>k, RowsStay, ReleaseStays
    <2>2. Tidy' BY <1>5, <1>a, TidyStays
    <2>3. Reversible' BY <1>5, <1>a, <1>k, ReversibleStays
    <2>4. NothingFailed'
      <3>1. ASSUME faulted' = {} PROVE Served' /\ Named' BY <1>5, <1>a, <1>3, <1>s, <3>1, SoundStays
      <3> QED BY <3>1 DEF NothingFailed, Served, Named
    <2> QED BY <1>1, <1>2, <2>1, <2>2, <2>3, <2>4 DEF RoutingInv
  <1>6. ASSUME NEW p \in Procs, Crash(p) PROVE RoutingInv'
    <2>1. "crash" \in faulted' BY <1>6 DEF Crash, Fails
    <2>2. UNCHANGED <<acct, dom, releases, current, loaded>> BY <1>6 DEF Crash, tables, layout
    <2>3. \A m \in Lanes : RowsKnown(pc[m], ctx[m])' /\ ReleaseKnown(pc[m], ctx[m])'
      <3>1. ASSUME NEW m \in Lanes PROVE pc'[m] = "idle" \/ (pc'[m] = pc[m] /\ ctx'[m] = ctx[m]) BY <1>6 DEF Crash
      <3>2. ASSUME NEW m \in Lanes, pc'[m] = pc[m], ctx'[m] = ctx[m] PROVE RowsKnown(pc[m], ctx[m])'
        <4>1. \A a : Owned(a)' = Owned(a) BY <2>2 DEF Owned, OwnedBy
        <4>2. Owned(ctx[m].acct)' = Owned(ctx[m].acct) BY <3>2, <4>1 DEF Owned, OwnedBy
        <4> QED BY <1>3, <1>k, <2>2, <3>2, <4>2 DEF RowsKnown
      <3>3. ASSUME NEW m \in Lanes, pc'[m] = pc[m], ctx'[m] = ctx[m] PROVE ReleaseKnown(pc[m], ctx[m])'
        <4>1. DbRoutes' = DbRoutes BY <2>2 DEF DbRoutes
        <4> QED BY <1>3, <1>k, <2>2, <3>3, <4>1 DEF ReleaseKnown, Serves
      <3> QED BY <1>i, <3>1, <3>2, <3>3
    <2>4. Tidy' BY <2>1 DEF Tidy, Clean
    <2>5. Reversible' BY <2>1 DEF Reversible
    <2>6. NothingFailed' BY <2>1 DEF NothingFailed
    <2> QED BY <1>1, <1>2, <2>3, <2>4, <2>5, <2>6 DEF RoutingInv
  <1> QED BY NextIs, <1>4, <1>5, <1>6 DEF LaneStep

LEMMA InvHolds ==
    ASSUME OneAtATime
    PROVE  Spec => []RoutingInv
  <1>1. Init => RoutingInv BY InvInitially
  <1>2. RoutingInv /\ [Next]_vars => RoutingInv' BY InvKept
  <1> QED BY <1>1, <1>2, PTL DEF Spec

-----------------------------------------------------------------------------
(* What follows *)

\* Handlers that meet no failure, one at a time, never make a domain be served
\* from the container of an account it was not bound to, over any sequence of
\* them and whichever addresses are used again.
THEOREM RoutesReachOwners ==
    ASSUME OneAtATime
    PROVE  Spec => []RoutedToOwner
  <1>1. ASSUME RoutingInv PROVE RoutedToOwner
    <2> SUFFICES ASSUME faulted = {}, loaded # Down, NEW d \in Domains, NEW a \in Accounts,
                        loaded[d] # None, loaded[d].ip = acct[a]
                 PROVE  loaded[d].owner = a
      BY DEF RoutedToOwner, NoForeignRoute
    <2>1. RoutingTyped /\ NothingFailed BY <1>1 DEF RoutingInv
    <2>2. loaded \in Routing /\ Sound(loaded) BY <2>1 DEF RoutingTyped, TypeOK, NothingFailed
    <2>3. loaded[d].owner \in Accounts /\ acct[loaded[d].owner] = loaded[d].ip /\ acct[loaded[d].owner] # None
      BY <2>2, SoundLives
    <2> QED BY <2>1, <2>3 DEF RoutingTyped
  <1> QED BY <1>1, InvHolds, PTL

\* Whatever failed before, a handler that has published and reloaded without an
\* error leaves the link on the routes of the database, and a service that runs
\* serves them.
THEOREM SuccessIsServed ==
    ASSUME OneAtATime
    PROVE  Spec => []ServedOnSuccess
  <1>1. ASSUME RoutingInv PROVE ServedOnSuccess
    <2>1. RoutingTyped BY <1>1 DEF RoutingInv
    <2>2. DbRoutes \in Routing BY <2>1, DbRoutesTyped
    <2>3. \A l \in Lanes : ReleaseKnown(pc[l], ctx[l]) BY <1>1 DEF RoutingInv
    <2> QED BY <2>2, <2>3 DEF ServedOnSuccess, ReleaseKnown, Serves, Loadable
  <1> QED BY <1>1, InvHolds, PTL

\* Del removes an account it found domains for only when nothing routes to it.
THEOREM WithdrawalComesFirst ==
    ASSUME OneAtATime
    PROVE  Spec => []WithdrawnFirst
  <1>1. ASSUME RoutingInv PROVE WithdrawnFirst
    <2> SUFFICES ASSUME NEW l \in Lanes, pc[l] = "drop", ctx[l].had, "probe" \notin faulted, loaded # Down,
                        NEW d \in Domains, loaded[d] # None, loaded[d].ip = acct[ctx[l].acct]
                 PROVE  FALSE
      BY DEF WithdrawnFirst
    <2>1. RoutingTyped /\ RowsKnown(pc[l], ctx[l]) /\ ReleaseKnown(pc[l], ctx[l]) BY <1>1 DEF RoutingInv
    <2>2. loaded = DbRoutes BY <2>1 DEF ReleaseKnown, Serves
    <2>3. Owned(ctx[l].acct) = {} /\ ctx[l].acct \in Accounts BY <2>1 DEF RowsKnown, RoutingTyped, CtxKnows
    <2>4. dom[d] # None /\ loaded[d] = [owner |-> dom[d].owner, ip |-> acct[dom[d].owner], pp |-> dom[d].pp]
      BY <2>2 DEF DbRoutes
    <2>5. loaded[d].ip = acct[dom[d].owner] BY <2>4
    <2>6. dom[d].owner \in Accounts /\ acct[dom[d].owner] # None BY <2>1, <2>4 DEF RoutingTyped, TypeOK, Row
    <2>7. dom[d].owner = ctx[l].acct BY <2>1, <2>3, <2>5, <2>6 DEF RoutingTyped
    <2> QED BY <2>3, <2>4, <2>7 DEF Owned, OwnedBy
  <1> QED BY <1>1, InvHolds, PTL

\* Unless a process died, the counter could not be written or a sync of the
\* directory failed, the link names a release the service can load, but for the
\* moment in which a candidate is being checked.
THEOREM LinkIsLoadable ==
    ASSUME OneAtATime
    PROVE  Spec => []AlwaysLoadable
  <1>1. ASSUME RoutingInv PROVE AlwaysLoadable
    <2> SUFFICES ASSUME Clean, \A l \in Lanes : pc[l] # "check" PROVE Loadable
      BY DEF AlwaysLoadable, CurrentComplete, Clean
    <2>1. RoutingTyped /\ Tidy BY <1>1 DEF RoutingInv
    <2>2. counter \in Gens /\ counter # None /\ releases[counter] \in Routing BY <2>1, MarksAssumption DEF Tidy
    <2>3. CASE \A l \in Lanes : pc[l] = "idle" BY <2>1, <2>2, <2>3 DEF Tidy, Loadable
    <2>4. ASSUME NEW l \in Lanes, pc[l] # "idle" PROVE Loadable
      <3>1. LinkKnown(pc[l], ctx[l]) /\ ReleaseKnown(pc[l], ctx[l]) BY <1>1, <2>1, <2>4 DEF Tidy, RoutingInv
      <3>2. CASE pc[l] = "record"
        <4>1. ctx[l].gen \in Gens BY <2>1, <3>2 DEF RoutingTyped, CtxKnows
        <4>2. current = ctx[l].gen /\ releases[current] \in Routing
          BY <2>1, <3>1, <3>2, DbRoutesTyped DEF ReleaseKnown
        <4> QED BY <4>1, <4>2, MarksAssumption DEF Loadable
      <3>3. CASE pc[l] # "record" BY <2>2, <3>1, <3>3 DEF LinkKnown, Loadable
      <3> QED BY <3>2, <3>3
    <2> QED BY <2>3, <2>4
  <1> QED BY <1>1, InvHolds, PTL

\* When no handler is in flight and nothing failed but checks and writes of
\* releases, the published release says what the database says and a service
\* that runs serves it.
THEOREM RoutesStayInStep ==
    ASSUME OneAtATime
    PROVE  Spec => []RoutesAgree
  <1>1. ASSUME RoutingInv PROVE RoutesAgree
    <2> SUFFICES ASSUME Busy = {}, faulted \subseteq {"check", "write"}
                 PROVE  Loadable /\ releases[current] = DbRoutes /\ loaded \in {Down, DbRoutes}
      BY DEF RoutesAgree
    <2>1. \A l \in Lanes : pc[l] = "idle" BY DEF Busy
    <2>2. Tidy /\ Reversible BY <1>1 DEF RoutingInv
    <2>3. counter \in Gens /\ counter # None /\ releases[counter] \in Routing /\ current = counter
      BY <2>1, <2>2, MarksAssumption DEF Tidy, Clean
    <2>4. Agrees BY <2>1, <2>2 DEF Reversible
    <2> QED BY <2>3, <2>4 DEF Agrees, Serves, Loadable
  <1> QED BY <1>1, InvHolds, PTL

\* Nor is the release that the link names ever edited: only the link moves.
THEOREM LiveIsUntouched ==
    ASSUME OneAtATime
    PROVE  Spec => LiveUntouched
  <1> DEFINE Untouched == faulted' \cap {"crash", "counter", "switch"} = {} /\ Loadable
                          => current' # current \/ releases'[current] = releases[current]
  <1>1. ASSUME RoutingInv, [Next]_vars PROVE [Untouched]_vars
    <2>a. RoutingTyped /\ Alone /\ Tidy BY <1>1 DEF RoutingInv
    <2>t. ProxyTyped /\ FaultsTyped BY <2>a, TypedByParts
    <2> SUFFICES ASSUME Clean', Loadable PROVE current' # current \/ releases'[current] = releases[current]
      BY DEF Clean
    <2>f. faulted \subseteq faulted' BY <1>1, <2>t, FaultsKept
    <2>c. Clean BY <2>f, StaysClean
    <2>1. ASSUME NEW l \in Lanes, LaneStep(l), ~Published(l) PROVE UNCHANGED layout
      BY <2>1 DEF LaneStep, Lookups, AddDomainLookup, DelDomainLookup, SetDomainProtocolLookup, SyncAllDomains,
                  DelLookup, ApplyHaproxyState, Edited, AddDomainInsert, DelDomainDelete, SetDomainProtocolUpdate,
                  DelRows, Undo, ListAllDomains, SwitchService, ReloadProxy, Done, DropAccount
    <2>2. ASSUME NEW l \in Lanes, Published(l) PROVE current' # current \/ releases'[current] = releases[current]
      <3> DEFINE c == ctx[l]
      <3>k. ReleaseKnown(pc[l], c) /\ CtxKnows(pc[l], c) /\ ctx[l] \in CtxStates
        BY <1>1, <2>a DEF RoutingInv, RoutingTyped
      <3>0. LaneAlone(l)
        BY <1>1, <2>2, <2>a, LaneIsAlone DEF LaneStep
      <3>1. counter \in Gens /\ LinkKnown(pc[l], c) BY <2>a, <2>c, <3>0, TidyHere DEF TidyAt
      <3>2. counter \in Nat BY <3>1, GensAre
      <3>3. CASE OpenRelease(l) \/ WriteRelease(l)
        <4> DEFINE g == IF pc[l] = "open" THEN counter + 1 ELSE c.gen
        <4>1. g \in Gens /\ \E r : releases' = [releases EXCEPT ![g] = r]
          BY <2>t, <3>3, <3>k, GensAre DEF OpenRelease, WriteRelease, NextGeneration, CtxKnows, Remove, ProxyTyped
        <4>2. current = counter /\ g = counter + 1 BY <3>1, <3>3 DEF OpenRelease, WriteRelease, LinkKnown
        <4> QED BY <2>t, <3>1, <3>2, <4>1, <4>2, OneRelease
      <3>4. CASE SwitchCurrent(l)
        <4>1. ~Fails("switch") BY DEF Clean, Fails
        <4> QED BY <3>4, <4>1 DEF SwitchCurrent
      <3>5. CASE CheckRelease(l)
        <4>1. current = c.gen /\ c.gen = counter + 1 /\ c.prev = counter
          BY <3>1, <3>5, <3>k DEF CheckRelease, LinkKnown, ReleaseKnown
        <4>2. ~Fails("switch") BY DEF Clean, Fails
        <4>3. UNCHANGED releases \/ current' = c.prev BY <3>5, <4>2 DEF CheckRelease
        <4> QED BY <3>2, <4>1, <4>3
      <3>6. CASE RecordGeneration(l)
        <4>1. ~Fails("counter") BY DEF Clean, Fails
        <4>2. /\ current = c.gen /\ c.gen \in Gens /\ releases[c.gen] # None
          BY <2>a, <3>6, <3>k, DbRoutesTyped, RoutingIsNot DEF RecordGeneration, ReleaseKnown, CtxKnows
        <4>3. releases' = [h \in Gens |-> IF h \in Kept(c.gen) THEN releases[h] ELSE None]
          BY <3>6, <4>1 DEF RecordGeneration
        <4>4. c.gen \in Kept(c.gen) BY <4>2 DEF Kept
        <4> QED BY <4>2, <4>3, <4>4
      <3> QED BY <2>2, <3>3, <3>4, <3>5, <3>6 DEF Published
    <2>3. ASSUME CreateAccount \/ RestartService \/ (\E p \in Procs : Crash(p)) \/ UNCHANGED vars PROVE UNCHANGED layout
      BY <2>3 DEF CreateAccount, RestartService, Crash, vars, layout
    <2> QED BY <1>1, <2>1, <2>2, <2>3, NextIs DEF LaneStep, layout
  <1>2. Spec => [][Untouched]_vars BY <1>1, InvHolds, PTL DEF Spec
  <1> QED BY <1>2 DEF LiveUntouched

=============================================================================
