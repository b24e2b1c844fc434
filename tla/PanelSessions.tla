---------------------------- MODULE PanelSessions ----------------------------
(***************************************************************************)
(* Passwords, colours and sessions of the accounts of one user group       *)
(* (panel/handlers.go, admin/handlers.go, mgr/mgr.go, mgr/group.go,        *)
(* db/session.go, db/group.go), as the panel daemon serves them.           *)
(*                                                                         *)
(*   member    the rows of the group: id, password hash and colour, and    *)
(*             whether the group's colour has reached the row (a history:  *)
(*             at the end of Add, or by SetGroupColor)                     *)
(*   logins    the rows of the sessions table                              *)
(*   request   what each request in flight has read                        *)
(*   opHolder  the request that holds Manager.opMu                         *)
(*                                                                         *)
(* sessions.user_id REFERENCES users(id) ON DELETE CASCADE, and an id is   *)
(* never used twice: a session inserted for a row that has gone is refused.*)
(***************************************************************************)
EXTENDS Host

CONSTANTS
    Members,    \* account names of one group
    Requests,   \* concurrent requests of the daemon
    NoAccount,
    Tokens,     \* what tokens are drawn from: never one something still names
    Ids,        \* users.id values: likewise
    Hashes,     \* password hashes: likewise
    Colors      \* the palette without ""

MemberRows == [id: Ids, hash: Hashes, color: Colors \cup {None}, reached: {"yes", "no"}]

ASSUME SessionsAssumption ==
    /\ None \notin Tokens \cup Ids \cup Hashes \cup Colors \cup Requests \cup Members
    /\ NoAccount \notin MemberRows

\* There are more ids and hashes than can be in use at once.
ASSUME FreshAssumption ==
    /\ IsFiniteSet(Members) /\ IsFiniteSet(Requests) /\ IsFiniteSet(Ids) /\ IsFiniteSet(Hashes)
    /\ Cardinality(Ids) > Cardinality(Members) + Cardinality(Requests)
    /\ Cardinality(Hashes) > Cardinality(Members)

VARIABLES member, logins, request, opHolder

sessionVars == <<member, logins, request, opHolder>>

NoRequest == [at |-> "idle", who |-> None, id |-> None, old |-> None, new |-> None,
         hash |-> None]

Exists(n) == member[n] # NoAccount
Group == {n \in Members : Exists(n)}

UnusedToken == CHOOSE t \in Tokens : /\ \A s \in logins : s.token # t
                                     /\ \A r \in Requests : t \notin {request[r].old, request[r].new}

TokenLeft == \E t \in Tokens : /\ \A s \in logins : s.token # t
                               /\ \A r \in Requests : t \notin {request[r].old, request[r].new}

UnusedId == CHOOSE i \in Ids : /\ \A n \in Group : member[n].id # i
                               /\ \A r \in Requests : request[r].id # i

FreshHash == CHOOSE h \in Hashes : \A n \in Group : member[n].hash # h

SessionsInit ==
    /\ member = [n \in Members |-> NoAccount] /\ logins = {}
    /\ request = [r \in Requests |-> NoRequest] /\ opHolder = None

BeginRequest(r, rec) == request[r] = NoRequest /\ request' = [request EXCEPT ![r] = rec]
Respond(r) == request' = [request EXCEPT ![r] = NoRequest]
Lock(r) == opHolder = None /\ opHolder' = r
Unlock == opHolder' = None

-----------------------------------------------------------------------------
(* Sessions *)

\* handleLogin with the right password, and handleLoginAs: the row is read and
\* checked, then the session is created.
Login(r, n) ==
    /\ Exists(n)
    /\ BeginRequest(r, [NoRequest EXCEPT !.at = "create", !.who = n, !.id = member[n].id])
    /\ UNCHANGED <<member, logins, opHolder>>

\* handleSwitchUser with session s: the group is read and holds the target.
SwitchUser(r, s, n) ==
    /\ Exists(n)
    /\ BeginRequest(r, [NoRequest EXCEPT !.at = "create", !.who = n, !.id = member[n].id,
                             !.old = s.token])
    /\ UNCHANGED <<member, logins, opHolder>>

\* createSession.
NameExists(q) == Exists(q.who)                                     \* mutant
Accepts(q) == Exists(q.who) /\ member[q.who].id = q.id
CreateSession(r) ==
    LET q == request[r] t == UnusedToken IN
    /\ q.at = "create"
    /\ \/ /\ Accepts(q) /\ TokenLeft
          /\ logins' = logins \cup {[token |-> t, who |-> q.who, id |-> q.id]}
          /\ IF q.old = None THEN Respond(r)
             ELSE request' = [request EXCEPT ![r].at = "drop_old", ![r].new = t]
       \/ (~Accepts(q) \/ CanFail("db")) /\ Respond(r) /\ UNCHANGED logins
    /\ UNCHANGED <<member, opHolder>>

\* The rest of handleSwitchUser: the old session goes, or else the new one.
DropOld(r) ==
    LET q == request[r] IN
    /\ q.at = "drop_old" /\ Respond(r)
    /\ \/ logins' = {s \in logins : s.token # q.old}
       \/ CanFail("db") /\ logins' = {s \in logins : s.token # q.new}
    /\ UNCHANGED <<member, opHolder>>

\* handleLogout, or SessionWithFlag when a session comes back after its deadline
\* (until it does, it opens nothing and is as good as gone).
DeleteSession(s) ==
    /\ logins' = logins \ {s}
    /\ UNCHANGED <<member, request, opHolder>>

-----------------------------------------------------------------------------
(* Operations that hold opMu: Add, Del, ChangePanelPassword, SetGroupColor *)

\* Add: a new group gets a fresh hash, a new member the hash of the group's.
InheritedHash == IF Group = {} THEN {FreshHash} ELSE {member[n].hash : n \in Group}

AddMember(r, n) ==
    /\ ~Exists(n) /\ Lock(r)
    /\ \E h \in InheritedHash :
          BeginRequest(r, [NoRequest EXCEPT !.at = "insert", !.who = n, !.hash = h])
    /\ UNCHANGED <<member, logins>>

\* The container is made in between, which may fail.
InsertMember(r) ==
    LET q == request[r] IN
    /\ q.at = "insert"
    /\ \/ /\ member' = [member EXCEPT ![q.who] = [id |-> UnusedId, hash |-> q.hash, color |-> None,
                                                  reached |-> "no"]]
          /\ request' = [request EXCEPT ![r].at = "color"] /\ UNCHANGED opHolder
       \/ CanFail("create") /\ Respond(r) /\ Unlock /\ UNCHANGED member
    /\ UNCHANGED logins

\* The end of Add: the ready status is written and the group's colour inherited.
\* When the status or the colour cannot be written, or cleanup gives up, the row
\* stays as it is; when the rules cannot be loaded, cleanup deletes it.
InheritedColor(n) ==
    LET others == {m \in Group \ {n} : member[m].color # None} IN
    IF others = {} THEN {None} ELSE {member[m].color : m \in others}

DropMember(n) ==
    member' = [member EXCEPT ![n] = NoAccount] /\ logins' = {s \in logins : s.who # n}

InheritGroupColor(r) ==
    LET n == request[r].who IN
    /\ request[r].at = "color" /\ Respond(r) /\ Unlock
    /\ \/ /\ \E c \in InheritedColor(n) :
                member' = [member EXCEPT ![n].color = c, ![n].reached = "yes"]
          /\ UNCHANGED logins
       \/ CanFail("status") /\ UNCHANGED <<member, logins>>
       \/ CanFail("create") /\ DropMember(n)

DelMember(n) ==
    /\ opHolder = None /\ Exists(n)
    /\ DropMember(n)
    /\ UNCHANGED <<request, opHolder>>

\* ChangePanelPassword: who is in the group is read, then one transaction sets
\* the hash of each and drops its sessions but the one that asked (None: a
\* reset by the operator).
ChangePassword(r, n, keep) ==
    /\ Exists(n) /\ Lock(r)
    /\ BeginRequest(r, [NoRequest EXCEPT !.at = "set_hash", !.who = n, !.old = keep, !.hash = FreshHash])
    /\ UNCHANGED <<member, logins>>

UpdateUsersPassword(r) ==
    LET q == request[r] IN
    /\ q.at = "set_hash" /\ Respond(r) /\ Unlock
    /\ \/ /\ member' = [n \in Members |-> IF n \in Group
                                          THEN [member[n] EXCEPT !.hash = q.hash] ELSE member[n]]
          /\ logins' = {s \in logins : s.who \in Group => s.token = q.old}
       \/ CanFail("db") /\ UNCHANGED <<member, logins>>

SetGroupColor(c) ==
    /\ opHolder = None /\ Group # {}
    /\ member' = [n \in Members |-> IF Exists(n)
                                    THEN [member[n] EXCEPT !.color = c, !.reached = "yes"]
                                    ELSE NoAccount]
    /\ UNCHANGED <<logins, request, opHolder>>

\* The daemon is killed: its requests end where they are.
PanelKilled ==
    /\ CanFail("panel") /\ \E r \in Requests : request[r] # NoRequest
    /\ request' = [r \in Requests |-> NoRequest] /\ opHolder' = None
    /\ UNCHANGED <<member, logins>>

SessionsNext ==
    \/ \E r \in Requests :
          \/ \E n \in Members : Login(r, n)
          \/ \E s \in logins, n \in Members : SwitchUser(r, s, n)
          \/ CreateSession(r) \/ DropOld(r)
          \/ \E n \in Members : AddMember(r, n) \/ ChangePassword(r, n, None)
          \/ \E s \in logins : ChangePassword(r, s.who, s.token)
          \/ InsertMember(r) \/ InheritGroupColor(r) \/ UpdateUsersPassword(r)
    \/ \E n \in Members : DelMember(n)
    \/ \E c \in Colors \cup {None} : SetGroupColor(c)
    \/ \E s \in logins : DeleteSession(s)
    \/ PanelKilled

SessionsSpec == SessionsInit /\ [][SessionsNext]_sessionVars

-----------------------------------------------------------------------------
(* Properties *)

SessionsTypeOK ==
    /\ \A n \in Group : member[n] \in MemberRows
    /\ \A s \in logins : s.token \in Tokens /\ s.who \in Members
    /\ opHolder \in Requests \cup {None}

\* "The panel password is shared by a user group": the accounts of a group have
\* one password hash, and those that the group's colour has reached have one
\* colour, over creations that read the hash long before they insert the row, and
\* that fail or die at any call, and changes of the group's password and colour
\* (Add, ChangePanelPassword, SetGroupColor).
GroupAgrees ==
    \A m, n \in Group :
        /\ member[m].hash = member[n].hash
        /\ member[m].reached = "yes" /\ member[n].reached = "yes"
              => member[m].color = member[n].color

\* A session opens the account it was created for, never a later account of the
\* same name, over logins and switches that race its deletion (createSession).
SessionOfRow == \A s \in logins : Exists(s.who) /\ member[s.who].id = s.id

\* What the group's passwords and sessions promise.
SessionsSafe == GroupAgrees /\ SessionOfRow

=============================================================================
