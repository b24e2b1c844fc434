---------------------------- MODULE Panel_proofs ----------------------------
(***************************************************************************)
(* Theorems about the panels: sessions and passwords, the web terminal,    *)
(* batch jobs, and the database they open.                                 *)
(***************************************************************************)
EXTENDS PanelSessions, AdminSessions, Terminal, PtyStream, BatchJob, Migrations,
        FiniteSetTheorems, TLAPS

-----------------------------------------------------------------------------
(***************************************************************************)
(* Passwords, colours and sessions of a group (PanelSessions)              *)
(***************************************************************************)

RequestStates ==
    [at : {"idle", "create", "drop_old", "insert", "color", "set_hash"},
     who : Members \cup {None}, id : Ids \cup {None}, old : Tokens \cup {None},
     new : Tokens \cup {None}, hash : Hashes \cup {None}]

\* SessionsTypeOK, with the types of the requests and what each of them names.
SessTyped ==
    /\ member \in [Members -> MemberRows \cup {NoAccount}]
    /\ logins \subseteq [token : Tokens, who : Members, id : Ids]
    /\ request \in [Requests -> RequestStates]
    /\ opHolder \in Requests \cup {None}
    /\ \A r \in Requests :
          /\ request[r].at \in {"create", "insert", "color"} => request[r].who \in Members
          /\ request[r].at = "create" => request[r].id \in Ids
          /\ request[r].at \in {"insert", "set_hash"} => request[r].hash \in Hashes

\* Who holds Manager.opMu, and what that keeps from happening to the name.
SessHeld ==
    \A r \in Requests :
        /\ request[r].at \in {"insert", "color", "set_hash"} => opHolder = r
        /\ request[r].at = "insert" => ~Exists(request[r].who)
        /\ request[r].at = "color" => Exists(request[r].who)

\* Fewer things than there are values leave a value over.
LEMMA SomeLeft ==
    ASSUME NEW S, NEW T, IsFiniteSet(S), IsFiniteSet(T), Cardinality(T) < Cardinality(S)
    PROVE  \E x \in S : x \notin T
  <1>1. SUFFICES ASSUME S \subseteq T PROVE FALSE
    OBVIOUS
  <1>2. Cardinality(S) <= Cardinality(T) BY <1>1, FS_Subset
  <1>3. Cardinality(S) \in Nat /\ Cardinality(T) \in Nat BY FS_CardinalityType
  <1> QED BY <1>2, <1>3

LEMMA RangeSmall ==
    ASSUME NEW S, IsFiniteSet(S), NEW f, f \in [S -> {f[x] : x \in S}]
    PROVE  /\ IsFiniteSet({f[x] : x \in S}) /\ Cardinality({f[x] : x \in S}) \in Nat
           /\ Cardinality({f[x] : x \in S}) <= Cardinality(S)
  <1> DEFINE T == {f[x] : x \in S}
  <1>1. f \in Surjection(S, T) BY DEF Surjection
  <1>2. IsFiniteSet(T) /\ Cardinality(T) <= Cardinality(S) BY <1>1, FS_Surjection
  <1> QED BY <1>2, FS_CardinalityType

LEMMA IdLeft == UnusedId \in Ids
  <1> DEFINE f == [n \in Members |-> member[n].id]
             g == [r \in Requests |-> request[r].id]
             F == {f[n] : n \in Members}
             G == {g[r] : r \in Requests}
  <1>1. IsFiniteSet(F) /\ Cardinality(F) \in Nat /\ Cardinality(F) <= Cardinality(Members)
    <2>1. f \in [Members -> F] OBVIOUS
    <2> HIDE DEF f
    <2> QED BY <2>1, RangeSmall, FreshAssumption
  <1>2. IsFiniteSet(G) /\ Cardinality(G) \in Nat /\ Cardinality(G) <= Cardinality(Requests)
    <2>1. g \in [Requests -> G] OBVIOUS
    <2> HIDE DEF g
    <2> QED BY <2>1, RangeSmall, FreshAssumption
  <1> HIDE DEF F, G
  <1>3. IsFiniteSet(F \cup G) /\ Cardinality(F \cup G) <= Cardinality(F) + Cardinality(G)
    <2>1. IsFiniteSet(F \cap G) BY <1>1, FS_Intersection
    <2>2. Cardinality(F \cap G) \in Nat BY <2>1, FS_CardinalityType
    <2> QED BY <1>1, <1>2, <2>2, FS_Union
  <1>4. Cardinality(F \cup G) < Cardinality(Ids)
    <2>1. Cardinality(F \cup G) \in Nat BY <1>3, FS_CardinalityType
    <2>2. /\ Cardinality(Ids) \in Nat /\ Cardinality(Members) \in Nat
          /\ Cardinality(Requests) \in Nat
      BY FreshAssumption, FS_CardinalityType
    <2> QED BY <1>1, <1>2, <1>3, <2>1, <2>2, FreshAssumption
  <1>5. \E i \in Ids : i \notin F \cup G BY <1>3, <1>4, SomeLeft, FreshAssumption
  <1>6. \E i \in Ids : /\ \A n \in Group : member[n].id # i
                       /\ \A r \in Requests : request[r].id # i
    BY <1>5 DEF F, G, Group
  <1> QED BY <1>6 DEF UnusedId

LEMMA HashLeft == FreshHash \in Hashes
  <1> DEFINE f == [n \in Members |-> member[n].hash]
             F == {f[n] : n \in Members}
  <1>1. IsFiniteSet(F) /\ Cardinality(F) \in Nat /\ Cardinality(F) <= Cardinality(Members)
    <2>1. f \in [Members -> F] OBVIOUS
    <2> HIDE DEF f
    <2> QED BY <2>1, RangeSmall, FreshAssumption
  <1> HIDE DEF F
  <1>2. Cardinality(F) < Cardinality(Hashes)
    <2>1. Cardinality(Hashes) \in Nat /\ Cardinality(Members) \in Nat
      BY FreshAssumption, FS_CardinalityType
    <2> QED BY <1>1, <2>1, FreshAssumption
  <1>3. \E h \in Hashes : h \notin F BY <1>1, <1>2, SomeLeft, FreshAssumption
  <1>4. \E h \in Hashes : \A n \in Group : member[n].hash # h BY <1>3 DEF F, Group
  <1> QED BY <1>4 DEF FreshHash

LEMMA SessTypedInitially == SessionsInit => SessTyped
  BY DEF SessionsInit, SessTyped, RequestStates, NoRequest

LEMMA SessTypedKept ==
    ASSUME SessTyped, SessHeld, [SessionsNext]_sessionVars
    PROVE  SessTyped'
  <1> USE DEF SessTyped
  <1>n. NoRequest \in RequestStates /\ NoRequest.at = "idle"
    BY DEF NoRequest, RequestStates
  <1>1. ASSUME NEW r \in Requests, NEW n \in Members, Login(r, n) PROVE SessTyped'
    <2>1. [NoRequest EXCEPT !.at = "create", !.who = n, !.id = member[n].id] \in RequestStates
          /\ member[n].id \in Ids
      BY <1>1 DEF Login, Exists, MemberRows, NoRequest, RequestStates
    <2> QED BY <1>1, <2>1 DEF Login, BeginRequest, NoRequest
  <1>2. ASSUME NEW r \in Requests, NEW s \in logins, NEW n \in Members, SwitchUser(r, s, n)
        PROVE  SessTyped'
    <2>1. [NoRequest EXCEPT !.at = "create", !.who = n, !.id = member[n].id, !.old = s.token]
             \in RequestStates
          /\ member[n].id \in Ids
      BY <1>2 DEF SwitchUser, Exists, MemberRows, NoRequest, RequestStates
    <2> QED BY <1>2, <2>1 DEF SwitchUser, BeginRequest, NoRequest
  <1>3. ASSUME NEW r \in Requests, CreateSession(r) PROVE SessTyped'
    <2>1. UNCHANGED <<member, opHolder>> /\ request[r].at = "create" BY <1>3 DEF CreateSession
    <2>2. CASE Respond(r) /\ UNCHANGED logins BY <2>1, <2>2, <1>n DEF Respond
    <2>3. CASE Accepts(request[r]) /\ TokenLeft /\ ~(Respond(r) /\ UNCHANGED logins)
      <3>1. UnusedToken \in Tokens BY <2>3 DEF TokenLeft, UnusedToken
      <3>2. logins' = logins \cup {[token |-> UnusedToken, who |-> request[r].who,
                                    id |-> request[r].id]}
            /\ (Respond(r) \/ request' = [request EXCEPT ![r].at = "drop_old", ![r].new = UnusedToken])
        BY <1>3, <2>3 DEF CreateSession
      <3>3. logins' \subseteq [token : Tokens, who : Members, id : Ids]
        BY <2>1, <3>1, <3>2
      <3>4. request' \in [Requests -> RequestStates]
            /\ (\A q \in Requests : q # r => request'[q] = request[q])
            /\ request'[r].at \in {"drop_old", "idle"}
        <4>1. CASE Respond(r) BY <4>1, <1>n DEF Respond
        <4>2. CASE request' = [request EXCEPT ![r].at = "drop_old", ![r].new = UnusedToken]
          <5>1. [request[r] EXCEPT !.at = "drop_old", !.new = UnusedToken] \in RequestStates
            BY <3>1 DEF RequestStates
          <5>2. request' = [request EXCEPT ![r] =
                              [request[r] EXCEPT !.at = "drop_old", !.new = UnusedToken]]
            BY <4>2
          <5>3. [request[r] EXCEPT !.at = "drop_old", !.new = UnusedToken].at = "drop_old"
            BY DEF RequestStates
          <5> QED BY <5>1, <5>2, <5>3
        <4> QED BY <3>2, <4>1, <4>2
      <3> QED BY <2>1, <3>3, <3>4
    <2> QED BY <1>3, <2>2, <2>3 DEF CreateSession
  <1>4. ASSUME NEW r \in Requests, DropOld(r) PROVE SessTyped'
    BY <1>4, <1>n DEF DropOld, Respond
  <1>5. ASSUME NEW r \in Requests, NEW n \in Members, AddMember(r, n) PROVE SessTyped'
    <2>1. PICK h \in InheritedHash :
             request' = [request EXCEPT ![r] = [NoRequest EXCEPT !.at = "insert", !.who = n, !.hash = h]]
      BY <1>5 DEF AddMember, BeginRequest
    <2>2. h \in Hashes
      BY HashLeft DEF InheritedHash, Group, Exists, MemberRows
    <2>3. [NoRequest EXCEPT !.at = "insert", !.who = n, !.hash = h] \in RequestStates
      BY <2>2 DEF NoRequest, RequestStates
    <2> QED BY <1>5, <2>1, <2>2, <2>3 DEF AddMember, Lock, NoRequest
  <1>6. ASSUME NEW r \in Requests, NEW n \in Members, NEW keep \in Tokens \cup {None},
               ChangePassword(r, n, keep)
        PROVE  SessTyped'
    <2>1. [NoRequest EXCEPT !.at = "set_hash", !.who = n, !.old = keep, !.hash = FreshHash]
             \in RequestStates
      BY HashLeft DEF NoRequest, RequestStates
    <2> QED BY <1>6, <2>1, HashLeft DEF ChangePassword, BeginRequest, Lock, NoRequest
  <1>7. ASSUME NEW r \in Requests, InsertMember(r) PROVE SessTyped'
    <2>1. CASE Respond(r) /\ Unlock /\ UNCHANGED member
      BY <1>7, <2>1, <1>n DEF InsertMember, Respond, Unlock
    <2>2. CASE /\ member' = [member EXCEPT ![request[r].who] =
                               [id |-> UnusedId, hash |-> request[r].hash, color |-> None,
                                reached |-> "no"]]
               /\ request' = [request EXCEPT ![r].at = "color"] /\ UNCHANGED opHolder
      <3>1. request[r].who \in Members /\ request[r].hash \in Hashes /\ UNCHANGED logins
        BY <1>7 DEF InsertMember
      <3>2. [id |-> UnusedId, hash |-> request[r].hash, color |-> None,
                                reached |-> "no"] \in MemberRows
        BY <3>1, IdLeft DEF MemberRows
      <3>3. member' \in [Members -> MemberRows \cup {NoAccount}] BY <2>2, <3>1, <3>2
      <3>4. request' \in [Requests -> RequestStates] BY <2>2 DEF RequestStates
      <3>5. request'[r].who = request[r].who /\ request'[r].at = "color"
            /\ \A q \in Requests : q # r => request'[q] = request[q]
        BY <2>2 DEF RequestStates
      <3> QED BY <2>2, <3>1, <3>3, <3>4, <3>5
    <2> QED BY <1>7, <2>1, <2>2 DEF InsertMember
  <1>8. ASSUME NEW r \in Requests, InheritGroupColor(r) PROVE SessTyped'
    <2>1. Respond(r) /\ Unlock /\ request[r].who \in Members BY <1>8 DEF InheritGroupColor
    <2>2. logins' \subseteq logins BY <1>8 DEF InheritGroupColor, DropMember
    <2>3. member' \in [Members -> MemberRows \cup {NoAccount}]
      <3>1. CASE member' = [member EXCEPT ![request[r].who] = NoAccount] BY <3>1
      <3>2. ASSUME NEW c \in InheritedColor(request[r].who),
                   member' = [member EXCEPT ![request[r].who].color = c,
                                            ![request[r].who].reached = "yes"]
            PROVE  member' \in [Members -> MemberRows \cup {NoAccount}]
        <4>1. c \in Colors \cup {None}
          BY DEF InheritedColor, Group, Exists, MemberRows
        <4>2. member[request[r].who] \in MemberRows =>
                 [member[request[r].who] EXCEPT !.color = c, !.reached = "yes"] \in MemberRows
          BY <4>1 DEF MemberRows
        <4>3. member[request[r].who] # NoAccount BY <1>8 DEF InheritGroupColor, SessHeld, Exists
        <4> QED BY <2>1, <3>2, <4>2, <4>3
      <3> QED BY <1>8, <3>1, <3>2 DEF InheritGroupColor, DropMember
    <2> QED BY <2>1, <2>2, <2>3, <1>n DEF Respond, Unlock
  <1>9. ASSUME NEW r \in Requests, UpdateUsersPassword(r) PROVE SessTyped'
    <2>1. CASE UNCHANGED <<member, logins>>
      BY <1>9, <2>1, <1>n DEF UpdateUsersPassword, Respond, Unlock
    <2>2. CASE /\ member' = [n \in Members |-> IF n \in Group
                                THEN [member[n] EXCEPT !.hash = request[r].hash] ELSE member[n]]
               /\ logins' = {s \in logins : s.who \in Group => s.token = request[r].old}
      <3>1. request[r].hash \in Hashes /\ Respond(r) /\ Unlock BY <1>9 DEF UpdateUsersPassword
      <3>2. ASSUME NEW m \in MemberRows PROVE [m EXCEPT !.hash = request[r].hash] \in MemberRows
        BY <3>1 DEF MemberRows
      <3>3. member' \in [Members -> MemberRows \cup {NoAccount}]
        BY <2>2, <3>2 DEF Group, Exists
      <3> QED BY <2>2, <3>1, <3>3, <1>n DEF Respond, Unlock
    <2> QED BY <1>9, <2>1, <2>2 DEF UpdateUsersPassword
  <1>10. ASSUME NEW n \in Members, DelMember(n) PROVE SessTyped'
    BY <1>10 DEF DelMember, DropMember
  <1>11. ASSUME NEW c \in Colors \cup {None}, SetGroupColor(c) PROVE SessTyped'
    <2>1. ASSUME NEW m \in MemberRows PROVE [m EXCEPT !.color = c, !.reached = "yes"] \in MemberRows
      BY DEF MemberRows
    <2>2. member' \in [Members -> MemberRows \cup {NoAccount}]
      BY <1>11, <2>1 DEF SetGroupColor, Exists
    <2> QED BY <1>11, <2>2 DEF SetGroupColor
  <1>12. ASSUME NEW s \in logins, DeleteSession(s) PROVE SessTyped'
    BY <1>12 DEF DeleteSession
  <1>13. CASE UNCHANGED sessionVars BY <1>13 DEF sessionVars
  <1>15. CASE PanelKilled BY <1>15, <1>n DEF PanelKilled
  <1>14. \A s \in logins : s.token \in Tokens /\ s.who \in Members OBVIOUS
  <1> QED
    BY <1>1, <1>2, <1>3, <1>4, <1>5, <1>6, <1>7, <1>8, <1>9, <1>10, <1>11, <1>12, <1>13, <1>14, <1>15
    DEF SessionsNext

-----------------------------------------------------------------------------
\* The hash and the colour the accounts agree on, also while the one that holds
\* opMu is about to add an account; a row that the colour has not reached has none.
SameHash == \A m, n \in Group : member[m].hash = member[n].hash

SameColor ==
    /\ \A n \in Group : member[n].reached = "no" => member[n].color = None
    /\ \A m, n \in Group : member[m].reached = "yes" /\ member[n].reached = "yes"
                              => member[m].color = member[n].color

SessAgree ==
    /\ SameHash /\ SameColor
    /\ \A r \in Requests : request[r].at = "insert" =>
          \A n \in Group : member[n].hash = request[r].hash

SessInv == SessTyped /\ SessHeld /\ SessAgree /\ SessionOfRow

LEMMA SessInitially == SessionsInit => SessInv
  <1> SUFFICES ASSUME SessionsInit PROVE SessInv OBVIOUS
  <1>1. SessHeld BY DEF SessionsInit, SessHeld, NoRequest
  <1>2. Group = {} BY DEF SessionsInit, Group, Exists
  <1>3. SessAgree BY <1>2 DEF SessionsInit, SessAgree, SameHash, SameColor, NoRequest
  <1>4. SessionOfRow BY DEF SessionsInit, SessionOfRow
  <1> QED BY <1>1, <1>3, <1>4, SessTypedInitially DEF SessInv

\* A request that goes on without opMu.
LEMMA LocklessStep ==
    ASSUME SessInv, NEW r \in Requests, UNCHANGED <<member, opHolder>>,
           \A q \in Requests : q # r => request'[q] = request[q],
           request'[r].at \notin {"insert", "color", "set_hash"}
    PROVE  SessHeld' /\ SessAgree'
  <1>1. SessHeld' BY DEF SessInv, SessHeld, Exists
  <1>2. SessAgree' BY DEF SessInv, SessAgree, SameHash, SameColor, Group, Exists
  <1> QED BY <1>1, <1>2

\* While nobody holds opMu no request is in a step that needs it.
LEMMA NobodyHolds ==
    ASSUME SessInv, opHolder = None, NEW r \in Requests
    PROVE  request[r].at \notin {"insert", "color", "set_hash"}
  BY SessionsAssumption DEF SessInv, SessHeld

LEMMA OthersDoNotHold ==
    ASSUME SessInv, NEW r \in Requests, request[r].at \in {"insert", "color", "set_hash"},
           NEW q \in Requests, q # r
    PROVE  request[q].at \notin {"insert", "color", "set_hash"}
  BY DEF SessInv, SessHeld

LEMMA LocklessKept ==
    ASSUME SessInv, NEW r \in Requests,
           \/ \E n \in Members : Login(r, n)
           \/ \E s \in logins, n \in Members : SwitchUser(r, s, n)
           \/ CreateSession(r) \/ DropOld(r)
    PROVE  SessHeld' /\ SessAgree' /\ SessionOfRow'
  <1>1. UNCHANGED <<member, opHolder>>
    BY DEF Login, SwitchUser, CreateSession, DropOld
  <1>2. \A q \in Requests : q # r => request'[q] = request[q]
    BY DEF SessInv, SessTyped, Login, SwitchUser, CreateSession, DropOld, BeginRequest, Respond
  <1>3. request'[r].at \notin {"insert", "color", "set_hash"}
    <2>1. CASE \E n \in Members : Login(r, n)
      BY <2>1, ZenonT(60) DEF SessInv, SessTyped, Login, BeginRequest, NoRequest
    <2>2. CASE \E s \in logins, n \in Members : SwitchUser(r, s, n)
      <3>1. PICK s \in logins, n \in Members :
               request' = [request EXCEPT ![r] = [NoRequest EXCEPT !.at = "create", !.who = n,
                                                    !.id = member[n].id, !.old = s.token]]
        BY <2>2 DEF SwitchUser, BeginRequest
      <3>2. request'[r].at = "create" BY <3>1 DEF SessInv, SessTyped, NoRequest
      <3> QED BY <3>2
    <2>3. CASE Respond(r) BY <2>3 DEF SessInv, SessTyped, Respond, NoRequest
    <2>4. ASSUME NEW t, request' = [request EXCEPT ![r].at = "drop_old", ![r].new = t]
          PROVE  request'[r].at = "drop_old"
      BY <2>4 DEF SessInv, SessTyped, RequestStates
    <2> QED BY <2>1, <2>2, <2>3, <2>4 DEF CreateSession, DropOld
  <1>4. SessionOfRow'
    <2>1. CASE logins' \subseteq logins BY <1>1, <2>1 DEF SessInv, SessionOfRow, Exists
    <2>2. CASE CreateSession(r)
      <3>1. \/ logins' = logins
            \/ /\ Accepts(request[r])
               /\ logins' = logins \cup {[token |-> UnusedToken, who |-> request[r].who,
                                          id |-> request[r].id]}
        BY <2>2 DEF CreateSession
      <3> QED BY <1>1, <3>1 DEF SessInv, SessionOfRow, Exists, Accepts
    <2> QED BY <2>1, <2>2 DEF Login, SwitchUser, DropOld
  <1> QED BY <1>1, <1>2, <1>3, <1>4, LocklessStep

\* A request takes opMu.
LEMMA AddMemberKept ==
    ASSUME SessInv, NEW r \in Requests, NEW n \in Members, AddMember(r, n)
    PROVE  SessHeld' /\ SessAgree' /\ SessionOfRow'
  <1>1. PICK h \in InheritedHash :
           request' = [request EXCEPT ![r] = [NoRequest EXCEPT !.at = "insert", !.who = n, !.hash = h]]
    BY DEF AddMember, BeginRequest
  <1>2. opHolder = None /\ opHolder' = r /\ UNCHANGED <<member, logins>> /\ ~Exists(n)
    BY DEF AddMember, Lock
  <1>3. request'[r].at = "insert" /\ request'[r].who = n /\ request'[r].hash = h
    BY <1>1 DEF SessInv, SessTyped, NoRequest
  <1>4. \A q \in Requests : q # r => request'[q] = request[q]
    BY <1>1 DEF SessInv, SessTyped
  <1>5. \A m \in Group : member[m].hash = h
    <2>1. CASE Group = {} BY <2>1
    <2>2. CASE Group # {}
      <3>1. PICK o \in Group : h = member[o].hash BY <2>2 DEF InheritedHash
      <3> QED BY <3>1 DEF SessInv, SessAgree, SameHash
    <2> QED BY <2>1, <2>2
  <1>6. SessHeld' BY <1>2, <1>3, <1>4, NobodyHolds DEF SessHeld, Exists
  <1>7. SessAgree'
    BY <1>2, <1>3, <1>4, <1>5, NobodyHolds DEF SessInv, SessAgree, SameHash, SameColor, Group, Exists
  <1>8. SessionOfRow' BY <1>2 DEF SessInv, SessionOfRow, Exists
  <1> QED BY <1>6, <1>7, <1>8

LEMMA ChangePasswordKept ==
    ASSUME SessInv, NEW r \in Requests, NEW n \in Members, NEW keep, ChangePassword(r, n, keep)
    PROVE  SessHeld' /\ SessAgree' /\ SessionOfRow'
  <1>1. opHolder = None /\ opHolder' = r /\ UNCHANGED <<member, logins>>
    BY DEF ChangePassword, Lock
  <1>2. request'[r].at = "set_hash"
    BY DEF SessInv, SessTyped, ChangePassword, BeginRequest, NoRequest
  <1>3. \A q \in Requests : q # r => request'[q] = request[q]
    BY DEF SessInv, SessTyped, ChangePassword, BeginRequest
  <1>4. SessHeld' BY <1>1, <1>2, <1>3, NobodyHolds DEF SessHeld, Exists
  <1>5. SessAgree'
    BY <1>1, <1>2, <1>3, NobodyHolds DEF SessInv, SessAgree, SameHash, SameColor, Group, Exists
  <1>6. SessionOfRow' BY <1>1 DEF SessInv, SessionOfRow, Exists
  <1> QED BY <1>4, <1>5, <1>6

\* A request that holds opMu gives it back: the others do not need it.
LEMMA Released ==
    ASSUME SessInv, NEW r \in Requests, request[r].at \in {"insert", "color", "set_hash"},
           Respond(r), Unlock, SameHash', SameColor'
    PROVE  SessHeld' /\ SessAgree'
  <1>1. \A q \in Requests : request'[q].at \notin {"insert", "color", "set_hash"}
    BY OthersDoNotHold DEF SessInv, SessTyped, Respond, NoRequest
  <1> QED BY <1>1 DEF SessHeld, SessAgree

LEMMA InsertMemberKept ==
    ASSUME SessInv, NEW r \in Requests, InsertMember(r)
    PROVE  SessHeld' /\ SessAgree' /\ SessionOfRow'
  <1> DEFINE n == request[r].who
  <1>1. request[r].at = "insert" /\ UNCHANGED logins /\ n \in Members /\ ~Exists(n)
        /\ request[r].hash \in Hashes
    BY DEF InsertMember, SessInv, SessTyped, SessHeld
  <1>2. CASE Respond(r) /\ Unlock /\ UNCHANGED member
    <2>1. SessHeld' /\ SessAgree'
      BY <1>1, <1>2, Released DEF SessInv, SessAgree, SameHash, SameColor, Group, Exists
    <2> QED BY <1>1, <1>2, <2>1 DEF SessInv, SessionOfRow, Exists
  <1>3. CASE /\ member' = [member EXCEPT ![n] =
                             [id |-> UnusedId, hash |-> request[r].hash, color |-> None,
                                reached |-> "no"]]
             /\ request' = [request EXCEPT ![r].at = "color"] /\ UNCHANGED opHolder
    <2>1. [id |-> UnusedId, hash |-> request[r].hash, color |-> None,
                                reached |-> "no"] # NoAccount
      BY <1>1, IdLeft, SessionsAssumption DEF MemberRows
    <2>2. /\ member'[n] # NoAccount /\ member'[n].hash = request[r].hash
          /\ member'[n].color = None /\ member'[n].reached = "no"
          /\ \A m \in Members : m # n => member'[m] = member[m]
      BY <1>1, <1>3, <2>1 DEF SessInv, SessTyped
    <2>3. Group' = Group \cup {n} BY <1>1, <2>2 DEF Group, Exists
    <2>4. /\ request'[r].at = "color" /\ request'[r].who = n
          /\ \A q \in Requests : q # r => request'[q] = request[q]
      BY <1>3 DEF SessInv, SessTyped, RequestStates
    <2>5. opHolder = r BY <1>1 DEF SessInv, SessHeld
    <2>6. SessHeld' BY <1>1, <1>3, <2>2, <2>4, <2>5, OthersDoNotHold DEF SessHeld, Exists
    <2>7. \A m \in Group' : member'[m].hash = request[r].hash
      BY <1>1, <2>2, <2>3, SMTT(60) DEF SessInv, SessAgree, Group
    <2>8. SameColor' BY <1>1, <2>2, <2>3 DEF SessInv, SessAgree, SameColor, Group
    <2>9. SessAgree'
      BY <1>1, <1>3, <2>4, <2>5, <2>7, <2>8, OthersDoNotHold, SessionsAssumption
      DEF SessAgree, SameHash
    <2>10. SessionOfRow' BY <1>1, <2>2 DEF SessInv, SessionOfRow, Exists, SessTyped
    <2> QED BY <2>6, <2>9, <2>10
  <1> QED BY <1>2, <1>3 DEF InsertMember

LEMMA InheritGroupColorKept ==
    ASSUME SessInv, NEW r \in Requests, InheritGroupColor(r)
    PROVE  SessHeld' /\ SessAgree' /\ SessionOfRow'
  <1> DEFINE n == request[r].who
  <1>1. request[r].at = "color" /\ Respond(r) /\ Unlock /\ n \in Members /\ Exists(n)
    BY DEF InheritGroupColor, SessInv, SessTyped, SessHeld
  <1>2. ASSUME NEW c \in InheritedColor(n), UNCHANGED logins,
               member' = [member EXCEPT ![n].color = c, ![n].reached = "yes"]
        PROVE  SessHeld' /\ SessAgree' /\ SessionOfRow'
    <2>1. c \in Colors \cup {None}
      BY DEF InheritedColor, Group, Exists, MemberRows, SessInv, SessTyped
    <2>2. member[n] \in MemberRows BY <1>1 DEF SessInv, SessTyped, Exists
    <2>3. [member[n] EXCEPT !.color = c, !.reached = "yes"] \in MemberRows
          /\ [member[n] EXCEPT !.color = c, !.reached = "yes"].hash = member[n].hash
          /\ [member[n] EXCEPT !.color = c, !.reached = "yes"].id = member[n].id
          /\ [member[n] EXCEPT !.color = c, !.reached = "yes"].color = c
          /\ [member[n] EXCEPT !.color = c, !.reached = "yes"].reached = "yes"
      BY <2>1, <2>2 DEF MemberRows
    <2>4. member'[n] \in MemberRows /\ member'[n].hash = member[n].hash
          /\ member'[n].id = member[n].id /\ member'[n].color = c /\ member'[n].reached = "yes"
          /\ \A m \in Members : m # n => member'[m] = member[m]
      BY <1>1, <1>2, <2>3 DEF SessInv, SessTyped
    <2>5. \A m \in Members : Exists(m)' <=> Exists(m)
      BY <1>1, <2>4, SessionsAssumption DEF Exists
    <2>6. Group' = Group BY <2>5 DEF Group
    <2>7. \A m \in Group \ {n} : member[m].reached = "yes" => member[m].color = c
      <3>1. ASSUME NEW m \in Group \ {n}, NEW k \in Group \ {n}, member[m].reached = "yes",
                   member[k].color # None
            PROVE  member[m].color = member[k].color
        BY <3>1 DEF SessInv, SessTyped, SessAgree, SameColor, Group, Exists, MemberRows
      <3> QED BY <3>1 DEF InheritedColor
    <2>8. SameHash' BY <2>4, <2>6 DEF SessInv, SessAgree, SameHash, Group
    <2>11. SameColor' BY <2>4, <2>6, <2>7 DEF SessInv, SessAgree, SameColor, Group
    <2>9. SessHeld' /\ SessAgree' BY <1>1, <2>8, <2>11, Released
    <2>10. SessionOfRow' BY <1>2, <2>4, <2>5 DEF SessInv, SessionOfRow, SessTyped
    <2> QED BY <2>9, <2>10
  <1>3. CASE DropMember(n)
    <2>1. Group' = Group \ {n} /\ \A m \in Members : m # n => member'[m] = member[m]
      BY <1>1, <1>3 DEF DropMember, Group, Exists, SessInv, SessTyped
    <2>2. SameHash' /\ SameColor'
      BY <1>1, <2>1 DEF SessInv, SessAgree, SameHash, SameColor, Group
    <2>3. SessHeld' /\ SessAgree' BY <1>1, <2>2, Released
    <2>4. SessionOfRow' BY <1>3, <2>1 DEF DropMember, SessInv, SessionOfRow, SessTyped, Exists
    <2> QED BY <2>3, <2>4
  <1>4. CASE UNCHANGED <<member, logins>>
    <2>1. SameHash' /\ SameColor'
      BY <1>4 DEF SessInv, SessAgree, SameHash, SameColor, Group, Exists
    <2> QED BY <1>1, <1>4, <2>1, Released DEF SessInv, SessionOfRow, Exists
  <1> QED BY <1>2, <1>3, <1>4 DEF InheritGroupColor

LEMMA UpdateUsersPasswordKept ==
    ASSUME SessInv, NEW r \in Requests, UpdateUsersPassword(r)
    PROVE  SessHeld' /\ SessAgree' /\ SessionOfRow'
  <1>1. request[r].at = "set_hash" /\ Respond(r) /\ Unlock
    BY DEF UpdateUsersPassword
  <1>2. CASE UNCHANGED <<member, logins>>
    <2>1. SessHeld' /\ SessAgree'
      BY <1>1, <1>2, Released DEF SessInv, SessAgree, SameHash, SameColor, Group, Exists
    <2> QED BY <1>2, <2>1 DEF SessInv, SessionOfRow, Exists
  <1>3. CASE /\ member' = [n \in Members |-> IF n \in Group
                              THEN [member[n] EXCEPT !.hash = request[r].hash] ELSE member[n]]
             /\ logins' = {s \in logins : s.who \in Group => s.token = request[r].old}
    <2>1. request[r].hash \in Hashes BY <1>1 DEF SessInv, SessTyped
    <2>2. ASSUME NEW n \in Group
          PROVE  member'[n] \in MemberRows /\ member'[n].hash = request[r].hash
                 /\ member'[n].color = member[n].color /\ member'[n].id = member[n].id
                 /\ member'[n].reached = member[n].reached
      <3>1. n \in Members /\ member[n] \in MemberRows BY DEF Group, Exists, SessInv, SessTyped
      <3>2. member'[n] = [member[n] EXCEPT !.hash = request[r].hash] BY <1>3, <3>1
      <3> QED BY <2>1, <3>1, <3>2 DEF MemberRows
    <2>3. \A n \in Members : Exists(n)' <=> Exists(n)
      BY <1>3, <2>2, SessionsAssumption DEF Exists, Group
    <2>4. Group' = Group BY <2>3 DEF Group
    <2>5. SameHash' /\ SameColor'
      BY <1>1, <2>2, <2>4 DEF SessInv, SessAgree, SameHash, SameColor
    <2>6. SessHeld' /\ SessAgree' BY <1>1, <2>5, Released
    <2>7. SessionOfRow' BY <1>3, <2>2, <2>3 DEF SessInv, SessionOfRow, SessTyped, Group
    <2> QED BY <2>6, <2>7
  <1> QED BY <1>2, <1>3 DEF UpdateUsersPassword

\* Operations that hold opMu for one step.
LEMMA DelMemberKept ==
    ASSUME SessInv, NEW n \in Members, DelMember(n)
    PROVE  SessHeld' /\ SessAgree' /\ SessionOfRow'
  <1>1. opHolder = None /\ UNCHANGED <<request, opHolder>> BY DEF DelMember
  <1>2. Group' = Group \ {n} /\ \A m \in Members : m # n => member'[m] = member[m]
    BY DEF DelMember, DropMember, Group, Exists, SessInv, SessTyped
  <1>3. SessHeld' BY <1>1, NobodyHolds DEF SessHeld
  <1>4. SessAgree' BY <1>1, <1>2, NobodyHolds DEF SessInv, SessAgree, SameHash, SameColor, Group
  <1>5. SessionOfRow' BY <1>2 DEF DelMember, DropMember, SessInv, SessionOfRow, SessTyped, Exists
  <1> QED BY <1>3, <1>4, <1>5

LEMMA SetGroupColorKept ==
    ASSUME SessInv, NEW c \in Colors \cup {None}, SetGroupColor(c)
    PROVE  SessHeld' /\ SessAgree' /\ SessionOfRow'
  <1>1. opHolder = None /\ UNCHANGED <<logins, request, opHolder>> BY DEF SetGroupColor
  <1>2. ASSUME NEW n \in Group
        PROVE  member'[n] \in MemberRows /\ member'[n].hash = member[n].hash
               /\ member'[n].color = c /\ member'[n].id = member[n].id
               /\ member'[n].reached = "yes"
    <2>1. n \in Members /\ member[n] \in MemberRows /\ Exists(n)
      BY DEF Group, Exists, SessInv, SessTyped
    <2>2. member'[n] = [member[n] EXCEPT !.color = c, !.reached = "yes"] BY <2>1 DEF SetGroupColor
    <2> QED BY <2>1, <2>2 DEF MemberRows
  <1>3. \A n \in Members : Exists(n)' <=> Exists(n)
    BY <1>2, SessionsAssumption DEF Exists, Group, SetGroupColor
  <1>4. Group' = Group BY <1>3 DEF Group
  <1>5. SessHeld' BY <1>1, NobodyHolds DEF SessHeld
  <1>6. SessAgree' BY <1>1, <1>2, <1>4, NobodyHolds DEF SessInv, SessAgree, SameHash, SameColor
  <1>7. SessionOfRow' BY <1>1, <1>2, <1>3 DEF SessInv, SessionOfRow, SessTyped, Group
  <1> QED BY <1>5, <1>6, <1>7

LEMMA SessKept ==
    ASSUME SessInv, [SessionsNext]_sessionVars
    PROVE  SessInv'
  <1>1. SessTyped' BY SessTypedKept DEF SessInv
  <1>2. SessHeld' /\ SessAgree' /\ SessionOfRow'
    <2>1. CASE \E s \in logins : DeleteSession(s)
      BY <2>1 DEF DeleteSession, SessInv, SessHeld, SessAgree, SameHash, SameColor, SessionOfRow, Group, Exists
    <2>4. CASE PanelKilled
      BY <2>4 DEF PanelKilled, NoRequest, SessInv, SessHeld, SessAgree, SameHash, SameColor, SessionOfRow, Group, Exists
    <2>2. CASE UNCHANGED sessionVars
      BY <2>2 DEF sessionVars, SessInv, SessHeld, SessAgree, SameHash, SameColor, SessionOfRow, Group, Exists
    <2>3. \A s \in logins : s.who \in Members BY DEF SessInv, SessTyped
    <2> QED
      BY <2>1, <2>2, <2>3, <2>4, LocklessKept, AddMemberKept, ChangePasswordKept, InsertMemberKept,
         InheritGroupColorKept, UpdateUsersPasswordKept, DelMemberKept, SetGroupColorKept
      DEF SessionsNext
  <1> QED BY <1>1, <1>2 DEF SessInv

\* For any number of accounts and requests: one password and one colour in a
\* group, and no session that opens another account than the one it was made for.
THEOREM SessionsAreSafe == SessionsSpec => [](SessionsTypeOK /\ SessionsSafe)
  <1>1. SessInv => SessionsTypeOK /\ SessionsSafe
    BY DEF SessInv, SessTyped, SessAgree, SameHash, SameColor, SessionsTypeOK, SessionsSafe, GroupAgrees,
           Group, Exists
  <1> QED BY <1>1, SessInitially, SessKept, PTL DEF SessionsSpec

-----------------------------------------------------------------------------
(***************************************************************************)
(* The operator's sessions (AdminSessions)                                 *)
(***************************************************************************)

\* The logins that have pruned and not inserted yet.
Creating == {r \in SignIns : signIn[r] = "create"}

\* Every login that is about to insert has its row counted against the cap or
\* is one of those that pruned beside another.
OperatorInv ==
    /\ signIn \in [SignIns -> {"idle", "prune", "create"}]
    /\ IsFiniteSet(operator)
    /\ Cardinality(operator) + Cardinality(Creating) <= AdminMax - 1 + Cardinality(SignIns)

LEMMA CreatingFinite ==
    ASSUME NEW S \in SUBSET SignIns
    PROVE  /\ IsFiniteSet(S) /\ Cardinality(S) \in Nat
           /\ Cardinality(SignIns) \in Nat /\ Cardinality(S) <= Cardinality(SignIns)
  BY AdminAssumption, FS_Subset, FS_CardinalityType

LEMMA OperatorShrinks ==
    ASSUME IsFiniteSet(operator), NEW T \in SUBSET operator
    PROVE  /\ IsFiniteSet(T) /\ Cardinality(T) \in Nat /\ Cardinality(operator) \in Nat
           /\ Cardinality(T) <= Cardinality(operator)
  BY FS_Subset, FS_CardinalityType

LEMMA OperatorInitially == AdminInit => OperatorInv
  <1> SUFFICES ASSUME AdminInit PROVE OperatorInv
    OBVIOUS
  <1>1. Creating = {}
    BY DEF AdminInit, Creating
  <1>2. Cardinality(SignIns) \in Nat /\ IsFiniteSet({}) /\ Cardinality({}) = 0
    BY CreatingFinite, FS_EmptySet
  <1>3. signIn \in [SignIns -> {"idle", "prune", "create"}] /\ operator = {}
    BY DEF AdminInit
  <1> QED
    BY <1>1, <1>2, <1>3, AdminAssumption DEF OperatorInv

\* A step that only takes rows away keeps the count.
LEMMA RowsOnlyGo ==
    ASSUME OperatorInv, signIn' = signIn, operator' \subseteq operator
    PROVE  OperatorInv'
  <1>1. Creating' = Creating
    BY DEF Creating
  <1>2. Cardinality(Creating) \in Nat /\ Cardinality(SignIns) \in Nat
    BY CreatingFinite DEF Creating
  <1>3. IsFiniteSet(operator') /\ Cardinality(operator') <= Cardinality(operator)
        /\ Cardinality(operator') \in Nat /\ Cardinality(operator) \in Nat
    BY OperatorShrinks DEF OperatorInv
  <1>4. Cardinality(operator') + Cardinality(Creating') <= AdminMax - 1 + Cardinality(SignIns)
    BY <1>1, <1>2, <1>3, AdminAssumption DEF OperatorInv
  <1> QED
    BY <1>3, <1>4 DEF OperatorInv

LEMMA SignInStep ==
    ASSUME OperatorInv, NEW r \in SignIns, AdminLogin(r)
    PROVE  OperatorInv'
  <1>1. operator' \subseteq operator /\ signIn[r] = "idle"
    BY DEF AdminLogin
  <1>2. /\ IsFiniteSet(operator') /\ Cardinality(operator') <= Cardinality(operator)
        /\ Cardinality(operator') \in Nat /\ Cardinality(operator) \in Nat
    BY <1>1, OperatorShrinks DEF OperatorInv
  <1>3. signIn' \in [SignIns -> {"idle", "prune", "create"}]
    BY DEF AdminLogin, OperatorInv
  <1>4. Cardinality(operator') + Cardinality(Creating') <= AdminMax - 1 + Cardinality(SignIns)
    <2>1. CASE Cardinality(operator') < AdminMax
      <3>1. /\ Cardinality(Creating') <= Cardinality(SignIns)
            /\ Cardinality(Creating') \in Nat /\ Cardinality(SignIns) \in Nat
        BY CreatingFinite DEF Creating
      <3> QED
        BY <1>2, <2>1, <3>1, AdminAssumption
    <2>2. CASE ~(Cardinality(operator') < AdminMax)
      <3>1. Creating' = Creating
        BY <1>1, <2>2 DEF AdminLogin, Creating, OperatorInv
      <3>2. Cardinality(Creating) \in Nat /\ Cardinality(SignIns) \in Nat
        BY CreatingFinite DEF Creating
      <3> QED
        BY <1>2, <3>1, <3>2, AdminAssumption DEF OperatorInv
    <2> QED
      BY <2>1, <2>2
  <1> QED
    BY <1>2, <1>3, <1>4 DEF OperatorInv

\* After a prune at most max - 1 rows are left, whoever else is about to insert.
LEMMA PruneStep ==
    ASSUME OperatorInv, NEW r \in SignIns, PruneAdminSessions(r)
    PROVE  OperatorInv'
  <1>1. operator' \subseteq operator /\ Cardinality(operator') <= AdminMax - 1
    BY DEF PruneAdminSessions, KeptTokens, Newest
  <1>2. IsFiniteSet(operator') /\ Cardinality(operator') \in Nat
    BY <1>1, OperatorShrinks DEF OperatorInv
  <1>3. /\ Cardinality(Creating') <= Cardinality(SignIns)
        /\ Cardinality(Creating') \in Nat /\ Cardinality(SignIns) \in Nat
    BY CreatingFinite DEF Creating
  <1>4. signIn' \in [SignIns -> {"idle", "prune", "create"}]
    BY DEF PruneAdminSessions, OperatorInv
  <1>5. Cardinality(operator') + Cardinality(Creating') <= AdminMax - 1 + Cardinality(SignIns)
    BY <1>1, <1>2, <1>3, AdminAssumption
  <1> QED
    BY <1>2, <1>4, <1>5 DEF OperatorInv

\* An insert turns one of the logins in waiting into a row.
LEMMA SignInCreateStep ==
    ASSUME OperatorInv, NEW r \in SignIns, CreateAdminSession(r)
    PROVE  OperatorInv'
  <1>1. /\ signIn[r] = "create" /\ signIn' = [signIn EXCEPT ![r] = "idle"]
        /\ operator' = operator \cup {opened'}
    BY DEF CreateAdminSession
  <1>2. Creating' = Creating \ {r} /\ r \in Creating
    BY <1>1 DEF Creating, OperatorInv
  <1>3. /\ Cardinality(Creating') = Cardinality(Creating) - 1
        /\ Cardinality(Creating) \in Nat /\ Cardinality(SignIns) \in Nat
    BY <1>2, CreatingFinite, FS_RemoveElement DEF Creating
  <1>4. /\ IsFiniteSet(operator') /\ Cardinality(operator') \in Nat
        /\ Cardinality(operator) \in Nat /\ Cardinality(operator') <= Cardinality(operator) + 1
    BY <1>1, FS_AddElement, FS_CardinalityType DEF OperatorInv
  <1>5. signIn' \in [SignIns -> {"idle", "prune", "create"}]
    BY <1>1 DEF OperatorInv
  <1>6. Cardinality(operator') + Cardinality(Creating') <= AdminMax - 1 + Cardinality(SignIns)
    BY <1>3, <1>4, AdminAssumption DEF OperatorInv
  <1> QED
    BY <1>4, <1>5, <1>6 DEF OperatorInv

LEMMA OperatorInductive == OperatorInv /\ [AdminNext]_adminVars => OperatorInv'
  <1> SUFFICES ASSUME OperatorInv, [AdminNext]_adminVars PROVE OperatorInv'
    OBVIOUS
  <1>1. CASE UNCHANGED adminVars
    BY <1>1, RowsOnlyGo DEF adminVars
  <1>2. ASSUME NEW t \in operator, Outdate(t) \/ DeleteAdminSession(t)
        PROVE  OperatorInv'
    BY <1>2, RowsOnlyGo DEF Outdate, DeleteAdminSession
  <1>3. ASSUME NEW keep, ClearAdminSessionsExcept(keep)
        PROVE  OperatorInv'
    BY <1>3, RowsOnlyGo DEF ClearAdminSessionsExcept
  <1> QED
    BY <1>1, <1>2, <1>3, SignInStep, PruneStep, SignInCreateStep DEF AdminNext

\* The operator's sessions exceed their cap by no more than the logins that
\* prune beside one another (PruneAdminSessions, CreateAdminSession), however
\* many there are and whatever is deleted, outdated or cleared meanwhile.
THEOREM AdminSessionsCapped == AdminSpec => []AdminCapped
  <1>1. OperatorInv => AdminCapped
    <2> SUFFICES ASSUME OperatorInv PROVE AdminCapped
      OBVIOUS
    <2>1. Cardinality(operator) \in Nat
      BY FS_CardinalityType DEF OperatorInv
    <2>2. Cardinality(Creating) \in Nat /\ Cardinality(SignIns) \in Nat
      BY CreatingFinite DEF Creating
    <2> QED
      BY <2>1, <2>2, AdminAssumption DEF OperatorInv, AdminCapped
  <1> QED
    BY <1>1, OperatorInitially, OperatorInductive, PTL DEF AdminSpec

-----------------------------------------------------------------------------
(***************************************************************************)
(* The registry of shells (Terminal)                                       *)
(***************************************************************************)

ConnStates ==
    [at : {"free", "cap", "busy", "open", "create", "attach", "serve", "kill", "kill_others"},
     shell : Shells \cup {None}, doomed : SUBSET Shells]

\* A handler that has a shell knows which.
ShellsNamed ==
    \A c \in Connections :
        conn[c].at \in {"create", "attach", "serve", "kill_others"} => conn[c].shell \in Shells

TermTyped == TerminalTypeOK /\ conn \in [Connections -> ConnStates] /\ ShellsNamed

\* The connection that has started a shell and not yet registered it.
Starting(s) == \E c \in Connections : conn[c].at = "create" /\ conn[c].shell = s

\* ShellsAccounted, and that its count is one.
ShellsInv ==
    /\ IsFiniteSet(registered) /\ Cardinality(registered) <= MaxPerUser
    /\ \A s \in Shells : pty[s] = "running" => s \in registered \/ Starting(s)

LEMMA TermTypedInitially == TerminalInit => TermTyped
  BY DEF TerminalInit, TermTyped, TerminalTypeOK, ConnStates, ShellsNamed, Free

LEMMA TermTypedKept ==
    ASSUME TermTyped, [TerminalNext]_terminalVars
    PROVE  TermTyped'
  <1> USE DEF TermTyped, TerminalTypeOK, ConnStates, ShellsNamed, Moves, HangsUp, Free
  <1>1. ASSUME NEW c \in Connections, NEW token \in Shells \cup {None}, Hello(c, token)
        PROVE  TermTyped'
    BY <1>1 DEF Hello, session
  <1>2. ASSUME NEW c \in Connections,
               CheckCap(c) \/ Takeover(c) \/ Killed(c) \/ Create(c) \/ OpenPty(c)
        PROVE  TermTyped'
    <2>1. CASE CheckCap(c) BY <2>1 DEF CheckCap, session
    <2>2. CASE Takeover(c)
      <3>1. conn' \in [Connections -> ConnStates]
        <4>1. PICK d \in ConnStates : conn' = [conn EXCEPT ![c] = d]
          BY <2>2, ZenonT(60) DEF Takeover
        <4> QED BY <4>1
      <3>2. /\ conn'[c].shell = conn[c].shell
            /\ conn'[c].at = IF conn[c].at = "busy" THEN "kill" ELSE "kill_others"
            /\ conn[c].at \in {"busy", "serve"}
        <4>1. conn[c].at \in {"busy", "serve"} /\ conn[c] \in ConnStates BY <2>2 DEF Takeover
        <4> QED BY <2>2, <4>1 DEF Takeover
      <3>3. \A d \in Connections \ {c} : conn'[d] = conn[d] BY <2>2 DEF Takeover
      <3>4. ShellsNamed' BY <3>2, <3>3
      <3> QED BY <2>2, <3>1, <3>4 DEF Takeover, session
    <2>3. CASE Killed(c) BY <2>3 DEF Killed, session
    <2>4. CASE Create(c)
      <3>1. CASE Refuses BY <2>4, <3>1, SMTT(60) DEF Create, Refused
      <3>2. CASE ~Refuses
        <4>1. conn[c].shell \in Shells \cup {None} /\ registered' = registered \cup {conn[c].shell}
          BY <2>4, <3>2 DEF Create
        <4>2. UNCHANGED <<pty, closed, sink, grace, expired, pump, vanished>>
              /\ conn' = [conn EXCEPT ![c].at = "attach"]
          BY <2>4, <3>2 DEF Create
        <4>3. conn[c].shell \in Shells BY <2>4 DEF Create, ShellsNamed
        <4> QED BY <4>1, <4>2, <4>3
      <3> QED BY <3>1, <3>2
    <2>5. CASE OpenPty(c)
      <3>1. CASE HangsUp(c) /\ UNCHANGED pty BY <2>5, <3>1 DEF OpenPty, session
      <3>2. ASSUME NEW s \in Shells, pty' = [pty EXCEPT ![s] = "running"], UNCHANGED vanished,
                   conn' = [conn EXCEPT ![c].at = "create", ![c].shell = s]
            PROVE  TermTyped'
        <4>1. conn' \in [Connections -> ConnStates]
          <5>1. [conn[c] EXCEPT !.at = "create", !.shell = s] \in ConnStates OBVIOUS
          <5>2. conn' = [conn EXCEPT ![c] = [conn[c] EXCEPT !.at = "create", !.shell = s]]
            BY <3>2
          <5> QED BY <5>1, <5>2
        <4>2. conn'[c].shell = s /\ \A d \in Connections \ {c} : conn'[d] = conn[d] BY <3>2
        <4>3. ShellsNamed' BY <4>2
        <4>4. pty' \in [Shells -> {"none", "running", "closing", "gone"}] BY <3>2
        <4> QED BY <2>5, <3>2, <4>1, <4>3, <4>4 DEF OpenPty, session
      <3> QED BY <2>5, <3>1, <3>2 DEF OpenPty
    <2> QED BY <1>2, <2>1, <2>2, <2>3, <2>4, <2>5
  <1>3. ASSUME NEW c \in Connections, KillOne(c) PROVE TermTyped'
    BY <1>3 DEF KillOne, Close, session
  <1>4. ASSUME NEW c \in Connections, Attach(c) \/ LeaveShell(c) \/ GiveUpConnection(c) \/ Vanish(c)
        PROVE  TermTyped'
    <2>1. CASE Attach(c) BY <2>1 DEF Attach, session
    <2>2. CASE LeaveShell(c) 
      <3>1. conn[c].shell \in Shells BY <2>2 DEF LeaveShell, ShellsNamed
      <3>2. sink' \in [Shells -> Connections \cup {None}] /\ grace' \subseteq Shells
        BY <2>2, <3>1 DEF LeaveShell, Detach, GraceAfter
      <3> QED BY <2>2, <3>2 DEF LeaveShell
    <2>3. CASE GiveUpConnection(c) BY <2>3 DEF GiveUpConnection, session
    <2>4. CASE Vanish(c) BY <2>4 DEF Vanish, session
    <2> QED BY <1>4, <2>1, <2>2, <2>3, <2>4
  <1>5. ASSUME NEW s \in Shells, PumpTakes(s) \/ PumpWrites(s) PROVE TermTyped'
    BY <1>5 DEF PumpTakes, PumpWrites, Detach, GraceAfter, session
  <1>6. ASSUME NEW s \in Shells, GraceEnds(s) \/ GraceCloses(s) \/ PumpEnds(s) \/ NewToken(s)
        PROVE  TermTyped'
    BY <1>6 DEF GraceEnds, GraceCloses, PumpEnds, NewToken
  <1>7. CASE UNCHANGED terminalVars BY <1>7 DEF terminalVars
  <1> QED BY <1>1, <1>2, <1>3, <1>4, <1>5, <1>6, <1>7 DEF TerminalNext

LEMMA ShellsGo ==
    ASSUME ShellsInv, NEW T \in SUBSET registered
    PROVE  IsFiniteSet(T) /\ Cardinality(T) <= MaxPerUser
  <1>1. IsFiniteSet(T) /\ Cardinality(T) <= Cardinality(registered)
        /\ Cardinality(T) \in Nat /\ Cardinality(registered) \in Nat
    BY FS_Subset, FS_CardinalityType DEF ShellsInv
  <1> QED BY <1>1, TerminalAssumption DEF ShellsInv

\* A step that takes no connection out of "create" and starts no shell.
LEMMA NoneStarted ==
    ASSUME TermTyped, ShellsInv, registered' \subseteq registered,
           \A s \in Shells : pty'[s] = "running" => pty[s] = "running",
           \A s \in Shells : s \in registered \ registered' => pty'[s] # "running",
           \A c \in Connections : conn[c].at = "create" =>
                conn'[c].at = "create" /\ conn'[c].shell = conn[c].shell
    PROVE  ShellsInv'
  <1>1. IsFiniteSet(registered') /\ Cardinality(registered') <= MaxPerUser
    BY ShellsGo
  <1>2. ASSUME NEW s \in Shells, pty'[s] = "running"
        PROVE  s \in registered' \/ Starting(s)'
    BY <1>2 DEF ShellsInv, Starting
  <1> QED BY <1>1, <1>2 DEF ShellsInv

LEMMA ShellsKept ==
    ASSUME TermTyped, ShellsInv, [TerminalNext]_terminalVars
    PROVE  ShellsInv'
  <1> USE DEF TermTyped, TerminalTypeOK, ConnStates, Moves, HangsUp, Free
  <1>1. ASSUME NEW c \in Connections, NEW token \in Shells \cup {None}, Hello(c, token)
        PROVE  ShellsInv'
    BY <1>1, NoneStarted DEF Hello, session
  <1>2. ASSUME NEW c \in Connections, CheckCap(c) \/ Takeover(c) \/ Killed(c)
        PROVE  ShellsInv'
    <2>1. CASE CheckCap(c) BY <2>1, NoneStarted DEF CheckCap, session
    <2>2. CASE Takeover(c) BY <2>2, NoneStarted DEF Takeover, session
    <2>3. CASE Killed(c) BY <2>3, NoneStarted DEF Killed, session
    <2> QED BY <1>2, <2>1, <2>2, <2>3
  <1>3. ASSUME NEW c \in Connections, KillOne(c) PROVE ShellsInv'
    BY <1>3, NoneStarted DEF KillOne, Close, session
  <1>4. ASSUME NEW c \in Connections, OpenPty(c) PROVE ShellsInv'
    <2>1. CASE conn' = [conn EXCEPT ![c] = Free] /\ UNCHANGED pty
      BY <1>4, <2>1, NoneStarted DEF OpenPty, session
    <2>2. ASSUME NEW s \in Shells, pty' = [pty EXCEPT ![s] = "running"],
                 conn' = [conn EXCEPT ![c].at = "create", ![c].shell = s]
          PROVE  ShellsInv'
      <3>1. UNCHANGED registered /\ conn[c].at = "open" BY <1>4 DEF OpenPty, session
      <3>2. conn'[c].at = "create" /\ conn'[c].shell = s BY <2>2
      <3>3. \A d \in Connections \ {c} : conn'[d] = conn[d] BY <2>2
      <3> QED BY <2>2, <3>1, <3>2, <3>3 DEF ShellsInv, Starting
    <2> QED BY <1>4, <2>1, <2>2 DEF OpenPty
  <1>5. ASSUME NEW c \in Connections, Create(c) PROVE ShellsInv'
    <2> DEFINE s == conn[c].shell
    <2>1. conn[c].at = "create" BY <1>5 DEF Create
    <2>2. \A d \in Connections \ {c} : conn'[d] = conn[d] BY <1>5 DEF Create
    <2>3. CASE Refuses
      <3>1. UNCHANGED registered /\ pty' = [pty EXCEPT ![s] = "gone"]
        BY <1>5, <2>3 DEF Create, Refused
      <3>2. \A t \in Shells : pty'[t] = "running" => pty[t] = "running" /\ t # s BY <3>1
      <3> QED BY <2>1, <2>2, <3>1, <3>2 DEF ShellsInv, Starting
    <2>4. CASE ~Refuses
      <3>1. registered' = registered \cup {s} /\ UNCHANGED pty BY <1>5, <2>4 DEF Create
      <3>2. IsFiniteSet(registered) /\ Cardinality(registered) \in Nat
            /\ ~(Cardinality(registered) >= MaxPerUser)
        BY <2>4, FS_CardinalityType DEF ShellsInv, Refuses, AtCap
      <3>3. IsFiniteSet(registered \cup {s})
            /\ (Cardinality(registered \cup {s}) = Cardinality(registered)
                \/ Cardinality(registered \cup {s}) = Cardinality(registered) + 1)
        BY <3>2, FS_AddElement
      <3>4. IsFiniteSet(registered') /\ Cardinality(registered') <= MaxPerUser
        BY <3>1, <3>2, <3>3, TerminalAssumption
      <3>5. \A t \in Shells : pty'[t] = "running" => t \in registered' \/ Starting(t)'
        BY <2>1, <2>2, <3>1 DEF ShellsInv, Starting
      <3> QED BY <3>4, <3>5 DEF ShellsInv
    <2> QED BY <2>3, <2>4
  <1>6. ASSUME NEW c \in Connections, Attach(c) \/ LeaveShell(c) \/ GiveUpConnection(c) \/ Vanish(c)
        PROVE  ShellsInv'
    <2>1. CASE Attach(c) BY <2>1, NoneStarted DEF Attach, session
    <2>2. CASE LeaveShell(c) BY <2>2, NoneStarted DEF LeaveShell, session
    <2>3. CASE GiveUpConnection(c) BY <2>3, NoneStarted DEF GiveUpConnection, session
    <2>4. CASE Vanish(c) BY <2>4, NoneStarted DEF Vanish, session
    <2> QED BY <1>6, <2>1, <2>2, <2>3, <2>4
  <1>7. ASSUME NEW s \in Shells, PumpTakes(s) \/ PumpWrites(s) \/ GraceEnds(s) PROVE ShellsInv'
    BY <1>7, NoneStarted DEF PumpTakes, PumpWrites, GraceEnds, session
  <1>8. ASSUME NEW s \in Shells, GraceCloses(s) \/ PumpEnds(s) \/ NewToken(s) PROVE ShellsInv'
    BY <1>8, NoneStarted DEF GraceCloses, PumpEnds, NewToken
  <1>9. CASE UNCHANGED terminalVars BY <1>9, NoneStarted DEF terminalVars
  <1> QED BY <1>1, <1>2, <1>3, <1>4, <1>5, <1>6, <1>7, <1>8, <1>9 DEF TerminalNext

\* For every cap and any number of windows: the registry never holds more
\* shells than the cap, and no shell runs that neither a takeover nor the grace
\* period could end.
THEOREM ShellsAreAccounted == TerminalSpec => [](TerminalTypeOK /\ ShellsAccounted)
  <1>1. TerminalInit => ShellsInv
    <2>1. IsFiniteSet({}) /\ Cardinality({}) = 0 BY FS_EmptySet
    <2> QED BY <2>1, TerminalAssumption DEF TerminalInit, ShellsInv
  <1>2. TermTyped /\ ShellsInv /\ [TerminalNext]_terminalVars => TermTyped' /\ ShellsInv'
    BY TermTypedKept, ShellsKept
  <1>3. TermTyped /\ ShellsInv => TerminalTypeOK /\ ShellsAccounted
    BY DEF TermTyped, ShellsInv, ShellsAccounted, Starting
  <1> QED BY <1>1, <1>2, <1>3, TermTypedInitially, PTL DEF TerminalSpec

-----------------------------------------------------------------------------
(***************************************************************************)
(* The stream of a shell (PtyStream)                                       *)
(***************************************************************************)

\* Once the channel is closed, no reader is where a send follows: the readers
\* that began before the tear-down have stopped, and later ones never read.
StreamInv ==
    /\ reader \in [StreamFds -> {"unborn", "reading", "sending", "late", "stopped"}]
    /\ ~sentOnClosed
    /\ output = "closed" => torn /\ \A f \in StreamFds : reader[f] \notin {"reading", "sending"}

LEMMA StreamInitially == StreamInit => StreamInv
  BY DEF StreamInit, StreamInv

LEMMA ReaderStep ==
    ASSUME StreamInv, NEW f \in StreamFds,
           StartReader(f) \/ ReadMessage(f) \/ ReadError(f) \/ SendOutput(f) \/ SeeDone(f)
    PROVE  StreamInv'
  <1>1. CASE StartReader(f)
    BY <1>1 DEF StartReader, StreamInv
  <1>2. CASE ReadMessage(f)
    <2>1. output # "closed"
      BY <1>2 DEF ReadMessage, StreamInv
    <2> QED
      BY <1>2, <2>1 DEF ReadMessage, StreamInv
  <1>3. CASE ReadError(f)
    BY <1>3 DEF ReadError, StreamInv
  <1>4. CASE SendOutput(f)
    <2>1. output # "closed"
      BY <1>4 DEF SendOutput, StreamInv
    <2> QED
      BY <1>4, <2>1 DEF SendOutput, StreamInv
  <1>5. CASE SeeDone(f)
    BY <1>5 DEF SeeDone, StreamInv
  <1> QED
    BY <1>1, <1>2, <1>3, <1>4, <1>5

LEMMA StreamInductive == StreamInv /\ [StreamNext]_streamVars => StreamInv'
  <1> SUFFICES ASSUME StreamInv, [StreamNext]_streamVars PROVE StreamInv'
    OBVIOUS
  <1>1. CASE UNCHANGED streamVars
    BY <1>1 DEF streamVars, StreamInv
  <1>2. CASE Consume \/ ShellExits \/ TearDown
    BY <1>2 DEF Consume, ShellExits, TearDown, StreamInv
  <1>3. CASE CloseOutput
    BY <1>3 DEF CloseOutput, MayClose, Live, StreamInv
  <1> QED
    BY <1>1, <1>2, <1>3, ReaderStep DEF StreamNext

\* No read loop ever sends on the output channel after it was closed, which
\* would end the panel with a panic (finish closes it after wg.Wait), whichever
\* of the loops, the exit marker, the monitor or Close begins the tear-down.
THEOREM OutputNeverReopened == StreamSpec => []NoSendOnClosed
  BY StreamInitially, StreamInductive, PTL DEF StreamSpec, StreamInv, NoSendOnClosed

-----------------------------------------------------------------------------
(***************************************************************************)
(* Batch create jobs (BatchJob)                                            *)
(***************************************************************************)

\* Nothing is reported of a job but by the goroutine that works on it.
JobTrue(j) ==
    /\ \A n \in DOMAIN jobs[j].items :
          ~Reporting(j, n) => Tells(jobs[j].items[n], made[j][n])
    /\ jobs[j].done = Cardinality({n \in DOMAIN jobs[j].items : IsSettled(jobs[j].items[n].state)})
    /\ jobs[j].finished => jobs[j].done = Cardinality(DOMAIN jobs[j].items)

\* Where the goroutine is in its list: what is ahead is pending, what is behind
\* is settled, and the result under way is what its Add has made.
EntryKnown(b) ==
    /\ b.job \in DOMAIN jobs /\ b.job = running /\ ~jobs[b.job].finished
    /\ b.todo \subseteq DOMAIN jobs[b.job].items
    /\ b.name = None => b.result = None
    /\ b.name # None =>
          /\ b.name \in DOMAIN jobs[b.job].items /\ b.name \notin b.todo
          /\ jobs[b.job].items[b.name].state = "running" /\ ~jobs[b.job].items[b.name].password
          /\ b.result = None => made[b.job][b.name] = "no"
          /\ b.result \in {"fresh", "inherited"} => made[b.job][b.name] = b.result
          /\ b.result = "failed" => made[b.job][b.name] \in {"no", "leftover"}
    /\ \A n \in b.todo : /\ jobs[b.job].items[n].state = "pending" /\ ~jobs[b.job].items[n].password
                          /\ made[b.job][n] = "no"
    /\ \A n \in DOMAIN jobs[b.job].items :
          n \in b.todo \/ n = b.name \/ IsSettled(jobs[b.job].items[n].state)

BatchInv ==
    /\ BatchTypeOK
    /\ \A j \in DOMAIN jobs : JobTrue(j)
    /\ batch # None => EntryKnown(batch)

ItemStates == [state : {"pending", "running", "done", "failed"}, password : BOOLEAN]
Record(items, done, finished, old) ==
    [items |-> items, done |-> done, finished |-> finished, old |-> old]

LEMMA ItemsOf ==
    ASSUME NEW r \in JobStates
    PROVE  /\ DOMAIN r.items \subseteq Entrants /\ r.items \in [DOMAIN r.items -> ItemStates]
           /\ r.done \in Nat /\ r.finished \in BOOLEAN /\ r.old \in BOOLEAN
           /\ r = Record(r.items, r.done, r.finished, r.old)
  BY DEF JobStates, Items, ItemStates, Record

LEMMA JobOf ==
    ASSUME NEW names \in SUBSET Entrants, NEW items \in [names -> ItemStates], NEW done \in Nat,
           NEW finished \in BOOLEAN, NEW old \in BOOLEAN
    PROVE  Record(items, done, finished, old) \in JobStates
  <1>1. items \in Items(names) BY DEF Items, ItemStates
  <1> QED BY <1>1 DEF JobStates, Record

LEMMA JobEdited ==
    ASSUME NEW r \in JobStates, NEW v
    PROVE  /\ [r EXCEPT !.finished = v] = Record(r.items, r.done, v, r.old)
           /\ [r EXCEPT !.old = v] = Record(r.items, r.done, r.finished, v)
  <1>1. \A I, D, f, o : /\ [Record(I, D, f, o) EXCEPT !.finished = v] = Record(I, D, v, o)
                        /\ [Record(I, D, f, o) EXCEPT !.old = v] = Record(I, D, f, v)
    BY DEF Record
  <1>2. PICK I, D, f, o : r = Record(I, D, f, o) BY ItemsOf
  <1>3. r.items = I /\ r.done = D /\ r.finished = f /\ r.old = o BY <1>2 DEF Record
  <1> QED BY <1>1, <1>2, <1>3

\* A report changes one item of one job.
LEMMA ReportMoves ==
    ASSUME BatchTypeOK, NEW j \in DOMAIN jobs, NEW n \in DOMAIN jobs[j].items,
           NEW state \in {"pending", "running", "done", "failed"}, NEW password \in BOOLEAN,
           jobs' = Reported(j, n, state, password)
    PROVE  /\ DOMAIN jobs' = DOMAIN jobs /\ jobs' \in [DOMAIN jobs -> JobStates]
           /\ \A i \in DOMAIN jobs : i # j => jobs'[i] = jobs[i]
           /\ DOMAIN jobs'[j].items = DOMAIN jobs[j].items
           /\ \A m \in DOMAIN jobs[j].items : m # n => jobs'[j].items[m] = jobs[j].items[m]
           /\ jobs'[j].items[n].state = state
           /\ jobs'[j].items[n].password <=> jobs[j].items[n].password \/ password
           /\ jobs'[j].done = IF IsSettled(state) THEN jobs[j].done + 1 ELSE jobs[j].done
           /\ jobs'[j].finished = jobs[j].finished
  <1> DEFINE r == jobs[j]
             items == [r.items EXCEPT ![n] = Item(state, r.items[n].password \/ password)]
             done == IF IsSettled(state) THEN r.done + 1 ELSE r.done
             d == Record(items, done, r.finished, r.old)
  <1>1. r \in JobStates /\ jobs \in [DOMAIN jobs -> JobStates] BY DEF BatchTypeOK
  <1>2. /\ DOMAIN r.items \subseteq Entrants /\ r.items \in [DOMAIN r.items -> ItemStates]
        /\ r.done \in Nat /\ r.finished \in BOOLEAN /\ r.old \in BOOLEAN
        /\ r = Record(r.items, r.done, r.finished, r.old)
    BY <1>1, ItemsOf
  <1>3. Item(state, r.items[n].password \/ password) \in ItemStates BY DEF Item, ItemStates
  <1>4. items \in [DOMAIN r.items -> ItemStates] BY <1>2, <1>3
  <1>5. done \in Nat BY <1>2
  <1>6. d \in JobStates BY <1>2, <1>4, <1>5, JobOf
  <1>7. [r EXCEPT !.items[n] = Item(state, @.password \/ password),
                  !.done = IF IsSettled(state) THEN @ + 1 ELSE @] = d
    <2>1. [r EXCEPT !.items[n] = Item(state, @.password \/ password)] = [r EXCEPT !.items = items]
      OBVIOUS
    <2>2. [r EXCEPT !.items = items] = Record(items, r.done, r.finished, r.old)
      <3> HIDE DEF items
      <3> QED BY <1>2 DEF Record
    <2>3. [Record(items, r.done, r.finished, r.old) EXCEPT !.done = IF IsSettled(state) THEN @ + 1 ELSE @] = d
      <3> HIDE DEF items
      <3> QED BY DEF Record
    <2> QED BY <2>1, <2>2, <2>3, ZenonT(60)
  <1>8. jobs' = [jobs EXCEPT ![j] = d]
    <2>1. jobs' = [jobs EXCEPT ![j] = [r EXCEPT !.items[n] = Item(state, @.password \/ password),
                                                !.done = IF IsSettled(state) THEN @ + 1 ELSE @]]
      BY <1>1, <1>2 DEF Reported
    <2> QED BY <1>7, <2>1
  <1>9. d.items = items /\ d.done = done /\ d.finished = r.finished BY DEF Record
  <1> HIDE DEF d, items, done
  <1>10. jobs'[j] = d /\ DOMAIN jobs' = DOMAIN jobs /\ jobs' \in [DOMAIN jobs -> JobStates]
         /\ \A i \in DOMAIN jobs : i # j => jobs'[i] = jobs[i]
    BY <1>1, <1>6, <1>8
  <1>11. /\ DOMAIN items = DOMAIN r.items
         /\ \A m \in DOMAIN r.items : m # n => items[m] = r.items[m]
         /\ items[n].state = state
         /\ items[n].password <=> r.items[n].password \/ password
    BY <1>2 DEF items, Item
  <1> QED BY <1>9, <1>10, <1>11 DEF done

\* The jobs that are kept are as they were.
LEMMA KeptJobs ==
    ASSUME BatchTypeOK, NEW ids \in SUBSET DOMAIN jobs, jobs' = KeepJobs(ids)
    PROVE  /\ DOMAIN jobs' = ids /\ jobs' \in [ids -> JobStates]
           /\ \A i \in ids : jobs'[i] = jobs[i]
  BY DEF BatchTypeOK, KeepJobs

\* A job that nobody reports to, and whose accounts stay, stays true.
LEMMA JobUndisturbed ==
    ASSUME NEW j, JobTrue(j), jobs'[j].items = jobs[j].items, jobs'[j].done = jobs[j].done,
           jobs'[j].finished = jobs[j].finished,
           \A n \in DOMAIN jobs[j].items : /\ Reporting(j, n) => Reporting(j, n)'
                                           /\ made'[j][n] = made[j][n]
    PROVE  JobTrue(j)'
  BY DEF JobTrue

LEMMA BatchBegins == BatchInit => BatchInv
  BY BatchAssumption DEF BatchInit, BatchInv, BatchTypeOK

\* NextEntry: a pending item is running.
LEMMA NextHolds ==
    ASSUME BatchInv, NextEntry
    PROVE  BatchInv'
  <1> USE DEF BatchInv
  <1>0. /\ batch \in BatchStates /\ batch.name = None /\ EntryKnown(batch) /\ batch.result = None
        /\ UNCHANGED <<form, running, sharePinned, made>>
    BY DEF NextEntry, BatchTypeOK, EntryKnown
  <1>1. PICK n \in batch.todo : /\ batch' = [batch EXCEPT !.name = n, !.todo = @ \ {n}]
                                /\ jobs' = Reported(batch.job, n, "running", FALSE)
    BY DEF NextEntry
  <1> DEFINE j == batch.job
             items == jobs[j].items
  <1>2. /\ j \in DOMAIN jobs /\ n \in DOMAIN items /\ n \in Entrants /\ n # None
        /\ items[n].state = "pending" /\ ~items[n].password /\ made[j][n] = "no"
    BY <1>0, BatchAssumption DEF EntryKnown, BatchStates
  <1>3. /\ DOMAIN jobs' = DOMAIN jobs /\ jobs' \in [DOMAIN jobs -> JobStates]
        /\ \A i \in DOMAIN jobs : i # j => jobs'[i] = jobs[i]
        /\ DOMAIN jobs'[j].items = DOMAIN items
        /\ \A m \in DOMAIN items : m # n => jobs'[j].items[m] = items[m]
        /\ jobs'[j].items[n].state = "running" /\ (jobs'[j].items[n].password <=> items[n].password \/ FALSE)
        /\ jobs'[j].done = jobs[j].done /\ jobs'[j].finished = jobs[j].finished
    <2>1. ~IsSettled("running") BY DEF IsSettled
    <2> QED BY <1>1, <1>2, <2>1, ReportMoves
  <1>4. ~jobs'[j].items[n].password BY <1>2, <1>3
  <1>5. /\ batch' \in BatchStates /\ batch'.job = j /\ batch'.name = n /\ batch'.todo = batch.todo \ {n}
        /\ batch'.result = None /\ batch' # None
    <2>1. batch.todo \ {n} \in SUBSET Entrants BY <1>0 DEF BatchStates
    <2>2. batch' \in BatchStates BY <1>0, <1>1, <1>2, <2>1 DEF BatchStates
    <2>3. batch'.job = j /\ batch'.name = n /\ batch'.todo = batch.todo \ {n} /\ batch'.result = None
      BY <1>0, <1>1 DEF BatchStates
    <2> QED BY <2>2, <2>3, NoBatchAssumption
  <1>6. BatchTypeOK' BY <1>0, <1>3, <1>5 DEF BatchTypeOK
  <1>7. ASSUME NEW i \in DOMAIN jobs' PROVE JobTrue(i)'
    <2>1. CASE i # j BY <1>0, <1>3, <2>1, JobUndisturbed DEF Reporting
    <2>2. CASE i = j
      <3>2. {m \in DOMAIN items : IsSettled(jobs'[j].items[m].state)}
              = {m \in DOMAIN items : IsSettled(items[m].state)}
        BY <1>2, <1>3 DEF IsSettled
      <3>3. JobTrue(j) /\ ~\E m \in DOMAIN items : Reporting(j, m)
        <4>1. \A m \in DOMAIN items : m # None
          <5>1. jobs[j] \in JobStates BY <1>2 DEF BatchTypeOK
          <5> QED BY <5>1, ItemsOf, BatchAssumption
        <4> QED BY <1>0, <1>2, <4>1 DEF Reporting
      <3>4. Reporting(j, n)' BY <1>5 DEF Reporting
      <3>5. \A m \in DOMAIN items : m # n => jobs'[j].items[m] = items[m] BY <1>3
      <3>6. \A m \in DOMAIN jobs'[i].items :
               ~Reporting(i, m)' => Tells(jobs'[i].items[m], made'[i][m])
        <4> SUFFICES ASSUME NEW m \in DOMAIN jobs'[i].items, ~Reporting(i, m)'
                     PROVE  Tells(jobs'[i].items[m], made'[i][m])
          OBVIOUS
        <4>1. m \in DOMAIN items BY <1>3, <2>2
        <4>4. m # n BY <1>5, <2>2 DEF Reporting
        <4>2. jobs'[i].items[m] = items[m] /\ made'[i][m] = made[j][m] BY <1>0, <2>2, <3>5, <4>1, <4>4
        <4>3. Tells(items[m], made[j][m]) BY <3>3, <4>1 DEF JobTrue
        <4> QED BY <4>2, <4>3
      <3>7. jobs'[i].done = Cardinality({m \in DOMAIN jobs'[i].items : IsSettled(jobs'[i].items[m].state)})
        <4>1. {m \in DOMAIN jobs'[i].items : IsSettled(jobs'[i].items[m].state)}
                = {m \in DOMAIN items : IsSettled(items[m].state)}
          BY <1>3, <2>2, <3>2
        <4>2. jobs[j].done = Cardinality({m \in DOMAIN items : IsSettled(items[m].state)})
          BY <3>3 DEF JobTrue
        <4> QED BY <1>3, <2>2, <4>1, <4>2
      <3>8. jobs'[i].finished => jobs'[i].done = Cardinality(DOMAIN jobs'[i].items)
        BY <1>3, <2>2, <3>3 DEF JobTrue
      <3> QED BY <3>6, <3>7, <3>8 DEF JobTrue
    <2> QED BY <2>1, <2>2
  <1>8. EntryKnown(batch)'
    <2>1. /\ j \in DOMAIN jobs' /\ j = running' /\ ~jobs'[j].finished
          /\ batch.todo \ {n} \subseteq DOMAIN jobs'[j].items
      BY <1>0, <1>3 DEF EntryKnown
    <2>2. \A m \in batch.todo \ {n} : /\ jobs'[j].items[m].state = "pending" /\ ~jobs'[j].items[m].password
                                       /\ made[j][m] = "no"
      BY <1>0, <1>3 DEF EntryKnown
    <2>3. \A m \in DOMAIN jobs'[j].items : m \in batch.todo \ {n} \/ m = n \/ IsSettled(jobs'[j].items[m].state)
      <3>1. \A m \in DOMAIN items : m \in batch.todo \/ m = None \/ IsSettled(items[m].state)
        BY <1>0 DEF EntryKnown
      <3>2. \A m \in DOMAIN items : m # None
        <4>1. jobs[j] \in JobStates BY <1>2 DEF BatchTypeOK
        <4> QED BY <4>1, ItemsOf, BatchAssumption
      <3> QED BY <1>3, <3>1, <3>2
    <2> QED BY <1>0, <1>2, <1>3, <1>4, <1>5, <2>1, <2>2, <2>3, BatchAssumption DEF EntryKnown
  <1> QED BY <1>6, <1>7, <1>8

\* CreateEntry: what is made of the name is what the result says.
LEMMA CreateHolds ==
    ASSUME BatchInv, CreateEntry
    PROVE  BatchInv'
  <1> USE DEF BatchInv
  <1> DEFINE j == batch.job
             n == batch.name
  <1>0. /\ batch \in BatchStates /\ n # None /\ batch.result = None /\ EntryKnown(batch)
        /\ UNCHANGED <<form, jobs, running, sharePinned>> /\ n \in Entrants /\ j \in JobIds
    BY DEF CreateEntry, BatchTypeOK, BatchStates
  <1>1. made[j][n] = "no" /\ made[j] \in [Entrants -> {"no", "fresh", "inherited", "leftover"}]
    BY <1>0 DEF EntryKnown, BatchTypeOK
  <1> DEFINE Made(how, r) ==
           /\ batch' = [batch EXCEPT !.result = r]
           /\ made' = [made EXCEPT ![j][n] = how]
           /\ r \in {"fresh", "inherited"} => how = r
           /\ r = "failed" => how \in {"no", "leftover"}
  <1>2. PICK how \in {"no", "fresh", "inherited", "leftover"},
             r \in {"fresh", "inherited", "failed"} : Made(how, r)
    <2>1. CASE UNCHANGED made /\ batch' = [batch EXCEPT !.result = "failed"]
      <3>1. made = [made EXCEPT ![j][n] = "no"] BY <1>0, <1>1 DEF BatchTypeOK
      <3> QED BY <2>1, <3>1
    <2>2. ASSUME NEW how \in {"fresh", "inherited"}, made' = [made EXCEPT ![j][n] = how],
                 batch' = [batch EXCEPT !.result = how]
          PROVE  Made(how, how)
      BY <2>2
    <2>3. CASE /\ made' = [made EXCEPT ![j][n] = "leftover"]
               /\ batch' = [batch EXCEPT !.result = "failed"]
      BY <2>3
    <2> QED BY <2>1, <2>2, <2>3 DEF CreateEntry
  <1>3. /\ batch' \in BatchStates /\ batch' # None /\ batch'.job = j /\ batch'.name = n
        /\ batch'.todo = batch.todo /\ batch'.result = r
    BY <1>0, <1>2, NoBatchAssumption DEF BatchStates
  <1>4. /\ made' \in [JobIds -> [Entrants -> {"no", "fresh", "inherited", "leftover"}]]
        /\ \A i \in JobIds, m \in Entrants : i # j \/ m # n => made'[i][m] = made[i][m]
        /\ made'[j][n] = how
    BY <1>0, <1>1, <1>2 DEF BatchTypeOK
  <1>5. BatchTypeOK' BY <1>0, <1>3, <1>4 DEF BatchTypeOK
  <1>6. ASSUME NEW i \in DOMAIN jobs' PROVE JobTrue(i)'
    <2>0. i \in DOMAIN jobs /\ i \in JobIds /\ DOMAIN jobs[i].items \subseteq Entrants
      <3>1. jobs[i] \in JobStates BY <1>0 DEF BatchTypeOK
      <3> QED BY <1>0, <3>1, ItemsOf DEF BatchTypeOK
    <2>1. \A m \in DOMAIN jobs[i].items : Reporting(i, m)' <=> Reporting(i, m)
      BY <1>0, <1>3, NoBatchAssumption DEF Reporting
    <2>2. CASE i # j BY <1>0, <1>4, <2>0, <2>1, <2>2, JobUndisturbed
    <2>3. CASE i = j
      <3>1. Reporting(j, n) BY <1>0, NoBatchAssumption DEF Reporting
      <3>2. \A m \in DOMAIN jobs[i].items : ~Reporting(i, m)' => made'[i][m] = made[i][m]
        BY <1>4, <2>0, <2>1, <2>3, <3>1
      <3> QED BY <1>0, <2>0, <2>1, <2>3, <3>2 DEF JobTrue
    <2> QED BY <2>2, <2>3
  <1>7. EntryKnown(batch)'
    <2>1. n \notin batch.todo /\ batch.todo \subseteq Entrants BY <1>0 DEF EntryKnown, BatchStates
    <2>2. \A m \in batch.todo : made'[j][m] = "no" BY <1>0, <1>4, <2>1 DEF EntryKnown
    <2>3. /\ batch'.result # None
          /\ batch'.result \in {"fresh", "inherited"} => made'[j][n] = batch'.result
          /\ batch'.result = "failed" => made'[j][n] \in {"no", "leftover"}
      BY <1>2, <1>3, <1>4, BatchAssumption
    <2> QED BY <1>0, <1>3, <2>2, <2>3 DEF EntryKnown
  <1> QED BY <1>5, <1>6, <1>7

\* ReportEntry: one more item is settled, as its Add went.
LEMMA ReportHolds ==
    ASSUME BatchInv, ReportEntry
    PROVE  BatchInv'
  <1> USE DEF BatchInv
  <1> DEFINE j == batch.job
             n == batch.name
             r == batch.result
             st == IF r = "failed" THEN "failed" ELSE "done"
             items == jobs[j].items
  <1>0. /\ batch \in BatchStates /\ r \in {"fresh", "inherited", "failed"} /\ EntryKnown(batch)
        /\ UNCHANGED <<form, running, sharePinned, made>>
    BY BatchAssumption DEF ReportEntry, BatchTypeOK, BatchStates
  <1>1. /\ n # None /\ n \in DOMAIN items /\ j \in DOMAIN jobs /\ items[n].state = "running" /\ ~items[n].password
        /\ r \in {"fresh", "inherited"} => made[j][n] = r
        /\ r = "failed" => made[j][n] \in {"no", "leftover"}
    BY <1>0, BatchAssumption DEF EntryKnown
  <1>2. /\ DOMAIN jobs' = DOMAIN jobs /\ jobs' \in [DOMAIN jobs -> JobStates]
        /\ \A i \in DOMAIN jobs : i # j => jobs'[i] = jobs[i]
        /\ DOMAIN jobs'[j].items = DOMAIN items
        /\ \A m \in DOMAIN items : m # n => jobs'[j].items[m] = items[m]
        /\ jobs'[j].items[n].state = st
        /\ (jobs'[j].items[n].password <=> items[n].password \/ r = "fresh")
        /\ jobs'[j].done = jobs[j].done + 1 /\ jobs'[j].finished = jobs[j].finished
    <2>1. jobs' = Reported(j, n, st, r = "fresh") /\ (r = "fresh") \in BOOLEAN BY DEF ReportEntry
    <2>2. IsSettled(st) /\ st \in {"pending", "running", "done", "failed"} BY DEF IsSettled
    <2> HIDE DEF r, st
    <2>3. jobs'[j].done = IF IsSettled(st) THEN jobs[j].done + 1 ELSE jobs[j].done
      BY <1>1, <2>1, <2>2, ReportMoves, ZenonT(60)
    <2>4. /\ DOMAIN jobs' = DOMAIN jobs /\ jobs' \in [DOMAIN jobs -> JobStates]
          /\ \A i \in DOMAIN jobs : i # j => jobs'[i] = jobs[i]
          /\ jobs'[j].finished = jobs[j].finished
      BY <1>1, <2>1, <2>2, ReportMoves
    <2>5. /\ DOMAIN jobs'[j].items = DOMAIN items
          /\ \A m \in DOMAIN items : m # n => jobs'[j].items[m] = items[m]
          /\ jobs'[j].items[n].state = st
      BY <1>1, <2>1, <2>2, ReportMoves, ZenonT(60)
    <2>6. jobs'[j].items[n].password <=> items[n].password \/ r = "fresh"
      BY <1>1, <2>1, <2>2, ReportMoves
    <2> QED BY <2>2, <2>3, <2>4, <2>5, <2>6
  <1>3. /\ DOMAIN jobs'[j].items = DOMAIN items
        /\ \A m \in DOMAIN items : m # n => jobs'[j].items[m] = items[m]
        /\ jobs'[j].items[n].state = st /\ (jobs'[j].items[n].password <=> r = "fresh")
    BY <1>1, <1>2
  <1>4. /\ batch' \in BatchStates /\ batch' # None /\ batch'.job = j /\ batch'.name = None
        /\ batch'.todo = batch.todo /\ batch'.result = None
    BY <1>0, NoBatchAssumption DEF ReportEntry, BatchStates
  <1>5. BatchTypeOK' BY <1>0, <1>2, <1>4 DEF BatchTypeOK
  <1>6. DOMAIN items \subseteq Entrants /\ jobs[j].done \in Nat
    <2>1. jobs[j] \in JobStates BY <1>1 DEF BatchTypeOK
    <2> QED BY <2>1, ItemsOf
  <1>7. ASSUME NEW i \in DOMAIN jobs' PROVE JobTrue(i)'
    <2>1. CASE i # j BY <1>0, <1>2, <2>1, JobUndisturbed DEF Reporting
    <2>2. CASE i = j
      <3>1. JobTrue(j) BY <1>1
      <3>2. \A m \in DOMAIN items : ~Reporting(j, m)'
        BY <1>4, <1>6, BatchAssumption DEF Reporting
      <3>3. \A m \in DOMAIN items : Tells(jobs'[j].items[m], made[j][m])
        <4>1. \A m \in DOMAIN items : m # n => ~Reporting(j, m) BY DEF Reporting
        <4>2. Tells(jobs'[j].items[n], made[j][n]) BY <1>0, <1>1, <1>3 DEF Tells
        <4> QED BY <1>1, <1>3, <3>1, <4>1, <4>2 DEF JobTrue
      <3> DEFINE S == {m \in DOMAIN items : IsSettled(items[m].state)}
                 T == {m \in DOMAIN items : IsSettled(jobs'[j].items[m].state)}
      <3>4. T = S \cup {n} /\ n \notin S
        BY <1>0, <1>1, <1>3 DEF IsSettled
      <3>5. IsFiniteSet(S) BY <1>6, BatchAssumption, FS_Subset
      <3>6. Cardinality(S \cup {n}) = Cardinality(S) + 1
        <4>1. Cardinality(S \cup {n}) = IF n \in S THEN Cardinality(S) ELSE Cardinality(S) + 1
          <5> HIDE DEF S
          <5> QED BY <3>5, FS_AddElement
        <4> QED BY <3>4, <4>1
      <3>7. jobs[j].done = Cardinality(S) BY <3>1 DEF JobTrue
      <3>8. jobs'[j].done = Cardinality(T) BY <1>2, <3>4, <3>6, <3>7
      <3>9. ~jobs'[j].finished BY <1>0, <1>2 DEF EntryKnown
      <3> QED BY <1>0, <1>3, <2>2, <3>2, <3>3, <3>8, <3>9 DEF JobTrue
    <2> QED BY <2>1, <2>2
  <1>8. EntryKnown(batch)'
    <2>1. n \notin batch.todo /\ batch.todo \subseteq DOMAIN items BY <1>0, <1>1 DEF EntryKnown
    <2>2. /\ j \in DOMAIN jobs' /\ j = running' /\ ~jobs'[j].finished
          /\ batch.todo \subseteq DOMAIN jobs'[j].items
      BY <1>0, <1>2 DEF EntryKnown
    <2>3. \A m \in batch.todo : /\ jobs'[j].items[m].state = "pending" /\ ~jobs'[j].items[m].password
                                /\ made[j][m] = "no"
      BY <1>0, <1>3, <2>1 DEF EntryKnown
    <2>4. \A m \in DOMAIN jobs'[j].items : m \in batch.todo \/ IsSettled(jobs'[j].items[m].state)
      <3>1. \A m \in DOMAIN items : m \in batch.todo \/ m = n \/ IsSettled(items[m].state)
        BY <1>0 DEF EntryKnown
      <3>2. IsSettled(st) BY DEF IsSettled
      <3> QED BY <1>3, <3>1, <3>2
    <2> QED BY <1>0, <1>4, <2>2, <2>3, <2>4 DEF EntryKnown
  <1> QED BY <1>5, <1>7, <1>8

\* FinishBatch: nothing is left to settle, and the slot is free.
LEMMA FinishHolds ==
    ASSUME BatchInv, FinishBatch
    PROVE  BatchInv'
  <1> USE DEF BatchInv
  <1> DEFINE j == batch.job
             items == jobs[j].items
  <1>0. /\ batch \in BatchStates /\ EntryKnown(batch) /\ batch.name = None /\ batch.todo = {}
        /\ UNCHANGED <<form, sharePinned, made>> /\ batch' = None
    BY DEF FinishBatch, BatchTypeOK
  <1>1. j \in DOMAIN jobs /\ jobs[j] \in JobStates BY <1>0 DEF EntryKnown, BatchTypeOK
  <1>2. jobs' = [jobs EXCEPT ![j].finished = TRUE] /\ running' = None
    BY <1>0, <1>1 DEF FinishBatch, EntryKnown
  <1> DEFINE d == Record(items, jobs[j].done, TRUE, jobs[j].old)
  <1>3. d \in JobStates
    <2>1. DOMAIN items \subseteq Entrants /\ items \in [DOMAIN items -> ItemStates]
          /\ jobs[j].done \in Nat /\ jobs[j].old \in BOOLEAN
      BY <1>1, ItemsOf
    <2> QED BY <2>1, JobOf
  <1>4. jobs' = [jobs EXCEPT ![j] = d]
    <2>3. jobs' = [jobs EXCEPT ![j] = [jobs[j] EXCEPT !.finished = TRUE]] BY <1>2
    <2>4. [jobs[j] EXCEPT !.finished = TRUE] = d BY <1>1, JobEdited, Zenon
    <2> QED BY <2>3, <2>4
  <1>5. d.items = items /\ d.done = jobs[j].done /\ d.finished = TRUE BY DEF Record
  <1> HIDE DEF d
  <1>6. /\ DOMAIN jobs' = DOMAIN jobs /\ jobs' \in [DOMAIN jobs -> JobStates] /\ jobs'[j] = d
        /\ \A i \in DOMAIN jobs : i # j => jobs'[i] = jobs[i]
    BY <1>1, <1>3, <1>4 DEF BatchTypeOK
  <1>7. BatchTypeOK' BY <1>0, <1>2, <1>6 DEF BatchTypeOK
  <1>8. \A i \in DOMAIN jobs : \A m \in DOMAIN jobs[i].items : ~Reporting(i, m)
    <2>1. \A i \in DOMAIN jobs : DOMAIN jobs[i].items \subseteq Entrants
      <3>1. \A i \in DOMAIN jobs : jobs[i] \in JobStates BY DEF BatchTypeOK
      <3> QED BY <3>1, ItemsOf
    <2> QED BY <1>0, <2>1, BatchAssumption DEF Reporting
  <1>9. ASSUME NEW i \in DOMAIN jobs' PROVE JobTrue(i)'
    <2>1. CASE i # j BY <1>0, <1>6, <1>8, <2>1, JobUndisturbed
    <2>2. CASE i = j
      <3>1. {m \in DOMAIN items : IsSettled(items[m].state)} = DOMAIN items
        BY <1>0, ItemsOf, <1>1, BatchAssumption DEF EntryKnown
      <3>2. jobs[j].done = Cardinality(DOMAIN items) BY <1>1, <3>1 DEF JobTrue
      <3>3. JobTrue(j) /\ \A m \in DOMAIN items : ~Reporting(j, m) BY <1>1, <1>8
      <3>4. jobs'[j].items = items /\ jobs'[j].done = jobs[j].done BY <1>5, <1>6
      <3> HIDE DEF items
      <3>5. \A m \in DOMAIN items : Tells(items[m], made[j][m])
        BY <3>3 DEF JobTrue, items
      <3>6. jobs[j].done = Cardinality({m \in DOMAIN items : IsSettled(items[m].state)})
        BY <3>3 DEF JobTrue, items
      <3> QED BY <1>0, <2>2, <3>2, <3>4, <3>5, <3>6 DEF JobTrue
    <2> QED BY <2>1, <2>2
  <1> QED BY <1>0, <1>7, <1>9

\* StartBatch, of a batch or against one under way.
LEMMA StartHolds ==
    ASSUME BatchInv, NEW f \in Forms, StartBatch(f)
    PROVE  BatchInv'
  <1> USE DEF BatchInv
  <1>0. /\ UNCHANGED <<sharePinned, made>>
        /\ form' \in [Forms -> {None} \cup SUBSET Entrants] /\ form[f] \in SUBSET Entrants
    BY DEF StartBatch, BatchTypeOK
  <1>k. Pruned(jobs) \subseteq DOMAIN jobs /\ (running \in DOMAIN jobs => running \in Pruned(jobs))
    BY DEF Pruned
  <1>1. CASE running # None
    <2>1. jobs' = KeepJobs(Pruned(jobs)) /\ UNCHANGED <<running, batch>> BY <1>1 DEF StartBatch
    <2>2. /\ DOMAIN jobs' = Pruned(jobs) /\ jobs' \in [Pruned(jobs) -> JobStates]
          /\ \A i \in Pruned(jobs) : jobs'[i] = jobs[i]
      BY <1>k, <2>1, KeptJobs
    <2>3. BatchTypeOK' BY <1>0, <1>k, <2>1, <2>2 DEF BatchTypeOK
    <2>4. \A i \in DOMAIN jobs' : JobTrue(i)' BY <1>0, <1>k, <2>1, <2>2, JobUndisturbed DEF Reporting
    <2>5. batch' # None => EntryKnown(batch)' BY <1>0, <1>k, <2>1, <2>2 DEF EntryKnown
    <2> QED BY <2>3, <2>4, <2>5
  <1>2. CASE running = None
    <2>0. batch = None BY <1>2, BatchAssumption DEF EntryKnown, BatchTypeOK, BatchStates
    <2> DEFINE names == form[f]
    <2>1. PICK j \in FreshIds :
             /\ jobs' = [i \in Pruned(jobs) \cup {j} |-> IF i = j THEN Job(names) ELSE jobs[i]]
             /\ running' = j
             /\ batch' = [job |-> j, todo |-> names, name |-> None, result |-> None]
      BY <1>2 DEF StartBatch
    <2>2. j \in JobIds /\ j \notin DOMAIN jobs /\ \A n \in Entrants : made[j][n] = "no"
      BY <2>1 DEF FreshIds
    <2>3. /\ Job(names) \in JobStates /\ DOMAIN Job(names).items = names /\ names \subseteq Entrants
          /\ \A n \in names : Job(names).items[n].state = "pending" /\ ~Job(names).items[n].password
          /\ Job(names).done = 0 /\ ~Job(names).finished
      <3>1. [n \in names |-> Item("pending", FALSE)] \in [names -> ItemStates] BY DEF Item, ItemStates
      <3>2. Record([n \in names |-> Item("pending", FALSE)], 0, FALSE, FALSE) \in JobStates
        BY <1>0, <3>1, JobOf
      <3> QED BY <1>0, <3>2 DEF Record, Job, Item
    <2>4. /\ DOMAIN jobs' = Pruned(jobs) \cup {j} /\ jobs' \in [DOMAIN jobs' -> JobStates]
          /\ jobs'[j] = Job(names)
          /\ \A i \in Pruned(jobs) : i # j /\ jobs'[i] = jobs[i]
      <3> HIDE DEF names
      <3> QED BY <1>k, <2>1, <2>2, <2>3 DEF BatchTypeOK
    <2>5. batch' \in BatchStates /\ batch' # None
      BY <1>0, <2>1, <2>2, NoBatchAssumption DEF BatchStates
    <2>6. BatchTypeOK' BY <1>0, <1>k, <2>1, <2>2, <2>4, <2>5 DEF BatchTypeOK
    <2>7. ASSUME NEW i \in DOMAIN jobs' PROVE JobTrue(i)'
      <3>1. CASE i \in Pruned(jobs)
        BY <1>0, <1>k, <2>0, <2>4, <3>1, JobUndisturbed DEF Reporting
      <3>2. CASE i = j
        <4>1. {n \in names : IsSettled(Job(names).items[n].state)} = {}
          BY <2>3 DEF IsSettled
        <4>2. \A n \in names : made'[j][n] = "no" BY <1>0, <2>2
        <4>3. jobs'[j].items = Job(names).items /\ jobs'[j].done = 0 /\ ~jobs'[j].finished BY <2>3, <2>4
        <4>4. Cardinality({n \in DOMAIN jobs'[i].items : IsSettled(jobs'[i].items[n].state)}) = 0
          <5>1. {n \in DOMAIN jobs'[i].items : IsSettled(jobs'[i].items[n].state)} = {}
            BY <2>3, <3>2, <4>1, <4>3
          <5> QED BY <5>1, FS_EmptySet
        <4>5. \A n \in DOMAIN jobs'[i].items : /\ jobs'[i].items[n].state = "pending"
                                              /\ ~jobs'[i].items[n].password /\ made'[i][n] = "no"
          BY <2>3, <3>2, <4>2, <4>3
        <4> QED BY <3>2, <4>3, <4>4, <4>5 DEF JobTrue, Tells
      <3> QED BY <2>4, <3>1, <3>2
    <2>8. EntryKnown(batch)'
      <3>1. batch'.job = j /\ batch'.todo = names /\ batch'.name = None /\ batch'.result = None BY <2>1
      <3> HIDE DEF names
      <3>2. jobs'[j].items = Job(names).items /\ DOMAIN Job(names).items = names /\ ~jobs'[j].finished
        BY <2>3, <2>4
      <3>3. \A n \in names : /\ jobs'[j].items[n].state = "pending" /\ ~jobs'[j].items[n].password
                             /\ made'[j][n] = "no"
        BY <1>0, <2>2, <2>3, <3>2
      <3> QED BY <2>1, <2>4, <3>1, <3>2, <3>3 DEF EntryKnown
    <2> QED BY <2>5, <2>6, <2>7, <2>8
  <1> QED BY <1>1, <1>2

LEMMA BatchIdle ==
    ASSUME BatchInv, UNCHANGED <<jobs, running, batch, made>>
    PROVE  (\A j \in DOMAIN jobs' : JobTrue(j)') /\ (batch' # None => EntryKnown(batch)')
  <1>1. \A j \in DOMAIN jobs' : JobTrue(j)' BY JobUndisturbed DEF BatchInv, Reporting
  <1> QED BY <1>1 DEF BatchInv, EntryKnown

LEMMA BatchInvKept ==
    ASSUME BatchInv, [BatchNext]_batchVars
    PROVE  BatchInv'
  <1> USE DEF BatchInv
  <1>1. ASSUME NEW f \in Forms, NEW names \in SUBSET Entrants \ {{}}, ValidateBatch(f, names)
        PROVE  BatchInv'
    BY <1>1, BatchIdle DEF ValidateBatch, BatchTypeOK
  <1>2. ASSUME NEW j \in JobIds, JobAges(j) PROVE BatchInv'
    <2>0. j \in DOMAIN jobs /\ jobs[j] \in JobStates /\ UNCHANGED <<form, running, batch, sharePinned, made>>
      BY <1>2 DEF JobAges, BatchTypeOK
    <2> DEFINE d == Record(jobs[j].items, jobs[j].done, jobs[j].finished, TRUE)
    <2>1. d \in JobStates
      <3>1. DOMAIN jobs[j].items \subseteq Entrants /\ jobs[j].items \in [DOMAIN jobs[j].items -> ItemStates]
            /\ jobs[j].done \in Nat /\ jobs[j].finished \in BOOLEAN
        BY <2>0, ItemsOf
      <3> QED BY <3>1, JobOf
    <2>2. jobs' = [jobs EXCEPT ![j] = d]
      <3>2. [jobs[j] EXCEPT !.old = TRUE] = d BY <2>0, JobEdited, Zenon
      <3>3. jobs' = [jobs EXCEPT ![j] = [jobs[j] EXCEPT !.old = TRUE]] BY <1>2 DEF JobAges
      <3> QED BY <3>2, <3>3
    <2>3. d.items = jobs[j].items /\ d.done = jobs[j].done /\ d.finished = jobs[j].finished BY DEF Record
    <2> HIDE DEF d
    <2>4. /\ DOMAIN jobs' = DOMAIN jobs /\ jobs' \in [DOMAIN jobs -> JobStates] /\ jobs'[j] = d
          /\ \A i \in DOMAIN jobs : i # j => jobs'[i] = jobs[i]
      BY <2>0, <2>1, <2>2 DEF BatchTypeOK
    <2>5. \A i \in DOMAIN jobs : /\ jobs'[i].items = jobs[i].items /\ jobs'[i].done = jobs[i].done
                                 /\ jobs'[i].finished = jobs[i].finished
      BY <2>3, <2>4
    <2>6. BatchTypeOK' BY <2>0, <2>4 DEF BatchTypeOK
    <2>7. \A i \in DOMAIN jobs' : JobTrue(i)' BY <2>0, <2>4, <2>5, JobUndisturbed DEF Reporting
    <2>8. batch' # None => EntryKnown(batch)' BY <2>0, <2>4, <2>5 DEF EntryKnown
    <2> QED BY <2>6, <2>7, <2>8
  <1>4. CASE ShareWithdrawn
    BY <1>4, BatchIdle DEF ShareWithdrawn, BatchTypeOK
  <1>5. CASE BatchPanelRestart
    <2>1. DOMAIN jobs' = {} /\ jobs' \in [{} -> JobStates]
      BY <1>5, KeptJobs DEF BatchPanelRestart
    <2> QED BY <1>5, <2>1 DEF BatchPanelRestart, BatchTypeOK
  <1>6. CASE UNCHANGED batchVars
    BY <1>6, BatchIdle DEF batchVars, BatchTypeOK
  <1> QED BY <1>1, <1>2, <1>4, <1>5, <1>6, NextHolds, CreateHolds, ReportHolds, FinishHolds, StartHolds
       DEF BatchNext, BatchStep

\* The job page tells the truth about the accounts of a batch: one that its Add has
\* made is shown as done and no other is, with its password exactly if it was given
\* one of its own, what a failed Add left behind is shown as failed, the counter counts the settled items, a finished job has none unsettled, and the
\* goroutine always has the job that holds the slot to report to.
THEOREM BatchIsHonest == BatchSpec => [](BatchTypeOK /\ BatchHonest)
  <1>1. BatchInv /\ [BatchNext]_batchVars => BatchInv' BY BatchInvKept
  <1>2. BatchInv => BatchTypeOK /\ BatchHonest
    BY DEF BatchInv, BatchHonest, JobTrue, EntryKnown
  <1> QED BY <1>1, <1>2, BatchBegins, PTL DEF BatchSpec

-----------------------------------------------------------------------------
(***************************************************************************)
(* Opening the database (Migrations)                                       *)
(***************************************************************************)

OpenerType ==
    opener \in [Openers -> [at: {"closed", "migrating", "open"}, next: 0..SchemaVersion + 1]]

\* A database with a gap in its records: every binary refuses it, for ever.
HasGap ==
    /\ \A p \in Openers : opener[p] = Closed
    /\ \E k \in Versions : \E h \in 2..k - 1 : recorded = (2..k) \ {h}

\* A database without one is at some version k, and every process has found a
\* prefix of it: what it would run next is at most the version after k.
UpTo(k) ==
    /\ schema = 1..k /\ recorded = 2..k
    /\ \A v \in Versions : v > k => ran[v] = 0
    /\ \A p \in Openers : opener[p].at # "closed" => opener[p].next \in 2..k + 1
    /\ \A p \in Openers : opener[p].at = "open" => BinaryVersion[p] < opener[p].next

MigrationsInv ==
    /\ OpenerType /\ ran \in [Versions -> Nat] /\ recorded \subseteq Versions
    /\ RunsOnce
    /\ HasGap \/ \E k \in Versions : UpTo(k)

\* The version a binary reads off the records is the newest of them.
LEMMA CurrentIsNewest ==
    ASSUME NEW applied \in SUBSET Versions, NEW k \in applied \cup {1},
           \A w \in applied : w <= k, k >= 1
    PROVE  Current(applied) = k
  <1>1. \A v \in applied \cup {1} : (\A w \in applied : w <= v) => v = k
    BY DEF Versions
  <1> QED
    BY <1>1 DEF Current

LEMMA MigrationsInitially == MigrationsInit => MigrationsInv
  <1> SUFFICES ASSUME MigrationsInit PROVE MigrationsInv
    OBVIOUS
  <1>1. PICK k \in Versions :
            /\ schema = 1..k /\ recorded \in {2..k} \cup {(2..k) \ {h} : h \in 2..k - 1}
            /\ ran = [v \in Versions |-> IF v <= k THEN 1 ELSE 0]
            /\ opener = [p \in Openers |-> Closed]
    BY DEF MigrationsInit
  <1>2. OpenerType /\ \A p \in Openers : opener[p].at = "closed" /\ opener[p] = Closed
    BY <1>1, MigrationsAssumption DEF OpenerType, Closed
  <1>3. ran \in [Versions -> Nat] /\ RunsOnce /\ \A v \in Versions : v > k => ran[v] = 0
    BY <1>1, MigrationsAssumption DEF RunsOnce, Versions
  <1>4. recorded \subseteq Versions
    BY <1>1, MigrationsAssumption DEF Versions
  <1>5. CASE recorded = 2..k
    BY <1>1, <1>2, <1>3, <1>4, <1>5 DEF MigrationsInv, UpTo
  <1>6. CASE recorded # 2..k
    <2>1. \E h \in 2..k - 1 : recorded = (2..k) \ {h}
      BY <1>1, <1>6
    <2> QED
      BY <1>2, <1>3, <1>4, <2>1 DEF MigrationsInv, HasGap
  <1> QED
    BY <1>5, <1>6

\* A gap is found by whoever reads the records.
LEMMA GapIsRefused ==
    ASSUME NEW k \in Versions, NEW h \in 2..k - 1
    PROVE  ~Complete((2..k) \ {h})
  <1> DEFINE applied == (2..k) \ {h}
  <1>1. applied \in SUBSET Versions /\ k \in applied \cup {1} /\ k >= 1
        /\ \A w \in applied : w <= k
    BY MigrationsAssumption DEF Versions
  <1>2. Current(applied) = k
    BY <1>1, CurrentIsNewest
  <1>3. h \in 2..k /\ h \notin applied
    BY DEF Versions
  <1> QED
    BY <1>2, <1>3 DEF Complete

LEMMA ReadStep ==
    ASSUME MigrationsInv, NEW p \in Openers, ReadApplied(p)
    PROVE  MigrationsInv'
  <1>1. UNCHANGED <<schema, recorded, ran>> /\ opener[p] = Closed
    BY DEF ReadApplied
  <1>2. CASE HasGap
    <2>1. ~Complete(recorded)
      BY <1>2, GapIsRefused DEF HasGap
    <2>2. UNCHANGED opener
      BY <2>1 DEF ReadApplied
    <2> QED
      BY <1>1, <1>2, <2>2 DEF MigrationsInv, OpenerType, HasGap, RunsOnce
  <1>3. ASSUME NEW k \in Versions, UpTo(k)
        PROVE  MigrationsInv'
    <2>1. Current(recorded) = k
      <3>1. recorded \in SUBSET Versions /\ k \in recorded \cup {1} /\ k >= 1
            /\ \A w \in recorded : w <= k
        BY <1>3, MigrationsAssumption DEF UpTo, Versions, MigrationsInv
      <3> QED
        BY <3>1, CurrentIsNewest
    <2>2. UNCHANGED opener
          \/ opener' = [opener EXCEPT ![p] = [at |-> "migrating", next |-> k + 1]]
      BY <2>1 DEF ReadApplied
    <2>3. OpenerType'
      <3>1. k + 1 \in 0..SchemaVersion + 1
        BY MigrationsAssumption DEF Versions
      <3> QED
        BY <2>2, <3>1 DEF MigrationsInv, OpenerType
    <2>4. UpTo(k)'
      <3>1. \A q \in Openers :
                opener'[q] = opener[q] \/ opener'[q] = [at |-> "migrating", next |-> k + 1]
        BY <2>2 DEF MigrationsInv, OpenerType
      <3>2. k + 1 \in 2..k + 1
        BY MigrationsAssumption DEF Versions
      <3> QED
        BY <1>1, <1>3, <3>1, <3>2 DEF UpTo
    <2> QED
      BY <1>1, <2>3, <2>4 DEF MigrationsInv, RunsOnce
  <1> QED
    BY <1>2, <1>3 DEF MigrationsInv

LEMMA MigrateStep ==
    ASSUME MigrationsInv, NEW p \in Openers, Migrate(p)
    PROVE  MigrationsInv'
  <1> DEFINE v == opener[p].next
  <1>1. opener[p].at = "migrating" /\ v <= BinaryVersion[p]
    BY DEF Migrate
  <1>2. PICK k \in Versions : UpTo(k)
    BY <1>1 DEF MigrationsInv, HasGap, Closed
  <1>3. v \in 2..k + 1 /\ v \in Versions /\ v + 1 \in 0..SchemaVersion + 1
    BY <1>1, <1>2, MigrationsAssumption DEF UpTo, Versions
  <1>4. CASE /\ ~Repeats(v) /\ schema' = schema \cup {v} /\ recorded' = Recorded(v)
             /\ ran' = [ran EXCEPT ![v] = @ + 1] /\ opener' = [opener EXCEPT ![p].next = v + 1]
    <2>1. v = k + 1
      BY <1>2, <1>3, <1>4 DEF Repeats, UpTo, Versions
    <2>2. /\ k + 1 \in Versions /\ schema' = 1..k + 1 /\ recorded' = 2..k + 1
          /\ ran' = [ran EXCEPT ![k + 1] = @ + 1]
      BY <1>2, <1>3, <1>4, <2>1 DEF UpTo, Recorded, Versions
    <2>3. /\ ran'[k + 1] = 1 /\ ran' \in [Versions -> Nat]
          /\ \A w \in Versions : w # k + 1 => ran'[w] = ran[w]
      BY <1>2, <2>2 DEF UpTo, MigrationsInv, Versions
    <2>4. OpenerType'
      BY <1>3, <1>4 DEF MigrationsInv, OpenerType
    <2>5. /\ opener'[p] = [at |-> "migrating", next |-> k + 2]
          /\ \A q \in Openers : q # p => opener'[q] = opener[q]
      BY <1>1, <1>4, <2>1 DEF MigrationsInv, OpenerType, Versions
    <2>6. UpTo(k + 1)'
      <3>1. \A w \in Versions : w > k + 1 => ran'[w] = 0
        BY <1>2, <2>3 DEF UpTo, Versions
      <3>2. \A q \in Openers : opener'[q].at # "closed" => opener'[q].next \in 2..k + 2
        BY <1>2, <2>5 DEF UpTo, Versions
      <3>3. \A q \in Openers : opener'[q].at = "open" => BinaryVersion[q] < opener'[q].next
        BY <1>2, <2>5 DEF UpTo
      <3>4. k + 1 + 1 = k + 2
        BY DEF Versions
      <3> QED
        BY <2>2, <3>1, <3>2, <3>3, <3>4 DEF UpTo
    <2>7. RunsOnce'
      BY <2>3 DEF MigrationsInv, RunsOnce
    <2>8. recorded' \subseteq Versions
      <3>1. \A w \in 2..k + 1 : w \in Versions
        BY <2>2, MigrationsAssumption DEF Versions
      <3> QED
        BY <2>2, <3>1
    <2> QED
      BY <2>2, <2>3, <2>4, <2>6, <2>7, <2>8 DEF MigrationsInv
  <1>5. CASE opener' = [opener EXCEPT ![p] = Closed] /\ UNCHANGED <<schema, recorded, ran>>
    <2>1. OpenerType'
      BY <1>5, MigrationsAssumption DEF MigrationsInv, OpenerType, Closed
    <2>2. UpTo(k)'
      BY <1>2, <1>5 DEF UpTo, MigrationsInv, OpenerType, Closed
    <2> QED
      BY <1>5, <2>1, <2>2 DEF MigrationsInv, RunsOnce
  <1> QED
    BY <1>4, <1>5 DEF Migrate

LEMMA CloseStep ==
    ASSUME MigrationsInv, NEW p \in Openers, Opened(p) \/ CloseDatabase(p)
    PROVE  MigrationsInv'
  <1>1. UNCHANGED <<schema, recorded, ran>> /\ opener[p] # Closed
    BY DEF Opened, CloseDatabase, Closed
  <1>2. PICK k \in Versions : UpTo(k)
    BY <1>1 DEF MigrationsInv, HasGap
  <1>3. CASE Opened(p)
    <2>1. /\ opener[p].at = "migrating" /\ opener[p].next > BinaryVersion[p]
          /\ opener' = [opener EXCEPT ![p].at = "open"]
      BY <1>3 DEF Opened
    <2>2. /\ OpenerType' /\ opener'[p] = [at |-> "open", next |-> opener[p].next]
          /\ \A q \in Openers : q # p => opener'[q] = opener[q]
      BY <2>1 DEF MigrationsInv, OpenerType
    <2>3. opener[p].next \in 2..k + 1 /\ BinaryVersion[p] < opener[p].next
      BY <1>2, <2>1, MigrationsAssumption DEF UpTo, Versions
    <2>4. UpTo(k)'
      BY <1>1, <1>2, <2>2, <2>3 DEF UpTo
    <2> QED
      BY <1>1, <2>2, <2>4 DEF MigrationsInv, RunsOnce
  <1>4. CASE CloseDatabase(p)
    <2>1. opener' = [opener EXCEPT ![p] = Closed]
      BY <1>4 DEF CloseDatabase
    <2>2. OpenerType'
      BY <2>1, MigrationsAssumption DEF MigrationsInv, OpenerType, Closed
    <2>3. UpTo(k)'
      BY <1>1, <1>2, <2>1 DEF UpTo, MigrationsInv, OpenerType, Closed
    <2> QED
      BY <1>1, <2>2, <2>3 DEF MigrationsInv, RunsOnce
  <1> QED
    BY <1>3, <1>4

LEMMA MigrationsInductive == MigrationsInv /\ [MigrationsNext]_migrationVars => MigrationsInv'
  <1> SUFFICES ASSUME MigrationsInv, [MigrationsNext]_migrationVars PROVE MigrationsInv'
    OBVIOUS
  <1>1. CASE UNCHANGED migrationVars
    BY <1>1 DEF migrationVars, MigrationsInv, OpenerType, RunsOnce, HasGap, UpTo
  <1> QED
    BY <1>1, ReadStep, MigrateStep, CloseStep DEF MigrationsNext

\* Whatever the versions of the binaries and wherever their processes end, a
\* version takes effect at most once, and whoever has the database open finds
\* every version it knows (migrate).
THEOREM MigrationsAreSafe == MigrationsSpec => []MigrationsSafe
  <1>1. MigrationsInv => MigrationsSafe
    <2> SUFFICES ASSUME MigrationsInv, NEW p \in Openers, opener[p].at = "open"
                 PROVE  1..BinaryVersion[p] \subseteq schema \cap (recorded \cup {1})
      BY DEF MigrationsInv, MigrationsSafe, OpenIsComplete
    <2>1. PICK k \in Versions : UpTo(k)
      BY DEF MigrationsInv, HasGap, Closed
    <2>2. BinaryVersion[p] <= k /\ BinaryVersion[p] \in Nat /\ k \in Nat
      BY <2>1, MigrationsAssumption DEF UpTo, Versions
    <2> QED
      BY <2>1, <2>2 DEF UpTo
  <1> QED
    BY <1>1, MigrationsInitially, MigrationsInductive, PTL DEF MigrationsSpec

=============================================================================
