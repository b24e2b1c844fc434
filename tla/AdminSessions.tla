---------------------------- MODULE AdminSessions ----------------------------
(***************************************************************************)
(* The operator's sessions (admin/sessions.go, db/admin_session.go,        *)
(* admin/handlers.go): a login prunes the table, then inserts its row, and *)
(* nothing keeps another login from doing the same in between.             *)
(*                                                                         *)
(*   operator     the admin_sessions rows, by number in order of rowid     *)
(*   outdated     those whose deadline has passed                          *)
(*   signIn       what each login in flight does next                      *)
(*   opened       the rows inserted so far                                 *)
(***************************************************************************)
EXTENDS Host

CONSTANTS
    SignIns,   \* concurrent logins of the operator
    AdminMax,  \* sessionStore.max (2048 in the code)
    MaxOpened  \* bound on the rows ever inserted

ASSUME AdminAssumption ==
    AdminMax \in Nat \ {0} /\ MaxOpened \in Nat /\ IsFiniteSet(SignIns)

VARIABLES operator, outdated, signIn, opened

adminVars == <<operator, outdated, signIn, opened>>

AdminInit ==
    operator = {} /\ outdated = {} /\ signIn = [r \in SignIns |-> "idle"] /\ opened = 0

\* handleLogin with the right password, sessionStore.create: PruneAdminSessions
\* deletes the outdated rows and counts the rest ...
AdminLogin(r) ==
    /\ signIn[r] = "idle"
    /\ operator' = operator \ outdated /\ outdated' = {}
    /\ signIn' = [signIn EXCEPT ![r] = IF Cardinality(operator') < AdminMax THEN "create" ELSE "prune"]
    /\ UNCHANGED opened

\* ... then keeps the newest max - 1 of what is there now, by rowid.
Newest(S, k) ==
    {T \in SUBSET S : /\ Cardinality(T) <= k /\ (T = S \/ Cardinality(T) = k)
                      /\ \A t \in T, u \in S \ T : u < t}

KeepMax(S) == Newest(S, AdminMax)                                  \* mutant
KeptTokens(S) == Newest(S, AdminMax - 1)
PruneAdminSessions(r) ==
    /\ signIn[r] = "prune" /\ signIn' = [signIn EXCEPT ![r] = "create"]
    /\ operator' \in KeptTokens(operator) /\ outdated' = outdated \cap operator'
    /\ UNCHANGED opened

CreateAdminSession(r) ==
    /\ signIn[r] = "create" /\ signIn' = [signIn EXCEPT ![r] = "idle"]
    /\ opened < MaxOpened /\ opened' = opened + 1
    /\ operator' = operator \cup {opened'}
    /\ UNCHANGED outdated

Outdate(t) ==
    /\ t \in operator \ outdated /\ outdated' = outdated \cup {t}
    /\ UNCHANGED <<operator, signIn, opened>>

\* A logout, or AdminSessionValid finding the row of a returning session outdated.
DeleteAdminSession(t) ==
    /\ operator' = operator \ {t} /\ outdated' = outdated \ {t}
    /\ UNCHANGED <<signIn, opened>>

\* handleAdminPass keeps the session that asked; `vps admin-passwd` keeps none.
ClearAdminSessionsExcept(keep) ==
    /\ operator' = operator \cap keep /\ outdated' = outdated \cap keep
    /\ UNCHANGED <<signIn, opened>>

AdminNext ==
    \/ \E r \in SignIns : AdminLogin(r) \/ PruneAdminSessions(r) \/ CreateAdminSession(r)
    \/ \E t \in operator : Outdate(t) \/ DeleteAdminSession(t) \/ ClearAdminSessionsExcept({t})
    \/ ClearAdminSessionsExcept({})

AdminSpec == AdminInit /\ [][AdminNext]_adminVars

-----------------------------------------------------------------------------
(* Properties *)

AdminTypeOK ==
    /\ operator \subseteq 1..opened /\ outdated \subseteq operator /\ opened \in 0..MaxOpened
    /\ signIn \in [SignIns -> {"idle", "prune", "create"}]

\* "max caps how many sessions may exist at once" (sessionStore): rows stay
\* within the cap give or take the logins that prune at the same time before any
\* of them inserts.
AdminCapped == Cardinality(operator) <= AdminMax - 1 + Cardinality(SignIns)

=============================================================================
