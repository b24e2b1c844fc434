------------------------------ MODULE Ipv6Pool ------------------------------
(***************************************************************************)
(* Pool mode (mgr/ipv6pool.go): the addresses of net.ipv6_pool, who has    *)
(* one, and the shape of the containers.                                   *)
(*                                                                         *)
(*   pool     the panel's net.ipv6_pool                                    *)
(*   address  users.ipv6_address: None or an address; Gone: no account     *)
(*   shape    the address of the container's routed NIC; Gone: no container*)
(*   tenantsUp  the containers that run                                    *)
(*   bound    addresses the host holds on its external interface           *)
(*   work     the create or assignment that holds opMu                     *)
(*   editor   what each pool form holds: the address to remove             *)
(*   booted   the boot unit has rewired since the last reboot              *)
(***************************************************************************)
EXTENDS Host

CONSTANTS
    Tenants,
    Addresses,
    PoolEditors, \* admin forms that change the pool
    Gone

ASSUME PoolAssumption == {None, Gone} \cap Addresses = {} /\ None # Gone

VARIABLES pool, address, shape, tenantsUp, bound, work, editor, booted

poolVars == <<pool, address, shape, tenantsUp, bound, work, editor, booted>>

NoWork == [at |-> "none", tenant |-> None, pick |-> None]

\* The provider binds every address to the host.
PoolInit ==
    /\ pool \in SUBSET Addresses
    /\ address = [t \in Tenants |-> Gone] /\ shape = [t \in Tenants |-> Gone]
    /\ tenantsUp = {} /\ bound = Addresses \ pool
    /\ work = NoWork /\ editor = [e \in PoolEditors |-> None] /\ booted = TRUE

UsedIPv6Addresses == {address[t] : t \in Tenants} \cap Addresses
WorkAt(at) == work' = [work EXCEPT !.at = at]
IncusFails == CanFail("incus")

\* pickPoolIPv6: the one asked for, or the first free one.
PickPoolIPv6(pick) == pick \in pool \ UsedIPv6Addresses

-----------------------------------------------------------------------------
(* Add, with a picked address or none *)

AddTenant(t, pick) ==
    /\ work = NoWork /\ address[t] = Gone /\ shape[t] = Gone
    /\ pick = None \/ PickPoolIPv6(pick)
    /\ work' = [at |-> "create", tenant |-> t, pick |-> pick]
    /\ UNCHANGED <<pool, address, shape, tenantsUp, bound, editor, booted>>

CreateBox ==
    /\ work.at = "create"
    /\ \/ /\ shape' = [shape EXCEPT ![work.tenant] = work.pick]
          /\ tenantsUp' = tenantsUp \cup {work.tenant}
          /\ WorkAt("wire_new")
       \/ IncusFails /\ work' = NoWork /\ UNCHANGED <<shape, tenantsUp>>
    /\ UNCHANGED <<pool, address, bound, editor, booted>>

\* WireIPv6Pool: the host lets go of the address.
LetGo(addrs) == bound \ addrs

\* The guest's configuration may fail, and then the container goes again.
WireNew ==
    /\ work.at = "wire_new"
    /\ \/ bound' = LetGo({work.pick}) /\ WorkAt("insert") /\ UNCHANGED <<shape, tenantsUp>>
       \/ IncusFails /\ UNCHANGED bound /\ work' = NoWork
             /\ shape' = [shape EXCEPT ![work.tenant] = Gone]
             /\ tenantsUp' = tenantsUp \ {work.tenant}
    /\ UNCHANGED <<pool, address, editor, booted>>

InsertTenant ==
    /\ work.at = "insert"
    /\ address' = [address EXCEPT ![work.tenant] = work.pick] /\ work' = NoWork
    /\ UNCHANGED <<pool, shape, tenantsUp, bound, editor, booted>>

DelTenant(t) ==
    /\ work = NoWork /\ address[t] # Gone
    /\ address' = [address EXCEPT ![t] = Gone] /\ shape' = [shape EXCEPT ![t] = Gone]
    /\ tenantsUp' = tenantsUp \ {t}
    /\ UNCHANGED <<pool, bound, work, editor, booted>>

-----------------------------------------------------------------------------
(* AssignPoolIPv6 *)

Assign(t, pick) ==
    /\ work = NoWork /\ address[t] = None /\ PickPoolIPv6(pick)
    /\ address' = [address EXCEPT ![t] = pick]
    /\ work' = [at |-> "stop", tenant |-> t, pick |-> pick]
    /\ UNCHANGED <<pool, shape, tenantsUp, bound, editor, booted>>

AssignStop ==
    /\ work.at = "stop"
    /\ \/ tenantsUp' = tenantsUp \ {work.tenant} /\ WorkAt("reshape")
       \/ IncusFails /\ WorkAt("restore") /\ UNCHANGED tenantsUp
    /\ UNCHANGED <<pool, address, shape, bound, editor, booted>>

\* ReplaceConfig twice; the second may fail after the first has made the NIC.
AssignReshape ==
    /\ work.at = "reshape"
    /\ \/ shape' = [shape EXCEPT ![work.tenant] = work.pick]
             /\ (WorkAt("start") \/ (IncusFails /\ WorkAt("restore")))
       \/ IncusFails /\ WorkAt("restore") /\ UNCHANGED shape
    /\ UNCHANGED <<pool, address, tenantsUp, bound, editor, booted>>

\* Start, WaitReady and the guest's configuration.
AssignStart ==
    /\ work.at = "start"
    /\ \/ tenantsUp' = tenantsUp \cup {work.tenant} /\ (WorkAt("detach") \/ (IncusFails /\ WorkAt("restore")))
       \/ IncusFails /\ WorkAt("restore") /\ UNCHANGED tenantsUp
    /\ UNCHANGED <<pool, address, shape, bound, editor, booted>>

AssignDetach ==
    /\ work.at = "detach"
    /\ bound' = LetGo({work.pick}) /\ work' = NoWork
    /\ UNCHANGED <<pool, address, shape, tenantsUp, editor, booted>>

\* The row first, then the configuration as the row now says, best effort.
KeepNew(t) == work.pick                                            \* mutant
OldShape(t) == None
RestoreShape ==
    LET t == work.tenant IN
    /\ work.at = "restore"
    /\ address' = [address EXCEPT ![t] = None]
    /\ \/ shape' = [shape EXCEPT ![t] = OldShape(t)]
       \/ CanFail("restore") /\ UNCHANGED shape
    /\ tenantsUp' = tenantsUp \cup {t} /\ work' = NoWork
    /\ UNCHANGED <<pool, bound, editor, booted>>

-----------------------------------------------------------------------------
(* The pool forms, without a lock, and the host *)

AddPoolIPv6(a) ==
    /\ PoolEditors # {} /\ a \notin pool
    /\ pool' = pool \cup {a} /\ bound' = LetGo(pool')
    /\ UNCHANGED <<address, shape, tenantsUp, work, editor, booted>>

RemoveCheck(e, a) ==
    /\ editor[e] = None /\ a \in pool \ UsedIPv6Addresses
    /\ editor' = [editor EXCEPT ![e] = a]
    /\ UNCHANGED <<pool, address, shape, tenantsUp, bound, work, booted>>

RemoveSave(e) ==
    /\ editor[e] # None
    /\ pool' = pool \ {editor[e]} /\ editor' = [editor EXCEPT ![e] = None]
    /\ UNCHANGED <<address, shape, tenantsUp, bound, work, booted>>

\* The provider's configuration comes back; Incus starts the containers; the
\* panel's operation is gone.
HostReboots ==
    /\ CanFail("host") /\ booted /\ work = NoWork
    /\ bound' = Addresses /\ booted' = FALSE
    /\ UNCHANGED <<pool, address, shape, tenantsUp, work, editor>>

\* vps-ipv6.service.
RewireAllIPv6Pool ==
    /\ ~booted /\ booted' = TRUE /\ bound' = LetGo(pool)
    /\ UNCHANGED <<pool, address, shape, tenantsUp, work, editor>>

PoolNext ==
    \/ \E t \in Tenants :
          \/ \E pick \in Addresses \cup {None} : AddTenant(t, pick)
          \/ \E pick \in Addresses : Assign(t, pick)
          \/ DelTenant(t)
    \/ CreateBox \/ WireNew \/ InsertTenant
    \/ AssignStop \/ AssignReshape \/ AssignStart \/ AssignDetach \/ RestoreShape
    \/ \E a \in Addresses : AddPoolIPv6(a)
    \/ \E e \in PoolEditors : RemoveSave(e) \/ \E a \in Addresses : RemoveCheck(e, a)
    \/ HostReboots \/ RewireAllIPv6Pool

PoolSpec == PoolInit /\ [][PoolNext]_poolVars

-----------------------------------------------------------------------------
(* Properties *)

PoolTypeOK ==
    /\ pool \subseteq Addresses /\ bound \subseteq Addresses
    /\ address \in [Tenants -> Addresses \cup {None, Gone}]
    /\ shape \in [Tenants -> Addresses \cup {None, Gone}]
    /\ tenantsUp \subseteq Tenants /\ booted \in BOOLEAN
    /\ work.tenant \in Tenants \cup {None} /\ work.pick \in Addresses \cup {None}
    /\ editor \in [PoolEditors -> Addresses \cup {None}]

\* At rest the container has the shape its row says, after an assignment that
\* failed at any call too (AssignPoolIPv6's restore), and so no two containers
\* have the same address.
ShapeFollowsRow ==
    work = NoWork =>
        /\ shape = address
        /\ \A s, t \in Tenants : s # t /\ shape[s] \in Addresses => shape[s] # shape[t]

\* "while the host holds it the kernel treats it as a LOCAL address": once the
\* boot unit has run, no address of the pool that a container has is held by the
\* host, over assignments, changes of the pool and reboots (WireIPv6Pool).
HostLetsGo ==
    booted /\ work = NoWork => \A t \in Tenants : shape[t] \in pool => shape[t] \notin bound

\* What the assignment and the host promise of a pool address.
PoolSafe == ShapeFollowsRow /\ HostLetsGo

=============================================================================
