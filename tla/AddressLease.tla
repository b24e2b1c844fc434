---------------------------- MODULE AddressLease ----------------------------
(***************************************************************************)
(* The container addresses as leases: what the account handlers promise    *)
(* about the IPv4 slots of the container subnet, without rows, containers  *)
(* or failures.  UserLifecycle implements it.                              *)
(***************************************************************************)
CONSTANTS
    Names,   \* the accounts
    Slots,   \* the addresses
    Nobody   \* not an account: the holder of a free address

VARIABLE owner

Init == owner = [s \in Slots |-> Nobody]

\* A free address is handed out.
Claim(n, s) == owner[s] = Nobody /\ owner' = [owner EXCEPT ![s] = n]

\* An address goes back to the pool.
Release(s) == owner' = [owner EXCEPT ![s] = Nobody]

Next == \E s \in Slots : Release(s) \/ \E n \in Names : Claim(n, s)

Spec == Init /\ [][Next]_owner

=============================================================================
