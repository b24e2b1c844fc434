--------------------------- MODULE MCDomainRouting ---------------------------
(***************************************************************************)
(* DomainRouting for TLC: accounts, addresses, domains and processes are   *)
(* interchangeable.                                                        *)
(***************************************************************************)
EXTENDS DomainRouting, TLC

Symmetry == Permutations(Accounts) \cup Permutations(Ips) \cup Permutations(Domains)
               \cup Permutations(Procs)

=============================================================================
