--------------------------- MODULE MCUserLifecycle ---------------------------
(***************************************************************************)
(* UserLifecycle for TLC: processes, names, addresses, ports and row ids   *)
(* are interchangeable.  Row ids and ports alone are where a property      *)
(* chooses among names (LeaseSpec).                                        *)
(***************************************************************************)
EXTENDS UserLifecycle, TLC

IdSymmetry == Permutations(RowIds) \cup Permutations(Ports)

Symmetry == IdSymmetry \cup Permutations(Names) \cup Permutations(Slots)
               \cup Permutations(Procs)

=============================================================================
