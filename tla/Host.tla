-------------------------------- MODULE Host --------------------------------
(***************************************************************************)
(* What the components of the host share: which kinds of call may fail in  *)
(* an instance of the model, and the value for "nothing there".            *)
(***************************************************************************)
EXTENDS Naturals, FiniteSets

CONSTANTS
    Failures,  \* the kinds of call that may fail, and of process that may die
    None

CanFail(kind) == kind \in Failures

=============================================================================
