\* Two processes create the same name.
SPECIFICATION Spec
CONSTANTS
    Procs = {p1, p2}
    Names = {n1, n2}
    Slots = {s1, s2}
    Ports = {q1, q2}
    Suffixes = {x1}
    RowIds = {i1, i2, i3}
    None = None
    Faults = {}
    Ops = {"add"}
INVARIANT ReadyHasContainer
