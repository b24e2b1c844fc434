\* Del drops the row although the rule file could not be removed.
SPECIFICATION Spec
CONSTANTS
    Procs = {p1}
    Names = {n1, n2}
    Slots = {s1, s2}
    Ports = {q1, q2}
    Suffixes = {x1}
    RowIds = {i1, i2}
    None = None
    Faults = {"remove"}
    Ops = {"add", "del"}
INVARIANT NoMisroute
