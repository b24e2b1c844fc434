\* One process (opMu), every handler, every failure but a rule file that cannot be removed, crashes anywhere.
SPECIFICATION Spec
CONSTANTS
    Procs = {p1}
    Names = {n1, n2}
    Slots = {s1, s2}
    Ports = {q1, q2}
    Suffixes = {x1}
    RowIds = {i1, i2}
    None = None
    Faults = {"launch", "provision", "delete", "write", "reload", "db", "crash"}
    Ops = {"add", "del", "reinstall", "share", "applyv4"}
SYMMETRY IdSymmetry
INVARIANTS TypeOK AddressExclusive SafeInv
PROPERTIES RowOutlivesContainer ReadyIsEarned CreateForwards PolicyApplied LeaseSpec
