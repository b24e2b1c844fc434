\* One handler at a time; every kind of failure, one kind in a behaviour.
SPECIFICATION Spec
CONSTANTS
    Procs = {p1}
    Accounts = {a1, a2}
    Ips = {i1}
    Domains = {d1, d2}
    Faults = {"db", "write", "switch", "check", "counter", "reload", "probe", "systemctl", "delete", "crash"}
    MaxGen = 4
    Keep = 1
    MaxBusy = 1
    MaxKinds = 1
    None = None
    Bad = Bad
    Down = Down
SYMMETRY Symmetry
INVARIANTS TypeOK RoutedToOwner ServedOnSuccess WithdrawnFirst AlwaysLoadable RoutesAgree
PROPERTY LiveUntouched
