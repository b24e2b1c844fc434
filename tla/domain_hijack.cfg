\* A delete whose publication is rejected, and its retry.
SPECIFICATION Spec
CONSTANTS
    Procs = {p1}
    Accounts = {a1, a2}
    Ips = {i1}
    Domains = {d1}
    Faults = {"check"}
    MaxGen = 4
    Keep = 1
    MaxBusy = 1
    MaxKinds = 1
    None = None
    Bad = Bad
    Down = Down
INVARIANT NoForeignRoute
