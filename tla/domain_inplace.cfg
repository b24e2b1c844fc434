\* A crash between the switch of the link and the record of the generation.
SPECIFICATION Spec
CONSTANTS
    Procs = {p1}
    Accounts = {a1, a2}
    Ips = {i1}
    Domains = {d1}
    Faults = {"crash"}
    MaxGen = 4
    Keep = 1
    MaxBusy = 1
    MaxKinds = 1
    None = None
    Bad = Bad
    Down = Down
INVARIANT CurrentComplete
