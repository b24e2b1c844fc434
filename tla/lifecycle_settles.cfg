\* Two processes on one account, every failure but the database's, no crash.
SPECIFICATION FairSpec
CONSTANTS
    Procs = {p1, p2}
    Names = {n1}
    Slots = {s1}
    Ports = {q1}
    Suffixes = {x1}
    RowIds = {i1, i2}
    None = None
    Faults = {"launch", "provision", "delete", "write", "remove", "reload"}
    Ops = {"add", "del", "reinstall", "share"}
PROPERTY Settles
