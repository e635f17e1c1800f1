SPECIFICATION Spec
CONSTANTS
    p1 = p1
    p2 = p2
    exports = exports
    netplan = netplan
    old = old
    new = new
    Proc = {p1, p2}
    NoProc = NoProc
    File = {exports, netplan}
    Content = {old, new}
    Absent = Absent
    History <- OneSnapshot
    Playbook <- Renders
    MaxId = 3
    MaxSnapshots = 1
    Aged <- NoneAged
SYMMETRY Symmetry
INVARIANTS
    PreChangeKept
    RollbackRestores
    RestoreWrites
    JournalOwn
CHECK_DEADLOCK FALSE
