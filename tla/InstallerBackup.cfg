SPECIFICATION Spec
CONSTANTS
    Users = {ann, bob}
    Keys = {k1, k2}
    Codes = {c1, c2}
    Invites = {}
    MaxPairings = 2
    Files = {node, script}
    Node = node
    Procs = {p1, p2}
    MaxSetups = 1
    node = node
    script = script
    p1 = p1
    p2 = p2
PROPERTY BackupKept
SYMMETRY Symmetry
CHECK_DEADLOCK FALSE
