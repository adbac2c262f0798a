SPECIFICATION Spec
CONSTANTS
    own = own  mem = mem  r1 = r1  r2 = r2  r3 = r3
    t1 = t1  t2 = t2  s1 = s1  s2 = s2  s3 = s3
    Users = {own, mem}
    Owner = own
    Rpcs = {r1, r2}
    Caller <- MCCaller
    Kind <- Control
    Tasks = {t1}
    Sockets = {s1, s2}
    Lease = 2
    Timeout = 1
    CoreMayRestart = FALSE
PROPERTIES
    TimedOutKeepsDevice
