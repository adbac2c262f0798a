SPECIFICATION Spec
CONSTANTS
    Users = {ann, bob, cid}
    Keys = {k1}
    Codes = {c1, c2}
    Invites = {i1, i2}
    MaxPairings = 2
    Grants = {g1, g2}
    Issues = {t1, t2, t3}
    Savers = {s1, s2}
    Requests = {q1, q2, q3}
    Devices = {d1, d2}
    Nothing = Nothing
    Calls = {r1, r2, r3}
    Epoch = 1
    MaxClock = 4
    MaxLength = 3
    Week = 2
    Asks = {a1}
    MaxChanges = 2
INVARIANTS TypeOK UsedOnce AccessGranted InvitesEndWithPairing OneRenewal SavedOnce UsageExact PlansSound
PROPERTIES ImplementsChain
CHECK_DEADLOCK FALSE
