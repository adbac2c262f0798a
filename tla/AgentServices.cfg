SPECIFICATION Spec
CONSTANTS
    Sockets = {s1, s2}
    Calls = {c1, c2, c3}
    Helpers = {h1, h2}
    MaxOutput = 5
    Capacity = 2
    Limit = 7
    Looks = {o1, o2}
    Acts = {a1, a2}
    Urls = {u1, u2}
    States = {e1, e2}
INVARIANTS TypeOK OneWay BeatsWithSocket OneHelper OutputExact OneInTab
PROPERTIES NeverGivesUp CallsSettle CommandSettles
CHECK_DEADLOCK FALSE
