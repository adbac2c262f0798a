SPECIFICATION TabSpec
CONSTANTS
    Looks = {o1, o2}
    Acts = {a1, a2}
    Urls = {u1, u2}
    States = {e1, e2}
INVARIANT StartsNoBrowser
CHECK_DEADLOCK FALSE
