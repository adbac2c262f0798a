SPECIFICATION Spec
CONSTANTS
    o1 = o1  o2 = o2  a1 = a1  a2 = a2  a3 = a3
    click = click  sem = sem  web = web  sh = sh
    Ops = {o1}
    Calls = {a1, a2}
    Payloads = {sem}
    OpOf <- OneOp
    PayloadOf <- BatchOnly
    KindOf <- MCKindOf
    StepsOf <- MCStepsOf
    MaxEpoch = 0
    MaxRestores = 0
INVARIANTS
    ApprovalUntouched
