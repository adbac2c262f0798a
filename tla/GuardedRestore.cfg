SPECIFICATION Spec
CONSTRAINT OneScenario
CONSTANTS
    o1 = o1  o2 = o2  o3 = o3
    a1 = a1  a2 = a2  a3 = a3  b1 = b1  b2 = b2  b3 = b3
    click = click  sem = sem  web = web  sh = sh
    Ops = {o1, o2, o3}
    Calls = {a1, a2, a3, b1, b2, b3}
    Payloads = {sh, click, web}
    OpOf <- KeyOf
    PayloadOf <- BodyOf
    KindOf <- MCKindOf
    StepsOf <- MCStepsOf
    MaxEpoch = 2
    MaxRestores = 1
INVARIANTS
    TypeOK AtMostOnce ConfirmedHappened RecordsTrue FirstContact
    OneShotObservation BrowserRejectedUntouched
