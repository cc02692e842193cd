\* One tool of one toolset, two changes of the server, two faults.
SPECIFICATION PartsSpec
CONSTANTS
    Part = {"presence"}
    m1 = m1
    b1 = b1
    b2 = b2
    q1 = q1
    Mark = {m1}
    Batch = {b1, b2}
    Retract = {q1}
    RefsOf <- MCRefsOf
    Suppression = {b2}
    MaxAttempts = 3
    MaxActs = 2
    s1 = s1
    s2 = s2
    Sender = {s1, s2}
    KeepNewest = 2
    MaxDrafts = 3
    MaxSends = 2
    MaxResend = 2
    DraftActs = 5
    t1 = t1
    t2 = t2
    Tool = {t1}
    g1 = g1
    Toolset = {g1}
    NoToolset = NoToolset
    ServerActs = 2
    ServerFaults = 2
    MaxFaults = 2
CHECK_DEADLOCK FALSE
INVARIANT RecoveryKnows
