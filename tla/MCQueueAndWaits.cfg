\* Two external and two internal events, two consumers of pop(); one agent, two models,
\* three records, a checkpoint after each; two reminders and one failure; a call of a
\* model and one of a script of one tool, two servers, two transports of each.
SPECIFICATION PartsSpec
CONSTANTS
    Part = {"queue", "waits", "heartbeat", "calls"}
    x1 = x1
    x2 = x2
    i1 = i1
    i2 = i2
    c1 = c1
    c2 = c2
    Idle = Idle
    Pending = Pending
    Event = {x1, x2, i1, i2}
    External = {x1, x2}
    Caller = {c1, c2}
    a1 = a1
    m1 = m1
    m2 = m2
    Agent = {a1}
    Model = {m1, m2}
    EveryModel = EveryModel
    Stated = {0, 1, 9}
    LastInstant = 1
    CheckpointEvery = 1
    MaxLog = 3
    k1 = k1
    k2 = k2
    Call = {k1, k2}
    Script = {k2}
    st = st
    Stream = {st}
    StreamOf <- MCStreamOf
    ServerOf <- MCServerOf
    t1 = t1
    t2 = t2
    Tool = {t1}
    o1 = o1
    o2 = o2
    Observer = {o1, o2}
    Nobody = Nobody
    MaxEpochs = 2
    r1 = r1
    r2 = r2
    Reminder = {r1, r2}
    Interval = {2}
    Every = {1}
    Grace = 1
    Retry = 1
    MaxTimeout = 2
    LastTime = 3
    MaxFaults = 1
SYMMETRY Alike
\* The log is bounded: a full one stops the writers.
CHECK_DEADLOCK FALSE
INVARIANTS
    TypesOK
    NoSleeperBesideWork
    BindsTheHistory
    RemindersFire
    OneTerminal
PROPERTIES
    ImplementsTwoLanes
    ImplementsStatedWaits
