\* A log of four records over two versions of the branch state; two residents
\* and two tasks with one mail; three pushes, stops, crashes and failures in all.
SPECIFICATION StoresSpec
CONSTANTS
    Part = {"journal", "registry", "pushes"}
    MaxState = 2
    MaxLog = 4
    p1 = p1  p2 = p2  t1 = t1  t2 = t2
    NoAgent = NoAgent
    Resident = {p1, p2}
    Primary = p1
    Task = {t1, t2}
    MaxNumber = 2
    MaxMail = 1
    MaxActs = 3
    MaxFaults = 1
    e1 = e1  e2 = e2  e3 = e3
    Event = {e1, e2, e3}
    NoEvent = NoEvent
    MaxEvents = 3
SYMMETRY Alike
\* Records, requests and pushes are bounded: the writers stop.
CHECK_DEADLOCK FALSE
INVARIANTS
    TypesOK
    CheckpointsCoverReduced
    LoadedIsTheLog
    DurableSurvives
    AssertedStateSurvives
    AcceptedIsKept
    LandsOnce
    InterruptedIsToldOnce
    KeepsAccepted
PROPERTIES
    StoresOnlyTheCurrent
    UnseenIsUnseen
