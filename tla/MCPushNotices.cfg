\* The pushes alone.
SPECIFICATION StoresSpec
CONSTANTS
    Part = {"pushes"}
    MaxState = 2
    MaxLog = 5
    p1 = p1  p2 = p2  t1 = t1  t2 = t2
    NoAgent = NoAgent
    Resident = {p1, p2}
    Primary = p1
    Task = {t1, t2}
    MaxNumber = 2
    MaxMail = 1
    MaxActs = 4
    MaxFaults = 1
    e1 = e1  e2 = e2  e3 = e3
    Event = {e1, e2, e3}
    NoEvent = NoEvent
    MaxEvents = 3
SYMMETRY Alike
\* Records, requests and pushes are bounded: the writers stop.
CHECK_DEADLOCK FALSE
INVARIANT
    NoticesSurvive
