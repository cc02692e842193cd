\* One mark, a rollback and a suppression over it, one retract request, any two of the
\* three made; two senders, three drafts, two restarts or failures; a tool of a toolset and
\* one of none, one change, one message lost, request failed or connection broken.
SPECIFICATION PartsSpec
CONSTANTS
    Part = {"marks", "drafts", "presence", "asked"}
    m1 = m1
    b1 = b1
    b2 = b2
    q1 = q1
    Mark = {m1}
    Batch = {b1, b2}
    Retract = {q1}
    RefsOf <- MCRefsOf
    Suppression = {b2}
    MaxAttempts = 2
    MaxActs = 2
    s1 = s1
    s2 = s2
    Sender = {s1, s2}
    KeepNewest = 2
    MaxDrafts = 3
    MaxSends = 3
    MaxResend = 2
    DraftActs = 4
    t1 = t1
    t2 = t2
    Tool = {t1, t2}
    g1 = g1
    Toolset = {g1}
    NoToolset = NoToolset
    ServerActs = 1
    ServerFaults = 1
    MaxFaults = 2
SYMMETRY Alike
\* Time, requests and faults are bounded: the heartbeat and the server stop.
CHECK_DEADLOCK FALSE
INVARIANTS
    TypesOK
    LaterActWins
    MayLandIsOnRecord
    LedgerNeverAhead
    AttemptsAreCounted
    AskedIsServed
    ReadsTheJournal
    SettledAgrees
PROPERTIES
    NoSilentRepeat
