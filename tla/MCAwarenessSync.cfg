\* One mark, a rollback and a suppression over it, one retract request, any two
\* of the three made: a sync after an answer that could not be written.
SPECIFICATION Spec
CONSTANTS
    m1 = m1
    b1 = b1
    b2 = b2
    r1 = r1
    Mark = {m1}
    Batch = {b1, b2}
    Retract = {r1}
    RefsOf <- MCRefsOf
    Suppression = {b2}
    MaxAttempts = 3
    MaxActs = 2
PROPERTY SyncTriesWhatIsOwed
