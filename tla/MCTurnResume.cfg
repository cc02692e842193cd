\* Expected to fail: resume() waits for maintenance that waits for it.
SPECIFICATION FairSpec
CONSTANTS
    a1 = a1
    w1 = w1
    w2 = w2
    Agent = {a1}
    Wake = {w1}
    Aux = {x1}
    Token = {t1, t2}
    NoToken = NoToken
    Outcome = {"accel"}
    MaxAttempts = 0
    MaxRearms = 0
    AgentOf <- WakesForOne
    AuxAgent <- CallsForOne
CHECK_DEADLOCK FALSE
PROPERTY ResumeReturns
