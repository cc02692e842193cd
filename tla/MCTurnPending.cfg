\* Expected to fail: a primary stays pending with nobody to run it.
SPECIFICATION Spec
CONSTANTS
    a1 = a1
    w1 = w1
    w2 = w2
    Agent = {a1}
    Wake = {w1}
    Aux = {x1}
    Token = {t1, t2}
    NoToken = NoToken
    Outcome = {"accel", "wait"}
    MaxAttempts = 0
    MaxRearms = 0
    AgentOf <- WakesForOne
    AuxAgent <- CallsForOne
CHECK_DEADLOCK FALSE
INVARIANT PendingPrimaryHasOwner
