\* Two wakes of one agent, merged with held retries and budget restarts.
SPECIFICATION Spec
CONSTANTS
    a1 = a1
    w1 = w1
    w2 = w2
    Agent = {a1}
    Wake = {w1, w2}
    Aux = {x1}
    Token = {t1, t2}
    NoToken = NoToken
    Outcome = {"accel", "budget"}
    MaxAttempts = 1
    MaxRearms = 0
    AgentOf <- WakesForOne
    AuxAgent <- CallsForOne
SYMMETRY WakesAlike
CHECK_DEADLOCK FALSE
INVARIANTS
    WakeConserved
    OneContinuation
PROPERTIES
    QuiesceAdmitsNoNewTurn
