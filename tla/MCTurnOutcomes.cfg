\* One wake and one auxiliary call, everything a call can come to.
SPECIFICATION FairSpec
CONSTANTS
    a1 = a1
    w1 = w1
    w2 = w2
    Agent = {a1}
    Wake = {w1}
    Aux = {x1}
    Token = {t1, t2}
    NoToken = NoToken
    Outcome = {"accel", "wait", "budget", "guard", "auto"}
    MaxAttempts = 0
    MaxRearms = 1
    AgentOf <- WakesForOne
    AuxAgent <- CallsForOne
CHECK_DEADLOCK FALSE
INVARIANTS
    TypeOK
    GateBalance
    LiveTurnHoldsToken
    AuxiliaryExclusion
PROPERTIES ImplementsAgentTurns WakesEnd
