---------------------------- MODULE TurnScheduler ----------------------------
(***************************************************************************)
(* The framework's turn scheduler (src/framework.ts): wakes queue as       *)
(* inference requests; a pass of the event loop groups them by agent and   *)
(* starts at most one turn for each; a turn assembles, streams and ends,   *)
(* or goes on later through a continuation request (a budget restart, or   *)
(* the retry a provider hold keeps).  Primary turns and auxiliary calls    *)
(* share one admission gate for each agent, provider holds park requests,  *)
(* and the operator quiesces, abandons, resumes and stops the host.        *)
(*                                                                         *)
(* JavaScript runs one callback at a time: an action is the code between   *)
(* two awaits.                                                             *)
(***************************************************************************)
EXTENDS Naturals, FiniteSets

CONSTANTS
    Agent,          \* agents, each owning its provider scheduling
    Wake,           \* external causes of a turn, each arriving at most once
    AgentOf,        \* the agent a wake is for
    Aux,            \* calls a maintenance pass makes through admission
    AuxAgent,       \* the agent an auxiliary call is made for
    Token,          \* live turn tokens (nextTurnToken, reused once free)
    NoToken,
    Outcome,        \* what calls come to in this instance, besides an end
    MaxAttempts,    \* in-turn retries the error policy allows
    MaxRearms       \* re-arms of an exhausted turn (turnRearmMs.length)

ASSUME SchedulerConstants ==
    /\ AgentOf \in [Wake -> Agent]
    /\ AuxAgent \in [Aux -> Agent]
    /\ NoToken \notin Token
    /\ Outcome \subseteq {"accel", "wait", "budget", "guard", "auto"}
    /\ MaxAttempts \in Nat /\ MaxRearms \in Nat

VARIABLES
    pending,        \* pendingRequests
    pass,           \* passRequests: what the running pass has still to handle
    passing,        \* whether a pass is running
    gate,           \* providerGates: depth, pending primary, recovery
    aux,            \* where each auxiliary call stands in withAuxiliaryAdmission
    hold,           \* providerAccelerationCooldowns
    bound,          \* whether a recorded provider wait binds the agent
    parked,         \* starts waiting for auxiliary idle
    frames,         \* startAgentStream / driveStream frames alive
    token,          \* activeTurnTokens
    rearms,         \* turnRearms
    quiesced,       \* quiesced
    resuming,       \* a resume() is under way
    awaited,        \* the auxiliary calls (maintenance) that resume() waits for
    closed,         \* providerAdmissionClosed: stop() has begun
    arrived, over, dropped  \* history: wakes queued; whose turn ended; not run

work == <<pending, pass, passing>>
host == <<quiesced, resuming, awaited, closed>>
story == <<arrived, over, dropped>>
vars == <<work, gate, aux, hold, bound, parked, frames, token, rearms, host, story>>

(* A request is a set of parts: one, or the batch of a merged start         *)
(* (MERGED_BATCH).  A part reads the wakes its turn answers.  "retry" is a  *)
(* held turn's retry (TURN_RETRY), "restart" a budget or guard restart,     *)
(* "auto" an autoContinue wake, which answers none, "wake" any other.       *)
Part == [kind : {"wake", "retry", "restart"}, reads : SUBSET Wake]
            \cup [kind : {"auto"}, reads : {{}}]
Request == [agent : Agent, parts : SUBSET Part]

Continues(p) == p.kind \in {"retry", "restart"}         \* continuesTurn, passesQuiesce
ContinuesTurn(r) == \E p \in r.parts : Continues(p)
Reads(parts) == UNION {p.reads : p \in parts}
PartsOf(R) == UNION {r.parts : r \in R}
Of(a, R) == {r \in R : r.agent = a}
Singly(a, parts) == {[agent |-> a, parts |-> {p}] : p \in parts}
Request1(a, kind, reads) == [agent |-> a, parts |-> {[kind |-> kind, reads |-> reads]}]

Gate == [depth : Nat, pending : BOOLEAN, recovery : {"none", "held", "released"}]
OpenGate == [depth |-> 0, pending |-> FALSE, recovery |-> "none"]

Hold == [kind : {"none", "accel", "wait", "rearm"}, held : SUBSET Request,
         aux : BOOLEAN, emptied : BOOLEAN]
Adding(h, R) == [h EXCEPT !.held = @ \cup R]           \* holdRequest
NoHold == [kind |-> "none", held |-> {}, aux |-> FALSE, emptied |-> FALSE]

Frame == [tok : Token, agent : Agent,
          phase : {"starting", "backoff", "handing", "streaming", "ending"},
          reads : SUBSET Wake, restart : BOOLEAN, fresh : BOOLEAN,
          attempt : 0..MaxAttempts,
          stop : {"none", "caller", "abandon", "shutdown", "budget_restart", "turn_ended"},
          inPass : BOOLEAN, parent : Token \cup {NoToken}]
-----------------------------------------------------------------------------
Init ==
    /\ pending = {} /\ pass = {} /\ passing = FALSE
    /\ gate = [a \in Agent |-> OpenGate]
    /\ aux = [x \in Aux |-> "idle"]
    /\ hold = [a \in Agent |-> NoHold]
    /\ bound = [a \in Agent |-> FALSE]
    /\ parked = {} /\ frames = {}
    /\ token = [a \in Agent |-> NoToken]
    /\ rearms = [a \in Agent |-> 0]
    /\ quiesced = FALSE /\ resuming = FALSE /\ awaited = {} /\ closed = FALSE
    /\ arrived = {} /\ over = {} /\ dropped = {}

-----------------------------------------------------------------------------
(* The provider gate.                                                       *)

(* A provider wait holds its own model only and a re-arm holds nothing, so  *)
(* neither parks auxiliary calls.                                           *)
CooldownBlocksAuxiliary(h) == h.kind = "accel"

(* Defect: a live primary does not shut auxiliary calls out.                *)
BlockedByHolds(g, h) == g.pending \/ CooldownBlocksAuxiliary(h)

Blocked(g, h) == g.depth > 0 \/ g.pending \/ CooldownBlocksAuxiliary(h)

AuxRunning(a) == \E x \in Aux : AuxAgent[x] = a /\ aux[x] = "running"

(* Defects: the depth is a flag, not a count; a release goes below zero.    *)
AcquireFlag(g) == [g EXCEPT !.depth = 1, !.pending = FALSE]
ReleaseBelowZero(g) == [g EXCEPT !.depth = @ - 1]

Acquire(g) == [g EXCEPT !.depth = @ + 1, !.pending = FALSE]
Release(g) == [g EXCEPT !.depth = IF @ > 0 THEN @ - 1 ELSE 0]

(* flushAuxiliaryAdmission: every waiter goes back to its check.            *)
Flush(a, g, h) ==
    aux' = [x \in Aux |-> IF AuxAgent[x] = a /\ aux[x] = "waiting" /\ ~Blocked(g, h)
                          THEN "woken" ELSE aux[x]]

EndsPending(g) == g.pending /\ g.recovery # "none"
Ended(g) == [g EXCEPT !.pending = FALSE, !.recovery = "none"]

(* endPendingPrimary on gate g of agent a, under hold h.                    *)
EndPendingPrimary(a, g, h, when) ==
    IF when /\ EndsPending(g)
    THEN LET ended == Ended(g)
         IN  gate' = [gate EXCEPT ![a] = ended] /\ Flush(a, ended, h)
    ELSE gate' = [gate EXCEPT ![a] = g] /\ UNCHANGED aux

-----------------------------------------------------------------------------
(* Turns on their way and turns alive.                                      *)

(* pendingContinuationAgents, with `taken` already out of the pass's hands. *)
OnTheirWay(taken) ==
    {r \in pending \cup (pass \ taken) \cup parked
           \cup UNION {hold[a].held : a \in Agent} : ContinuesTurn(r)}
TurnHolders ==
    {r.agent : r \in OnTheirWay({})} \cup {a \in Agent : token[a] # NoToken}

(* What carries the turn of frame f on.                                     *)
Continuation(f) == Request1(f.agent, IF f.restart THEN "restart" ELSE "retry", f.reads)

FreeTokens == Token \ {f.tok : f \in frames}

NewFrame(a, parts, attempt, inPass, parent) ==
    [tok |-> CHOOSE t \in FreeTokens : TRUE, agent |-> a, phase |-> "starting",
     reads |-> Reads(parts),
     restart |-> \E p \in parts : p.kind = "restart",
     fresh |-> \A p \in parts : ~Continues(p),
     attempt |-> attempt, stop |-> "none", inPass |-> inPass, parent |-> parent]

(* The frame awaiting the start of frame f goes on to its own end.          *)
ReturnTo(f, F) ==
    {IF g.tok = f.parent /\ g.phase = "handing" THEN [g EXCEPT !.phase = "ending"] ELSE g : g \in F}

Become(f, g) == frames' = (frames \ {f}) \cup {g}

Waiting(f) == f.phase \in {"starting", "backoff"}      \* checkAhead has its window
-----------------------------------------------------------------------------
(* Requests arriving and withdrawn.                                         *)

(* An event handler queues a request for w's agent.                         *)
WakeArrives(w) ==
    /\ w \notin arrived
    /\ ~closed
    /\ arrived' = arrived \cup {w}
    /\ pending' = pending \cup {Request1(AgentOf[w], "wake", {w})}
    /\ UNCHANGED <<pass, passing, gate, aux, hold, bound, parked, frames, token, rearms, host,
                   over, dropped>>

IsWake(w, p) == p.kind = "wake" /\ p.reads = {w}

(* R without wake w; a request left with no part goes with it.              *)
Without(w, R) ==
    {r \in {[r EXCEPT !.parts = {p \in @ : ~IsWake(w, p)}] : r \in R} : r.parts # {}}

(* cancelCoalescedWakes: an unstarted wake leaves the queue, the holds, and *)
(* the batches of merged starts that are parked or in the pass's hands.     *)
Withdraw(w) ==
    LET merged == {r \in parked : ContinuesTurn(r)} \cup {r \in pass : Cardinality(r.parts) > 1}
        waits == {r \in pending \cup merged \cup UNION {hold[a].held : a \in Agent} :
                    \E p \in r.parts : IsWake(w, p)}
    IN  /\ waits # {}
        /\ dropped' = dropped \cup {w}
        /\ pending' = Without(w, pending)
        /\ hold' = [a \in Agent |->
                       LET left == Without(w, hold[a].held)
                       IN  [hold[a] EXCEPT !.held = left,
                              !.emptied = @ \/ (hold[a].held # {} /\ left = {})]]
        /\ parked' = (parked \ merged) \cup Without(w, parked \cap merged)
        /\ pass' = (pass \ merged) \cup Without(w, pass \cap merged)
        /\ UNCHANGED <<passing, gate, aux, bound, frames, token, rearms, host, arrived, over>>

-----------------------------------------------------------------------------
(* The pass over the queue (runInferencePass).                              *)

PassBlocked == \E f \in frames : f.inPass /\ f.phase \in {"starting", "backoff", "handing"}

PassBegins ==
    /\ ~passing /\ ~closed
    /\ pending # {}
    /\ passing' = TRUE /\ pass' = pending /\ pending' = {}
    /\ UNCHANGED <<gate, aux, hold, bound, parked, frames, token, rearms, host, story>>

PassEnds ==
    /\ passing /\ pass = {} /\ ~PassBlocked
    /\ passing' = FALSE
    /\ UNCHANGED <<pending, pass, gate, aux, hold, bound, parked, frames, token, rearms, host, story>>

Takes(a) == passing /\ ~PassBlocked /\ Of(a, pass) # {}

(* A hold still running keeps what the pass brings.                          *)
PassHolds(a) ==
    /\ Takes(a)
    /\ hold[a].kind \in {"accel", "wait"}
    /\ hold' = [hold EXCEPT ![a] = Adding(hold[a], Of(a, pass))]
    /\ pass' = pass \ Of(a, pass)
    /\ UNCHANGED <<pending, passing, gate, aux, bound, parked, frames, token, rearms, host, story>>

(* Otherwise an expired hold, or one a new wake ends early (a re-arm), gives *)
(* back what it held, and the merged starts among it are taken apart.       *)
(* Defect: what the hold kept is forgotten.                                 *)
UnheldForgotten(a) == PartsOf(Of(a, pass))

Unheld(a) == PartsOf(Of(a, pass) \cup hold[a].held)

ReleasedGate(a) ==
    IF hold[a].kind # "none" /\ gate[a].recovery = "held"
    THEN [gate[a] EXCEPT !.recovery = "released"] ELSE gate[a]

(* A recorded wait binds: a provider-wait hold keeps them all.              *)
PassWaits(a) ==
    /\ Takes(a) /\ bound[a]
    /\ hold' = [hold EXCEPT ![a] =
         IF closed THEN NoHold
         ELSE [NoHold EXCEPT !.kind = "wait", !.held = Singly(a, Unheld(a))]]
    /\ dropped' = IF closed THEN dropped \cup Reads(Unheld(a)) ELSE dropped
    /\ gate' = [gate EXCEPT ![a] = ReleasedGate(a)]
    /\ pass' = pass \ Of(a, pass)
    /\ UNCHANGED <<pending, passing, aux, bound, parked, frames, token, rearms, host, arrived, over>>

(* A quiesced host strips autoContinue wakes and lets through only what     *)
(* carries a turn on.                                                       *)
Kept(a) == IF quiesced THEN {p \in Unheld(a) : p.kind # "auto"} ELSE Unheld(a)
(* Defect: a quiesced host starts any wake.                                 *)
PassingAll(a) == Kept(a)

Passing(a) == IF quiesced THEN {p \in Kept(a) : Continues(p)} ELSE Kept(a)

(* A budget or guard restart goes with the turn's continuations alone: the  *)
(* restarts, where the framework's own rounds keep their stream.            *)
Ready(a) ==
    LET restarts == {p \in Passing(a) : p.kind = "restart"}
    IN  IF restarts # {} THEN restarts ELSE Passing(a)

(* Defect: a continuation on its way is not looked for.                     *)
BusyOnceStarted(a) ==
    \/ token[a] # NoToken /\ ~\E p \in Ready(a) : p.kind = "restart"
    \/ gate[a].depth > 0 /\ token[a] = NoToken

(* The agent can't take a turn now.  A restart's own turn doesn't count: its *)
(* old frame may still hold the token.                                      *)
Busy(a) ==
    \/ /\ ~\E p \in Ready(a) : p.kind = "restart"
       /\ \/ token[a] # NoToken
          \/ \E r \in pending \cup (pass \ Of(a, pass)) \cup parked :
                r.agent = a /\ ContinuesTurn(r)
    \/ gate[a].depth > 0 /\ token[a] = NoToken
    \/ \E f \in frames : f.agent = a /\ f.phase = "streaming" /\ f.stop \in {"none", "abandon"}

(* What a taken group leaves behind whatever becomes of Ready(a).           *)
TakeGroup(a, back) ==
    /\ Takes(a) /\ ~bound[a]
    /\ hold' = [hold EXCEPT ![a] = NoHold]
    /\ pass' = pass \ Of(a, pass)
    /\ pending' = pending \cup Singly(a, back)
    /\ UNCHANGED <<passing, bound, rearms, host, arrived>>

PassParks(a) ==
    /\ Ready(a) = {}
    /\ TakeGroup(a, Kept(a))
    /\ gate' = [gate EXCEPT ![a] = ReleasedGate(a)]
    /\ UNCHANGED <<aux, parked, frames, token, over, dropped>>

PassRequeues(a) ==
    /\ Ready(a) # {} /\ Busy(a)
    /\ TakeGroup(a, Kept(a))
    /\ gate' = [gate EXCEPT ![a] = ReleasedGate(a)]
    /\ UNCHANGED <<aux, parked, frames, token, over, dropped>>

(* Every row the group's wakes were to read has been read: no turn starts.  *)
PassReads(a) ==
    /\ Ready(a) # {} /\ ~Busy(a)
    /\ \A p \in Ready(a) : p.kind = "wake"
    /\ TakeGroup(a, Kept(a) \ Ready(a))
    /\ dropped' = dropped \cup Reads(Ready(a))
    /\ EndPendingPrimary(a, ReleasedGate(a), NoHold, TRUE)
    /\ UNCHANGED <<parked, frames, token, over>>

(* The inference policy drops the group; a continuation among it takes its  *)
(* turn with it (endContinuedTurn).                                         *)
PassDrops(a) ==
    LET back == Kept(a) \ Ready(a)
    IN  /\ Ready(a) # {} /\ ~Busy(a)
        /\ TakeGroup(a, back)
        /\ over' = over \cup Reads({p \in Ready(a) : Continues(p)})
        /\ dropped' = dropped \cup Reads({p \in Ready(a) : ~Continues(p)})
        /\ EndPendingPrimary(a, ReleasedGate(a), NoHold, Of(a, pending') = {})
        /\ UNCHANGED <<parked, frames, token>>

(* The merged start.  Continuations alone become one request.               *)
Merged(parts) ==
    IF \A p \in parts : Continues(p)
    THEN {[kind |-> IF \E p \in parts : p.kind = "restart" THEN "restart" ELSE "retry",
           reads |-> Reads(parts)]}
    ELSE parts

(* The wakes whose rows were read in the meantime go; for the others,       *)
(* startAgentStream up to its first await: the turn takes its token, or     *)
(* parks with its place in the gate while an auxiliary call runs.           *)
PassStarts(a) == \E read \in SUBSET {p \in Ready(a) : p.kind = "wake"} :
    LET parts == Merged(Ready(a) \ read)
    IN  /\ Ready(a) # read /\ ~Busy(a) /\ ~closed
        /\ TakeGroup(a, Kept(a) \ Ready(a))
        /\ dropped' = dropped \cup Reads(read)
        /\ gate' = [gate EXCEPT ![a] = Acquire(ReleasedGate(a))]
        /\ IF AuxRunning(a)
           THEN /\ parked' = parked \cup {[agent |-> a, parts |-> parts]}
                /\ UNCHANGED <<frames, token>>
           ELSE LET new == NewFrame(a, parts, 0, TRUE, NoToken)
                IN  /\ FreeTokens # {}
                    /\ frames' = frames \cup {new}
                    /\ token' = [token EXCEPT ![a] = new.tok]
                    /\ UNCHANGED parked
        /\ UNCHANGED <<aux, over>>

(* A pass still running at stop() starts nothing.                           *)
PassStopped(a) ==
    /\ Ready(a) # {} /\ ~Busy(a) /\ closed
    /\ TakeGroup(a, Kept(a) \ Ready(a))
    /\ dropped' = dropped \cup Reads(Ready(a))
    /\ UNCHANGED <<gate, aux, parked, frames, token, over>>

-----------------------------------------------------------------------------
(* A start parked behind auxiliary work goes on when the agent's last       *)
(* running auxiliary call ends, unless something changed meanwhile.         *)

Unparks(r) == r \in parked /\ (closed \/ ~AuxRunning(r.agent))

(* Defect: the quiesce is not looked at again.                              *)
GoesOnRegardless(r) == token[r.agent] = NoToken /\ hold[r.agent].kind = "none"

GoesOn(r) ==
    /\ token[r.agent] = NoToken /\ hold[r.agent].kind = "none"
    /\ quiesced => \E p \in r.parts : Continues(p) /\ r.parts = {p}

UnparkGivesBack(r) ==
    LET a == r.agent
        released == Release(gate[a])
    IN  /\ Unparks(r)
        /\ closed \/ ~GoesOn(r)
        /\ parked' = parked \ {r}
        /\ gate' = [gate EXCEPT ![a] = released]
        /\ Flush(a, released, hold[a])
        /\ IF closed
           THEN dropped' = dropped \cup Reads(r.parts) /\ UNCHANGED pending
           ELSE /\ UNCHANGED dropped
                /\ pending' = pending \cup (IF quiesced /\ token[a] = NoToken /\ ContinuesTurn(r)
                                            THEN Singly(a, r.parts) ELSE {r})
        /\ UNCHANGED <<pass, passing, hold, bound, frames, token, rearms, host, arrived, over>>

UnparkStarts(r) ==
    LET a == r.agent IN
    /\ Unparks(r) /\ ~closed /\ GoesOn(r)
    /\ parked' = parked \ {r}
    /\ IF bound[a]
       THEN \* a wait recorded by the auxiliary call holds the wake too
            LET kept == [NoHold EXCEPT !.kind = "wait", !.held = {r}]
                released == Release(gate[a])
            IN  /\ hold' = [hold EXCEPT ![a] = kept]
                /\ gate' = [gate EXCEPT ![a] = released]
                /\ Flush(a, released, kept)
                /\ UNCHANGED <<frames, token>>
       ELSE LET new == NewFrame(a, r.parts, 0, FALSE, NoToken)
            IN  /\ FreeTokens # {}
                /\ frames' = frames \cup {new}
                /\ token' = [token EXCEPT ![a] = new.tok]
                /\ UNCHANGED <<hold, gate, aux>>
    /\ UNCHANGED <<pending, pass, passing, bound, rearms, host, story>>
-----------------------------------------------------------------------------
(* A turn's start (beginAgentTurn): context and hooks are gathered, the     *)
(* request is compiled.  Nothing else of the turn runs meanwhile, but the   *)
(* host may be quiesced, abandoned, aborted or stopped.                     *)

QueueSame == UNCHANGED <<work, parked, rearms, bound, host, arrived>>

BeginStreams(f) ==
    /\ f.phase = "starting" /\ f.stop = "none" /\ ~closed
    /\ LET streaming == [f EXCEPT !.phase = "streaming", !.inPass = FALSE, !.parent = NoToken]
       IN  frames' = ReturnTo(f, frames \ {f}) \cup {streaming}
    /\ QueueSame
    /\ UNCHANGED <<gate, aux, hold, token, over, dropped>>

(* takeStartStop, or stop(): the turn ends having sent nothing.             *)
BeginStopped(f) ==
    /\ Waiting(f)
    /\ f.stop # "none" \/ closed
    /\ Become(f, [f EXCEPT !.phase = "ending"])
    /\ over' = over \cup f.reads
    /\ QueueSame
    /\ UNCHANGED <<gate, aux, hold, token, dropped>>

(* Its coalesced batches left it nothing to read: no turn starts.           *)
BeginWithdrawn(f) ==
    /\ f.phase = "starting" /\ f.fresh /\ f.attempt = 0
    /\ Become(f, [f EXCEPT !.phase = "ending"])
    /\ dropped' = dropped \cup f.reads
    /\ QueueSame
    /\ UNCHANGED <<gate, aux, hold, token, over>>

(* A dendrite-homed agent finds a wait recorded while it compiled: the turn *)
(* is held with nothing sent (holdForProviderWait keeps a hold of another   *)
(* kind and adds to it).                                                    *)
HoldForWait(a, R) ==
    hold' = [hold EXCEPT ![a] =
        IF hold[a].kind \in {"accel", "rearm"} THEN Adding(hold[a], R)
        ELSE [NoHold EXCEPT !.kind = "wait", !.held = hold[a].held \cup R]]

BeginHeld(f) ==
    /\ f.phase = "starting" /\ f.stop = "none" /\ ~closed
    /\ bound[f.agent]
    /\ HoldForWait(f.agent, {Continuation(f)})
    /\ Become(f, [f EXCEPT !.phase = "ending"])
    /\ QueueSame
    /\ UNCHANGED <<gate, aux, token, over, dropped>>

-----------------------------------------------------------------------------
(* The call failed, in the start or in the stream.                          *)

Failing(f) ==
    /\ f.phase \in {"starting", "streaming"}
    /\ f.stop = "none"

(* The failure may state a wait, which is recorded (recordProviderWait).    *)
MayBind(a) ==
    \/ UNCHANGED bound
    \/ "wait" \in Outcome /\ bound' = [bound EXCEPT ![a] = TRUE]

(* holdProviderAcceleration: an organization's acceleration limit or the    *)
(* host's own hold keeps the turn's retry, and its primary stays pending.   *)
FailsIntoHold(f) ==
    LET a == f.agent IN
    /\ "accel" \in Outcome
    /\ Failing(f) /\ ~closed
    /\ hold' = [hold EXCEPT ![a] =
         [kind |-> "accel", held |-> @.held \cup {Continuation(f)}, aux |-> FALSE, emptied |-> FALSE]]
    /\ gate' = [gate EXCEPT ![a].pending = TRUE, ![a].recovery = "held"]
    /\ MayBind(a)
    /\ Become(f, [f EXCEPT !.phase = "ending"])
    /\ UNCHANGED <<work, parked, rearms, aux, token, host, story>>

(* The provider stated a wait: it is recorded and keeps the turn's retry.   *)
FailsIntoWait(f) ==
    /\ "wait" \in Outcome
    /\ Failing(f) /\ ~closed
    /\ bound' = [bound EXCEPT ![f.agent] = TRUE]
    /\ HoldForWait(f.agent, {Continuation(f)})
    /\ Become(f, [f EXCEPT !.phase = "ending"])
    /\ UNCHANGED <<work, parked, rearms, gate, aux, token, host, story>>

(* The error policy retries in the turn, after a backoff (waitForRetry).    *)
FailsIntoRetry(f) ==
    /\ Failing(f) /\ f.attempt < MaxAttempts
    /\ Become(f, [f EXCEPT !.phase = "backoff", !.attempt = @ + 1])
    /\ QueueSame
    /\ UNCHANGED <<gate, aux, hold, token, over, dropped>>

(* The tool-result guard withheld results: the turn infers again.           *)
GuardRetries(f) ==
    /\ "guard" \in Outcome
    /\ f.phase = "streaming" /\ f.stop = "none"
    /\ Become(f, [f EXCEPT !.phase = "backoff"])
    /\ QueueSame
    /\ UNCHANGED <<gate, aux, hold, token, over, dropped>>

(* The turn ends exhausted; a transient failure may send it again later     *)
(* (rearmExhaustedTurn).                                                    *)
FailsExhausted(f) ==
    LET a == f.agent
        again == Request1(a, "wake", f.reads)
    IN  /\ Failing(f)
        /\ Become(f, [f EXCEPT !.phase = "ending"])
        /\ \/ /\ over' = over \cup f.reads
              /\ UNCHANGED <<hold, rearms>>
           \/ /\ ~closed /\ rearms[a] < MaxRearms
              /\ rearms' = [rearms EXCEPT ![a] = @ + 1]
              /\ hold' = [hold EXCEPT ![a] =
                   IF hold[a].kind # "none" THEN Adding(hold[a], {again})
                   ELSE [NoHold EXCEPT !.kind = "rearm", !.held = {again}]]
              /\ UNCHANGED over
        /\ UNCHANGED <<work, parked, gate, aux, bound, token, host, arrived, dropped>>

(* After the backoff the turn starts again, from inside its old frame,      *)
(* which still has its own place in the gate (startAgentStream).            *)
RetryStarts(f) ==
    LET a == f.agent IN
    /\ f.phase = "backoff" /\ f.stop = "none" /\ ~closed
    /\ IF AuxRunning(a)
       THEN /\ parked' = parked \cup {Continuation(f)}
            /\ gate' = [gate EXCEPT ![a] = Acquire(@)]
            /\ Become(f, [f EXCEPT !.phase = "ending"])
            /\ UNCHANGED <<token, hold>>
       ELSE IF bound[a]
       THEN /\ HoldForWait(a, {Continuation(f)})
            /\ gate' = [gate EXCEPT ![a].pending = FALSE]
            /\ Become(f, [f EXCEPT !.phase = "ending"])
            /\ UNCHANGED <<token, parked>>
       ELSE LET kind == IF f.restart THEN "restart" ELSE "retry"
                new == NewFrame(a, {[kind |-> kind, reads |-> f.reads]}, f.attempt, f.inPass, f.tok)
            IN  /\ FreeTokens # {}
                /\ frames' = (frames \ {f}) \cup {[f EXCEPT !.phase = "handing", !.reads = {}], new}
                /\ token' = [token EXCEPT ![a] = new.tok]
                /\ gate' = [gate EXCEPT ![a] = Acquire(@)]
                /\ UNCHANGED <<hold, parked>>
    /\ UNCHANGED <<work, aux, bound, rearms, host, story>>

-----------------------------------------------------------------------------
(* The stream (driveStream).                                                *)

Streams(f) == f.phase = "streaming" /\ f.stop = "none"

(* 'complete': the turn ends; an autoContinue wake may follow it.           *)
Completes(f) ==
    LET a == f.agent IN
    /\ Streams(f)
    /\ Become(f, [f EXCEPT !.phase = "ending"])
    /\ over' = over \cup f.reads
    /\ gate' = [gate EXCEPT ![a].recovery = IF @ = "released" THEN "none" ELSE @]
    /\ rearms' = [rearms EXCEPT ![a] = 0]
    /\ \/ UNCHANGED pending
       \/ "auto" \in Outcome /\ pending' = pending \cup {Request1(a, "auto", {})}
    /\ UNCHANGED <<pass, passing, parked, bound, aux, hold, token, host, arrived, dropped>>

(* Over its context budget at a tool boundary: the stream is cancelled and  *)
(* a restart carries the turn on, unless the framework is stopping.         *)
BudgetRestarts(f) ==
    /\ "budget" \in Outcome
    /\ Streams(f)
    /\ IF closed
       THEN Become(f, [f EXCEPT !.stop = "shutdown"]) /\ UNCHANGED pending
       ELSE /\ Become(f, [f EXCEPT !.stop = "budget_restart", !.reads = {}])
            /\ pending' = pending \cup {Request1(f.agent, "restart", f.reads)}
    /\ UNCHANGED <<pass, passing, parked, rearms, bound, host, gate, aux, hold, token, story>>

(* A tool result ends the turn.                                             *)
EndsTurn(f) ==
    /\ Streams(f)
    /\ Become(f, [f EXCEPT !.stop = "turn_ended", !.reads = {}])
    /\ over' = over \cup f.reads
    /\ QueueSame
    /\ UNCHANGED <<gate, aux, hold, token, dropped>>

(* A cancelled stream reports its end.                                      *)
Aborted(f) ==
    /\ f.phase = "streaming" /\ f.stop # "none"
    /\ Become(f, [f EXCEPT !.phase = "ending"])
    /\ over' = over \cup f.reads
    /\ QueueSame
    /\ UNCHANGED <<gate, aux, hold, token, dropped>>

(* Defect: the token goes although a newer frame took it.                   *)
TokenDropped(f) == [token EXCEPT ![f.agent] = NoToken]

TokenCleared(f) == [token EXCEPT ![f.agent] = IF @ = f.tok THEN NoToken ELSE @]

(* The frame's finally: it gives back its place in the gate, and its token  *)
(* unless a newer frame took it.                                            *)
Leaves(f) ==
    LET a == f.agent
        released == Release(gate[a])
    IN  /\ f.phase = "ending"
        /\ frames' = ReturnTo(f, frames \ {f})
        /\ gate' = [gate EXCEPT ![a] = released]
        /\ Flush(a, released, hold[a])
        /\ token' = TokenCleared(f)
        /\ QueueSame
        /\ UNCHANGED <<hold, over, dropped>>
-----------------------------------------------------------------------------
(* Auxiliary calls (withAuxiliaryAdmission).                                *)

AuxSame == UNCHANGED <<work, parked, frames, token, rearms, quiesced, resuming, closed, story>>

(* The call is over; a resume() waiting for its pass waits for it no more.  *)
AuxOver(x) ==
    /\ aux' = [aux EXCEPT ![x] = "idle"]
    /\ awaited' = awaited \ {x}

(* A wait recorded for the call's model refuses it (refuseHeldProviderModel).*)
AuxCalls(x) ==
    LET a == AuxAgent[x] IN
    /\ aux[x] = "idle" /\ ~closed
    /\ aux' = [aux EXCEPT ![x] = IF Blocked(gate[a], hold[a]) THEN "waiting" ELSE "running"]
    /\ AuxSame /\ UNCHANGED <<gate, hold, bound, awaited>>

AuxWoken(x) ==
    LET a == AuxAgent[x] IN
    /\ aux[x] = "woken"
    /\ IF ~closed /\ Blocked(gate[a], hold[a])
       THEN aux' = [aux EXCEPT ![x] = "waiting"] /\ UNCHANGED awaited
       ELSE \/ ~closed /\ aux' = [aux EXCEPT ![x] = "running"] /\ UNCHANGED awaited
            \/ (closed \/ bound[a]) /\ AuxOver(x)
    /\ AuxSame /\ UNCHANGED <<gate, hold, bound>>

AuxEnds(x) ==
    /\ aux[x] = "running"
    /\ AuxOver(x)
    /\ AuxSame /\ UNCHANGED <<gate, hold, bound>>

(* It failed into a stated wait, the host's own hold, or both.              *)
AuxFails(x) ==
    LET a == AuxAgent[x]
        first == hold[a].kind = "none"
    IN  /\ aux[x] = "running" /\ ~closed
        /\ AuxOver(x)
        /\ MayBind(a)
        /\ \/ UNCHANGED <<hold, gate>>
           \/ /\ "accel" \in Outcome
              /\ hold' = [hold EXCEPT ![a] =
                   [kind |-> "accel", held |-> @.held, aux |-> first \/ @.aux,
                    emptied |-> @.emptied /\ @.held = {}]]
              /\ gate' = IF first THEN gate
                         ELSE [gate EXCEPT ![a].pending = TRUE, ![a].recovery = "held"]
        /\ AuxSame

-----------------------------------------------------------------------------
(* Holds and waits end.                                                     *)

(* The wait's instant passes, or an operator releases it.                   *)
WaitEnds(a) ==
    /\ bound[a]
    /\ bound' = [bound EXCEPT ![a] = FALSE]
    /\ UNCHANGED <<work, gate, aux, hold, parked, frames, token, rearms, host, story>>

(* Defect: an expired hold gives nothing back.                              *)
GivenBackNothing(a) == {}

(* The held requests, or a retry of what the hold kept none of.             *)
GivenBack(a) == IF hold[a].held # {} THEN hold[a].held ELSE {Request1(a, "wake", {})}

(* releaseProviderAccelerationCooldown, at the hold's timer.  A hold nothing *)
(* waits in just reopens the gate; any other gives its requests back.       *)
HoldExpires(a) ==
    LET h == hold[a]
        idle == (h.aux \/ h.emptied) /\ h.held = {}
    IN  /\ h.kind # "none"
        /\ h.kind = "wait" => ~bound[a]
        /\ hold' = [hold EXCEPT ![a] = NoHold]
        /\ IF idle
           THEN LET g == IF h.emptied /\ EndsPending(gate[a])
                         THEN Ended(gate[a]) ELSE gate[a]
                IN  /\ gate' = [gate EXCEPT ![a] = g]
                    /\ Flush(a, g, NoHold)
                    /\ UNCHANGED pending
           ELSE /\ gate' = [gate EXCEPT ![a] = ReleasedGate(a)]
                /\ pending' = pending \cup GivenBack(a)
                /\ UNCHANGED aux
        /\ UNCHANGED <<pass, passing, bound, parked, frames, token, rearms, host, story>>

-----------------------------------------------------------------------------
(* Stops: of one turn, of every turn under a quiesce, of the framework.     *)

(* dropContinuations for the agents of S, wherever a continuation waits.    *)
(* What else a merged start would have read goes back to the queue, or goes *)
(* with it.                                                                 *)
DropContinuations(S, putsBack) ==
    LET gone(R) == {r \in R : r.agent \in S /\ ContinuesTurn(r)}
        wakesOf(r) == {p \in r.parts : ~Continues(p)}
        all == gone(pending \cup pass \cup parked \cup UNION {hold[a].held : a \in Agent})
        back == IF putsBack THEN UNION {Singly(r.agent, wakesOf(r)) : r \in all} ELSE {}
        left(a) == hold[a].held \ gone(hold[a].held)
        released(a) == IF gone(Of(a, parked)) # {} THEN Release(gate[a]) ELSE gate[a]
        ends(a) == /\ Of(a, all) # {}
                   /\ Of(a, (pending \ all) \cup back) = {} /\ left(a) = {}
                   /\ EndsPending(released(a))
        after(a) == IF ends(a) THEN Ended(released(a)) ELSE released(a)
    IN  /\ pending' = (pending \ all) \cup back
        /\ pass' = pass \ all
        /\ parked' = parked \ all
        /\ hold' = [a \in Agent |-> [hold[a] EXCEPT !.held = left(a),
                       !.emptied = @ \/ (hold[a].held # {} /\ left(a) = {})]]
        /\ gate' = [a \in Agent |-> after(a)]
        /\ aux' = [x \in Aux |->
                     LET a == AuxAgent[x] IN
                     IF /\ gone(Of(a, parked)) # {} \/ ends(a)
                        /\ aux[x] = "waiting" /\ ~Blocked(after(a), hold'[a])
                     THEN "woken" ELSE aux[x]]
        /\ over' = over \cup Reads({p \in PartsOf(all) : Continues(p)})
        /\ dropped' = IF putsBack THEN dropped
                      ELSE dropped \cup Reads({p \in PartsOf(all) : ~Continues(p)})

(* abortInference: the live stream is cancelled; a turn with no stream yet  *)
(* ends at its next check; a turn on its way is dropped.                    *)
Abortable(a) ==
    {f \in frames : /\ f.agent = a
                    /\ Waiting(f) \/ (f.phase = "streaming" /\ f.stop \in {"none", "abandon"})}

Abort(a) ==
    /\ \/ \E f \in Abortable(a) :
             /\ f.stop = "none"
             /\ Become(f, [f EXCEPT !.stop = "caller"])
             /\ UNCHANGED <<pending, pass, parked, hold, gate, aux, over, dropped>>
       \/ /\ Abortable(a) = {}
          /\ \E r \in OnTheirWay({}) : r.agent = a
          /\ DropContinuations({a}, TRUE)
          /\ UNCHANGED frames
    /\ UNCHANGED <<passing, bound, token, rearms, host, arrived>>

Quiesce ==
    /\ ~quiesced /\ ~closed
    /\ quiesced' = TRUE
    /\ UNCHANGED <<work, gate, aux, hold, bound, parked, frames, token, rearms,
                   resuming, awaited, closed, story>>

(* abandonActiveTurns up to its first wait.                                 *)
Abandon ==
    LET onTheirWay == {r.agent : r \in OnTheirWay({})}
        abandoned(f) == /\ f.agent \notin onTheirWay
                        /\ f.stop \in {"none", "caller"}
                        /\ Waiting(f) \/ (f.phase = "streaming" /\ f.stop = "none")
    IN  /\ quiesced
        /\ ~closed
        /\ TurnHolders # {}
        /\ DropContinuations(onTheirWay, TRUE)
        /\ frames' = {IF abandoned(f) THEN [f EXCEPT !.stop = "abandon"] ELSE f : f \in frames}
        /\ UNCHANGED <<passing, bound, token, rearms, host, arrived>>

(* resume() first waits for the maintenance pass in flight (runResume).     *)
ResumeBegins ==
    /\ quiesced /\ ~resuming /\ ~closed
    /\ resuming' = TRUE
    /\ awaited' = {x \in Aux : aux[x] # "idle"}
    /\ UNCHANGED <<work, gate, aux, hold, bound, parked, frames, token, rearms,
                   quiesced, closed, story>>

(* It is then refused (stopping, or an agent's context would not fit), or   *)
(* the host is back in service.                                             *)
ResumeEnds ==
    /\ resuming /\ awaited = {}
    /\ resuming' = FALSE
    /\ quiesced' \in (IF closed THEN {quiesced} ELSE {FALSE, quiesced})
    /\ UNCHANGED <<work, gate, aux, hold, bound, parked, frames, token, rearms,
                   awaited, closed, story>>

(* stop(), its first uninterrupted part: admission closes, turns on their   *)
(* way end, holds and the gate are cleared, live streams are cancelled.     *)
Stop ==
    LET held == UNION {hold[a].held : a \in Agent}
        ending == {r \in pending \cup pass \cup parked \cup held : ContinuesTurn(r)}
        lost == held \ ending
    IN  /\ ~closed
        /\ closed' = TRUE
        /\ pending' = pending \ ending
        /\ pass' = pass \ ending
        /\ parked' = parked \ ending
        /\ hold' = [a \in Agent |-> NoHold]
        /\ gate' = [a \in Agent |-> OpenGate]
        /\ aux' = [x \in Aux |-> IF aux[x] = "waiting" THEN "woken" ELSE aux[x]]
        /\ rearms' = [a \in Agent |-> 0]
        /\ frames' = {IF f.phase = "streaming" /\ f.stop \in {"none", "abandon"}
                      THEN [f EXCEPT !.stop = "shutdown"] ELSE f : f \in frames}
        /\ over' = over \cup Reads({p \in PartsOf(ending) : Continues(p)})
        /\ dropped' = dropped \cup Reads({p \in PartsOf(ending) : ~Continues(p)}) \cup Reads(PartsOf(lost))
        /\ UNCHANGED <<passing, bound, token, quiesced, resuming, awaited, arrived>>

-----------------------------------------------------------------------------
PassStep(a) ==
    \/ PassHolds(a) \/ PassWaits(a) \/ PassParks(a) \/ PassRequeues(a)
    \/ PassReads(a) \/ PassDrops(a) \/ PassStarts(a) \/ PassStopped(a)

FrameStep(f) ==
    \/ BeginStreams(f) \/ BeginStopped(f) \/ BeginWithdrawn(f) \/ BeginHeld(f)
    \/ FailsIntoHold(f) \/ FailsIntoWait(f) \/ FailsIntoRetry(f) \/ FailsExhausted(f)
    \/ GuardRetries(f) \/ RetryStarts(f)
    \/ Completes(f) \/ BudgetRestarts(f) \/ EndsTurn(f) \/ Aborted(f) \/ Leaves(f)

AuxStep(x) == AuxCalls(x) \/ AuxWoken(x) \/ AuxEnds(x) \/ AuxFails(x)

Operator == Quiesce \/ Abandon \/ ResumeBegins \/ ResumeEnds \/ Stop \/ \E a \in Agent : Abort(a)

Next ==
    \/ \E w \in Wake : WakeArrives(w) \/ Withdraw(w)
    \/ PassBegins \/ PassEnds
    \/ \E a \in Agent : PassStep(a)
    \/ \E r \in parked : UnparkGivesBack(r) \/ UnparkStarts(r)
    \/ \E f \in frames : FrameStep(f)
    \/ \E x \in Aux : AuxStep(x)
    \/ \E a \in Agent : WaitEnds(a) \/ HoldExpires(a)
    \/ Operator

Spec == Init /\ [][Next]_vars

(* The event loop polls, timers fire, calls return: every step of the host  *)
(* that stays possible is taken.  What the outside decides (a wake, a       *)
(* withdrawal, an operator's call, an auxiliary call's start) is not.       *)
Fairness ==
    /\ WF_vars(PassBegins) /\ WF_vars(PassEnds) /\ WF_vars(ResumeEnds)
    /\ \A a \in Agent :
         /\ WF_vars(PassStep(a)) /\ WF_vars(HoldExpires(a)) /\ WF_vars(WaitEnds(a))
         /\ WF_vars(\E r \in Of(a, parked) : UnparkGivesBack(r) \/ UnparkStarts(r))
    /\ \A t \in Token : WF_vars(\E f \in frames : f.tok = t /\ FrameStep(f))
    /\ \A x \in Aux : WF_vars(AuxWoken(x)) /\ WF_vars(AuxEnds(x) \/ AuxFails(x))

FairSpec == Spec /\ Fairness
-----------------------------------------------------------------------------
(* Properties.                                                              *)

(* The state of the pass, the gate, the holds and the turns keeps its shape,*)
(* and an agent's token is that of one of its live frames.                  *)
TypeOK ==
    /\ pending \subseteq Request /\ pass \subseteq Request /\ parked \subseteq Request
    /\ passing \in BOOLEAN
    /\ gate \in [Agent -> Gate]
    /\ aux \in [Aux -> {"idle", "waiting", "woken", "running"}]
    /\ hold \in [Agent -> Hold]
    /\ bound \in [Agent -> BOOLEAN]
    /\ frames \subseteq Frame
    /\ token \in [Agent -> Token \cup {NoToken}]
    /\ rearms \in [Agent -> 0..MaxRearms]
    /\ quiesced \in BOOLEAN /\ resuming \in BOOLEAN /\ closed \in BOOLEAN
    /\ awaited \subseteq Aux
    /\ arrived \subseteq Wake /\ over \subseteq Wake /\ dropped \subseteq Wake

FramesOf(a) == {f \in frames : f.agent = a}

(* Primary depth counts exactly the agent's turns between admission and     *)
(* release: every way a turn can end gives its place back once.             *)
GateBalance ==
    ~closed => \A a \in Agent : gate[a].depth = Cardinality(FramesOf(a)) + Cardinality(Of(a, parked))

(* While an auxiliary call runs, no primary turn of its agent is under way. *)
AuxiliaryExclusion ==
    ~closed => \A x \in Aux : aux[x] = "running" => FramesOf(AuxAgent[x]) = {}

(* A live turn's stream or start owns the agent's token, so nothing starts  *)
(* beside it and a stop reaches it.                                         *)
LiveTurnHoldsToken ==
    \A f \in frames :
        (f.phase \in {"starting", "streaming"} /\ f.stop = "none") => token[f.agent] = f.tok

(* A wake that arrived is in one place at a time: queued, held, parked,     *)
(* being answered, answered or dropped.  None is lost, none runs twice.     *)
Waits(w, r) == w \in Reads(r.parts)
Places(w) ==
    Cardinality({r \in pending : Waits(w, r)}) + Cardinality({r \in pass : Waits(w, r)})
    + Cardinality({r \in parked : Waits(w, r)})
    + Cardinality({a \in Agent : \E r \in hold[a].held : Waits(w, r)})
    + Cardinality({f \in frames : f.phase # "ending" /\ w \in f.reads})
    + (IF w \in over THEN 1 ELSE 0) + (IF w \in dropped THEN 1 ELSE 0)
WakeConserved == \A w \in arrived : Places(w) = 1

(* An agent's turn is carried on by one thing only: a queued, held or parked*)
(* continuation, or the live turn.                                          *)
OneContinuation ==
    \A a \in Agent :
        Cardinality({r \in OnTheirWay({}) : r.agent = a})
        + Cardinality({f \in FramesOf(a) : f.stop = "none" /\ f.phase \in {"starting", "backoff", "streaming"}}) <= 1

(* While the host is quiesced no turn begins that does not carry one on.    *)
QuiesceAdmitsNoNewTurn ==
    [][quiesced => \A f \in frames' :
         (f.fresh /\ f.phase = "starting") => \E g \in frames : g.tok = f.tok /\ g.fresh]_vars

(* The abstract state AgentTurns sees.                                      *)
InTurn(w) ==
    \/ \E f \in frames : f.phase # "ending" /\ w \in f.reads
    \/ \E r \in OnTheirWay({}) : \E p \in r.parts : Continues(p) /\ w \in p.reads
Turns == INSTANCE AgentTurns WITH
    stage <- [w \in Wake |-> IF w \notin arrived THEN "new"
                             ELSE IF w \in over \cup dropped THEN "done"
                             ELSE IF InTurn(w) THEN "inTurn" ELSE "waiting"],
    alive <- TurnHolders,
    serving <- ~quiesced

(* The scheduler keeps the promise of AgentTurns: a wake is taken by one    *)
(* turn of its agent, and a quiesced host begins none.                      *)
ImplementsAgentTurns == Turns!Spec

(* A primary reported pending has an owner: a hold, or a turn of the agent  *)
(* queued, parked or running, whose end reopens the gate.                   *)
PendingPrimaryHasOwner ==
    \A a \in Agent : gate[a].pending =>
        \/ hold[a].kind # "none"
        \/ Of(a, pending \cup pass \cup parked) # {}
        \/ FramesOf(a) # {}

(* Failures and endless restarts, which the outside decides.                *)
Fault ==
    \/ \E f \in frames : FailsIntoHold(f) \/ FailsIntoWait(f) \/ FailsIntoRetry(f)
                          \/ FailsExhausted(f) \/ GuardRetries(f) \/ BudgetRestarts(f)
    \/ \E x \in Aux : AuxFails(x)
Settles == <>[](~quiesced /\ ~closed) /\ <>[][~Fault]_vars

(* On a serving host whose calls end up succeeding, every wake is answered  *)
(* or dropped: none stays queued, held or parked for good.                  *)
WakesEnd == Settles => \A w \in Wake : (w \in arrived) ~> (w \in over \cup dropped)

(* An operator's resume comes back, even when no wake is ever dropped.      *)
ResumeReturns == [](dropped = {}) => (resuming ~> ~resuming)
=============================================================================
