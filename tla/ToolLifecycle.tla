---------------------------- MODULE ToolLifecycle ----------------------------
(***************************************************************************)
(* The tools/lifecycle notifications of an agent's calls                   *)
(* (src/mcpl/tool-lifecycle.ts): an observer is sent the opening of a call *)
(* it may observe and later one terminal, by the result or the end of the  *)
(* call's stream, whichever comes first, if it is on the connection the    *)
(* opening went to and may observe the call still.                         *)
(*                                                                         *)
(* Calls bear ids of their own, as a provider's random ids are             *)
(* (PROVIDER_UNIQUE_ID): the emitter's table is keyed by them.  The tools, *)
(* the streams and the servers are external.                               *)
(***************************************************************************)
EXTENDS Naturals, Sequences, FiniteSets

CONSTANTS
    Call, Script,       \* calls, and those of them a code_execution script makes
    Stream, StreamOf,   \* the stream whose inference issued a call
    Observer,           \* servers
    Tool, ServerOf,     \* the server that provides a tool
    MaxEpochs           \* bound of the instance: transports of a server

LifecycleConstants == MaxEpochs \in Nat \ {0}

VARIABLES
    calls,      \* the emitter's tracked calls
    made,       \* calls dispatched
    running,    \* those whose result is to come
    results,    \* tool-result events to be handled
    waiters,    \* scriptToolWaiters
    live,       \* streams that run
    epoch,      \* transportEpoch
    allowed     \* tools a server's grant and the host's narrowing let it observe

VARIABLES       \* history
    heard,      \* what an observer was sent of a call over its transport
    steady      \* <<observer, call>>: opened to it, which might observe it ever since,
                \* and no send to it failed

emitter == <<calls, heard, steady>>
servers == <<epoch, allowed>>
vars == <<calls, made, running, results, waiters, live, epoch, allowed, heard, steady>>

NoCall == [opened |-> FALSE]
Unopened(t) == [opened |-> FALSE, tool |-> t]
Tracked(c) == calls[c] # NoCall

Init ==
    /\ calls = [c \in Call |-> NoCall]
    /\ made = {} /\ running = {} /\ results = {} /\ waiters = {} /\ live = Stream
    /\ epoch = [o \in Observer |-> 1] /\ allowed = [o \in Observer |-> {}]
    /\ heard = [o \in Observer |-> [c \in Call |-> <<>>]] /\ steady = {}

-----------------------------------------------------------------------------
(* The emitter.                                                             *)

Adds(told, c, what) ==
    [o \in Observer |-> [d \in Call |->
        IF d = c /\ o \in told THEN heard[o][d] \o what ELSE heard[o][d]]]

(* Nothing observes: the call is not tracked.                               *)
AnyObserver == \E o \in Observer : allowed[o] # {}

(* openingFor: a server is not told of its own tools.                       *)
Sees(t) == {o \in Observer : t \in allowed[o] /\ ServerOf[t] # o}

(* open: to those whose filter reports the call and whose transport takes   *)
(* it; nobody told, nobody is owed a terminal.                              *)
Opens(c, t, told) ==
    /\ calls' = IF told = {} THEN calls
                ELSE [calls EXCEPT ![c] = [opened |-> TRUE, tool |-> t,
                         openedTo |-> [o \in told |-> epoch[o]]]]
    /\ heard' = Adds(told, c, <<"opening">>)
    /\ steady' = steady \cup (told \X {c})

(* terminate, terminalStillAllowed: who is sent the terminal.               *)
Owed(c) ==
    {o \in DOMAIN calls[c].openedTo : calls[c].openedTo[o] = epoch[o] /\ calls[c].tool \in allowed[o]}

(* A send is best effort: one that fails is not made again.                 *)
Terminate(ended) ==
    LET owing == {x \in Observer \X ended : calls[x[2]].opened /\ x[1] \in Owed(x[2])}
    IN  \E sent \in SUBSET owing :
          /\ calls' = [c \in Call |-> IF c \in ended THEN NoCall ELSE calls[c]]
          /\ heard' = [o \in Observer |-> [c \in Call |->
                 heard[o][c] \o IF <<o, c>> \in sent THEN <<"terminal">> ELSE <<>>]]
          /\ steady' = steady \ (owing \ sent)

-----------------------------------------------------------------------------
(* Calls.  From register to open nothing else runs; a call retargeted is    *)
(* described as the tool it was routed to.                                  *)

Runs(c, t) ==
    /\ running' = running \cup {c} /\ UNCHANGED results
    /\ IF AnyObserver THEN \E told \in SUBSET Sees(t) : Opens(c, t, told) ELSE UNCHANGED emitter

(* refuse: forgotten before it opens, and answered.                         *)
Refused(c) == results' = results \cup {c} /\ UNCHANGED <<emitter, running>>

Dispatch(c, t) ==
    /\ c \notin made \cup Script /\ StreamOf[c] \in live
    /\ made' = made \cup {c}
    /\ \/ Runs(c, t) \/ Refused(c)
       \/ /\ calls' = IF AnyObserver THEN [calls EXCEPT ![c] = Unopened(t)] ELSE calls   \* it throws
          /\ UNCHANGED <<heard, steady, running, results>>
    /\ UNCHANGED <<waiters, live, servers>>

ScriptThrows(c, t) ==
    /\ \E told \in SUBSET Sees(t) : \E sent \in SUBSET told :
          heard' = [o \in Observer |-> [d \in Call |-> heard[o][d] \o
                      IF d # c \/ o \notin told THEN <<>>
                      ELSE IF o \in sent THEN <<"opening", "terminal">> ELSE <<"opening">>]]
    /\ UNCHANGED <<calls, steady, running, results, waiters>>

DispatchScript(c, t) ==
    /\ c \in Script \ made
    /\ made' = made \cup {c}
    /\ \/ (Runs(c, t) \/ Refused(c)) /\ waiters' = waiters \cup {c}
       \/ ScriptThrows(c, t)
    /\ UNCHANGED <<live, servers>>

(* The tool answers, or fails, which its event says too.                    *)
Returns(c) ==
    /\ c \in running
    /\ running' = running \ {c} /\ results' = results \cup {c}
    /\ UNCHANGED <<emitter, made, waiters, live, servers>>

(* handleProcessEvent: onResult, of a script's call or of a model's.        *)
HandleResult(c) ==
    /\ c \in results
    /\ results' = results \ {c} /\ waiters' = waiters \ {c}
    /\ Terminate({c})
    /\ UNCHANGED <<made, running, live, servers>>

(* A script waits no longer: onResult, with nothing obtained.               *)
SafetyFires(c) ==
    /\ c \in waiters
    /\ waiters' = waiters \ {c}
    /\ Terminate({c})
    /\ UNCHANGED <<made, running, results, live, servers>>

(* Defect: what the stream's scripts called ends with it.                   *)
OfStreamAll(s) == {c \in Call : StreamOf[c] = s /\ Tracked(c)}

OfStream(s) == {c \in Call \ Script : StreamOf[c] = s /\ Tracked(c)}

(* A stream ends, its calls answered or not: abortOpen.                     *)
StreamEnds(s) ==
    /\ s \in live /\ live' = live \ {s}
    /\ Terminate(OfStream(s))
    /\ UNCHANGED <<made, running, results, waiters, servers>>

-----------------------------------------------------------------------------
(* Servers.                                                                 *)

(* A transport ends, and with it its grant.                                 *)
TransportEnds(o) ==
    /\ epoch[o] < MaxEpochs /\ epoch' = [epoch EXCEPT ![o] = @ + 1]
    /\ allowed' = [allowed EXCEPT ![o] = {}]
    /\ heard' = [heard EXCEPT ![o] = [c \in Call |-> <<>>]]
    /\ steady' = {x \in steady : x[1] # o}
    /\ UNCHANGED <<calls, made, running, results, waiters, live>>

(* establishGrant, and a new configuration of the server.                   *)
Grants(o, tools) ==
    /\ tools # allowed[o] /\ allowed' = [allowed EXCEPT ![o] = tools]
    /\ steady' = {x \in steady : x[1] = o /\ Tracked(x[2]) => calls[x[2]].tool \in tools}
    /\ UNCHANGED <<calls, made, running, results, waiters, live, epoch, heard>>

Next ==
    \/ \E c \in Call : \/ \E t \in Tool : Dispatch(c, t) \/ DispatchScript(c, t)
                       \/ Returns(c) \/ HandleResult(c) \/ SafetyFires(c)
    \/ \E s \in Stream : StreamEnds(s)
    \/ \E o \in Observer : TransportEnds(o) \/ \E tools \in SUBSET Tool : Grants(o, tools)

Spec == Init /\ [][Next]_vars

-----------------------------------------------------------------------------
TypeOK ==
    /\ {c \in Call : Tracked(c)} \cup running \cup results \cup waiters \subseteq made
    /\ made \subseteq Call /\ waiters \subseteq Script /\ live \subseteq Stream
    /\ epoch \in [Observer -> 1..MaxEpochs] /\ allowed \in [Observer -> SUBSET Tool]
    /\ steady \subseteq Observer \X Call

(* Its result is to be handled yet, and a stream or a script waits for it.  *)
Ongoing(c) ==
    c \in running \cup results /\ IF c \in Script THEN c \in waiters ELSE StreamOf[c] \in live

(* An observer is sent a terminal only after the opening on the same        *)
(* transport, and only one; if it could observe the call ever since it      *)
(* opened, and no send to it failed, it is sent it when the call's result   *)
(* is handled or its stream ends, whichever comes first, and no earlier: a  *)
(* script's call outlives the stream, and ends with its result or its       *)
(* script's patience (open, onResult, abortOpen, terminate).                *)
OneTerminal ==
    /\ \A o \in Observer, c \in Call :
          heard[o][c] \in {<<>>, <<"opening">>, <<"opening", "terminal">>}
    /\ \A x \in steady : Len(heard[x[1]][x[2]]) = IF Ongoing(x[2]) THEN 1 ELSE 2
    /\ \A c \in Call : Tracked(c) /\ calls[c].opened => Ongoing(c)
=============================================================================
