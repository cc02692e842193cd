---------------------------- MODULE ToolPresence ----------------------------
(***************************************************************************)
(* What the host believes one server shows of its tools                    *)
(* (src/mcpl/tool-presence.ts, toolset-host.ts).  The server numbers its   *)
(* statements; the host applies each as it is read, and a gap, a repeat or *)
(* a tool it was not listed makes it read both lists again.  The server,   *)
(* the line it writes on, which keeps order but may lose a message, and    *)
(* the requests that may fail are external.                                *)
(***************************************************************************)
EXTENDS Naturals, Sequences, FiniteSets

CONSTANTS
    Tool, Toolset,      \* its dynamic tools and the toolsets it declares
    SetOf,              \* toolsetOf: the toolset of a tool
    NoToolset,
    MaxActs,            \* bounds of the instance: what the server does of itself,
    MaxFaults,          \* lost messages, failed requests, broken connections,
    MaxAsks             \* requests of an agent

PresenceConstants == NoToolset \notin Toolset /\ SetOf \in [Tool -> Toolset \cup {NoToolset}]

Flow == {"recovery", "connect", "refresh"}  \* recover, connected, handleToolsListChanged

VARIABLES
    server,     \* what the server lists, has open and shows, and its last rev
    presence,   \* the same as the host has it
    connected, settled,
    wire,       \* server to host
    asks,       \* requests the server has not answered
    flow,       \* what each flow waits for
    again,      \* recoverAgain, mcplToolRefreshPending
    timer,      \* recoveryTimer
    acts, faults, agentAsks

VARIABLES       \* history
    failed,     \* flows that missed a list, or a notice while they ran
    stale,      \* nor was all read again since
    ignored     \* a recovery read a statement with a gap or an unlisted tool

bounds == <<acts, faults, agentAsks>>
host == <<presence, flow, again, timer, failed, stale, ignored>>
vars == <<server, connected, settled, wire, asks, host, bounds>>

ToolsOf(s) == {t \in Tool : SetOf[t] = s}
Loose == ToolsOf(NoToolset)
Shown(p) == {t \in p.tools \cap p.visible : t \in Loose \/ SetOf[t] \in p.open}
View(p) == [open |-> p.open, tools |-> Shown(p)]

(* A message: what it says of toolsets and of tools.                        *)
NoSets == [s \in Toolset |-> "same"]
NoShows == [t \in Tool |-> "same"]
Message(kind, who, rev, sets, shows, tools) ==
    [kind |-> kind, who |-> who, rev |-> rev, sets |-> sets, shows |-> shows, tools |-> tools]
Notice == Message("listChanged", "nobody", 0, NoSets, NoShows, {})
Ask(kind, who) == [kind |-> kind, who |-> who]

Faulty == faults < MaxFaults /\ faults' = faults + 1

Init ==
    /\ \E tools \in SUBSET Tool :
          server = [rev |-> 0, tools |-> tools, open |-> {}, visible |-> {}, removed |-> {}]
    /\ presence = [rev |-> 0, tools |-> {}, open |-> {}, visible |-> {}]
    /\ connected = FALSE /\ settled = FALSE
    /\ wire = <<>> /\ asks = {}
    /\ flow = [f \in Flow |-> "no"] /\ again = [f \in Flow |-> FALSE] /\ timer = FALSE
    /\ acts = 0 /\ faults = 0 /\ agentAsks = 0
    /\ failed = {} /\ stale = FALSE /\ ignored = FALSE

-----------------------------------------------------------------------------
(* ToolPresence: how a statement changes what the host has.                 *)

(* An entry of toolsets, noteOpened, noteClosed.                            *)
Noted(p, h) ==
    LET closed == {s \in Toolset : h.sets[s] = "closed"}
    IN  [p EXCEPT !.open = (@ \cup {s \in Toolset : h.sets[s] = "open"}) \ closed,
                  !.visible = @ \ UNION {ToolsOf(s) : s \in closed}]
ApplyBody(p, h) ==
    [Noted(p, h) EXCEPT
        !.visible = (@ \cup {t \in p.tools : h.shows[t] = "shown"})
                       \ {t \in p.tools : h.shows[t] = "hidden"}]
NamesUnlisted(p, h) == \E t \in Tool \ p.tools : h.shows[t] # "same"
Later(a, b) == IF a > b THEN a ELSE b

(* apply.                                                                   *)
Behind(h) == h.rev <= presence.rev
Skips(h) == h.rev # presence.rev + 1

(* Defect: a statement in its turn is never in doubt.                       *)
InDoubtOfGaps(h) == Skips(h)

InDoubt(h) == Skips(h) \/ NamesUnlisted(presence, h)
Applied(h) == IF Behind(h) THEN presence ELSE [ApplyBody(presence, h) EXCEPT !.rev = h.rev]

(* setTools, with noteListRev: a tool outside the toolsets is shown as the  *)
(* list says.                                                               *)
SetTools(p, list) ==
    [p EXCEPT !.tools = list.tools,
              !.visible = (@ \cap (list.tools \ Loose))
                             \cup {t \in list.tools : list.shows[t] = "shown"},
              !.rev = Later(@, list.rev)]

(* adopt: a full statement.                                                 *)
Adopted(p, h) ==
    [ApplyBody([p EXCEPT !.open = {}, !.visible = {}], h) EXCEPT !.rev = Later(@, h.rev)]

(* scheduleRecovery, if in doubt.                                           *)
ScheduledIf(doubt) ==
    /\ timer' = (timer \/ (doubt /\ flow["recovery"] = "no"))
    /\ again' = [again EXCEPT !["recovery"] = @ \/ (doubt /\ flow["recovery"] # "no")]

-----------------------------------------------------------------------------
(* The server.                                                              *)

Says(m) == wire' = IF connected THEN Append(wire, m) ELSE wire

(* A change of its own, which takes the next rev.                           *)
States(sets, shows, next) ==
    /\ acts < MaxActs /\ acts' = acts + 1
    /\ server' = [next EXCEPT !.rev = @ + 1]
    /\ Says(Message("hints", "nobody", server.rev + 1, sets, shows, {}))
    /\ UNCHANGED <<connected, settled, asks, host, faults, agentAsks>>

ShowsFor(s, shown) ==
    [t \in Tool |-> IF t \notin ToolsOf(s) \cap server.tools THEN "same"
                    ELSE IF t \in shown THEN "shown" ELSE "hidden"]
WithOpen(s, shown) ==
    [server EXCEPT !.open = @ \cup {s}, !.visible = (@ \ ToolsOf(s)) \cup shown]
WithClosed(s) == [server EXCEPT !.open = @ \ {s}, !.visible = @ \ ToolsOf(s)]

ServerOpens(s, shown) ==
    /\ s \notin server.open /\ shown \subseteq ToolsOf(s) \cap server.tools
    /\ States([NoSets EXCEPT ![s] = "open"], ShowsFor(s, shown), WithOpen(s, shown))

ServerCloses(s) ==
    /\ s \in server.open
    /\ States([NoSets EXCEPT ![s] = "closed"], NoShows, WithClosed(s))

ServerShows(t) ==
    /\ t \in server.tools \ server.visible /\ (t \in Loose \/ SetOf[t] \in server.open)
    /\ States(NoSets, [NoShows EXCEPT ![t] = "shown"], [server EXCEPT !.visible = @ \cup {t}])

ServerHides(t) ==
    /\ t \in server.visible
    /\ States(NoSets, [NoShows EXCEPT ![t] = "hidden"], [server EXCEPT !.visible = @ \ {t}])

(* Its list of tools changes, which takes no rev.                           *)
Lists(tools) ==
    /\ acts < MaxActs /\ acts' = acts + 1
    /\ server' = [server EXCEPT !.tools = tools, !.visible = @ \cap tools,
                              !.removed = @ \cup (server.tools \ tools)]
    /\ Says(Notice)
    /\ UNCHANGED <<connected, settled, asks, host, faults, agentAsks>>

(* A tool it removed it does not list again.                                *)
ServerLists(t) == t \notin server.tools \cup server.removed /\ Lists(server.tools \cup {t})
ServerRemoves(t) == t \in server.tools /\ Lists(server.tools \ {t})

Answers(kind, ask) ==
    /\ ask \in asks /\ ask.kind = kind
    /\ asks' = asks \ {ask}
    /\ UNCHANGED <<connected, settled, host, bounds>>

AnswersTools(ask) ==
    /\ Answers("tools", ask)
    /\ Says(Message("tools", ask.who, server.rev, NoSets,
                    [t \in Tool |-> IF t \in Loose \cap server.visible THEN "shown" ELSE "same"],
                    server.tools))
    /\ UNCHANGED server

AnswersToolsets(ask) ==
    /\ Answers("toolsets", ask)
    /\ server' = [server EXCEPT !.rev = @ + 1]
    /\ Says(Message("toolsets", ask.who, server.rev + 1,
                    [s \in Toolset |-> IF s \in server.open THEN "open" ELSE "same"],
                    [t \in Tool |-> IF t \in server.visible THEN "shown" ELSE "same"], {}))

AnswersOpen(ask, s, shown) ==
    /\ Answers("open", ask)
    /\ shown \subseteq ToolsOf(s) \cap server.tools
    /\ server' = [WithOpen(s, shown) EXCEPT !.rev = @ + 1]
    /\ Says(Message("noted", ask.who, server.rev + 1, [NoSets EXCEPT ![s] = "open"],
                    ShowsFor(s, shown), {}))

AnswersClose(ask, s) ==
    /\ Answers("close", ask)
    /\ s \in server.open
    /\ server' = [WithClosed(s) EXCEPT !.rev = @ + 1]
    /\ Says(Message("noted", ask.who, server.rev + 1, [NoSets EXCEPT ![s] = "closed"], NoShows, {}))

AnswersError(ask) ==
    /\ ask \in asks /\ Faulty
    /\ asks' = asks \ {ask}
    /\ Says(Message("error", ask.who, 0, NoSets, NoShows, {}))
    /\ UNCHANGED <<server, connected, settled, host, acts, agentAsks>>

Running == {f \in Flow : flow[f] # "no"}

(* A message is lost unread.                                                *)
Lose ==
    /\ wire # <<>> /\ Faulty
    /\ wire' = Tail(wire)
    /\ LET notice == Head(wire).kind = "listChanged"
       IN  /\ failed' = IF notice THEN failed \cup Running ELSE failed
           /\ stale' = (stale \/ notice)
    /\ UNCHANGED <<server, presence, connected, settled, asks, flow, again, timer, ignored, acts, agentAsks>>

-----------------------------------------------------------------------------
(* Flows: each asks for tools/list, and but for refresh toolsets/list then. *)

Start(f) == flow' = [flow EXCEPT ![f] = "tools"] /\ failed' = failed \ {f}
Answered == [no |-> "no", tools |-> "toolsRead", toolsets |-> "toolsetsRead"]
AnswersFlow(who, ok) ==
    /\ flow' = IF who \in Flow THEN [flow EXCEPT ![who] = Answered[@]] ELSE flow
    /\ failed' = IF who \in Flow /\ ~ok THEN failed \cup Running ELSE failed

(* What is read is applied before the flow that asked goes on, and after it *)
(* others may be read.                                                      *)
Reads(kind) ==
    /\ wire # <<>> /\ Head(wire).kind = kind
    /\ wire' = Tail(wire)
    /\ UNCHANGED <<server, connected, settled, bounds>>

(* A notification's hints, and an answer of toolsets/open or close.         *)
ReadHints ==
    LET h == Head(wire)
    IN  /\ wire # <<>> /\ h.kind \in {"hints", "noted"} /\ Reads(h.kind)
        /\ presence' = IF h.kind = "noted" THEN Noted(Applied(h), h) ELSE Applied(h)
        /\ ScheduledIf(InDoubt(h))
        /\ UNCHANGED <<asks, flow, failed, stale, ignored>>

(* A list that comes late is read by nobody.                                *)
ReadToolList ==
    LET list == Head(wire)
    IN  /\ Reads("tools")
        /\ presence' = IF list.who \in Flow THEN SetTools(presence, list) ELSE presence
        /\ ScheduledIf(list.who \in Flow /\ list.rev > presence.rev)
        /\ AnswersFlow(list.who, TRUE)
        /\ UNCHANGED <<asks, stale, ignored>>

ReadToolsetList ==
    LET h == Head(wire)
    IN  /\ Reads("toolsets")
        /\ presence' = Adopted(presence, h)
        /\ ScheduledIf(flow["recovery"] = "no" /\ InDoubt(h))
        /\ AnswersFlow(h.who, TRUE)
        /\ ignored' = (ignored \/ (flow["recovery"] # "no" /\ InDoubt(h)))
        /\ UNCHANGED <<asks, stale>>

ReadError ==
    /\ Reads("error") /\ AnswersFlow(Head(wire).who, FALSE)
    /\ UNCHANGED <<presence, asks, again, timer, stale, ignored>>

(* handleToolsListChanged.                                                  *)
RefreshIsAsked ==
    IF flow["refresh"] = "no"
    THEN Start("refresh") /\ asks' = asks \cup {Ask("tools", "refresh")} /\ UNCHANGED again
    ELSE again' = [again EXCEPT !["refresh"] = TRUE] /\ UNCHANGED <<flow, failed, asks>>

ReadListChanged == Reads("listChanged") /\ RefreshIsAsked /\ UNCHANGED <<presence, timer, stale, ignored>>

(* The time for an answer ends: it comes late, or was lost.                 *)
TimesOut(f) ==
    LET waits == Ask(flow[f], f)
        late(m) == IF m.who = f THEN [m EXCEPT !.who = "nobody"] ELSE m
    IN  /\ flow[f] \in {"tools", "toolsets"}
        /\ \/ /\ waits \notin asks /\ \A i \in DOMAIN wire : wire[i].who # f
              /\ UNCHANGED faults
           \/ Faulty
        /\ asks' = {late(ask) : ask \in asks}
        /\ wire' = [i \in DOMAIN wire |-> late(wire[i])]
        /\ AnswersFlow(f, FALSE)
        /\ UNCHANGED <<server, presence, connected, settled, again, timer, stale, ignored, acts, agentAsks>>

(* ownToolsetList after ownToolList, whatever came of that.                 *)
GoesOn(f) ==
    /\ f # "refresh" /\ flow[f] = "toolsRead"
    /\ flow' = [flow EXCEPT ![f] = "toolsets"]
    /\ asks' = asks \cup {Ask("toolsets", f)}
    /\ UNCHANGED <<server, presence, connected, settled, wire, again, timer, failed, stale, ignored, bounds>>

(* What was read of it covers what went amiss before it began.              *)
NotesEnd(f) == stale' = (f \in failed \/ (stale /\ f = "refresh"))

ConnectEnds ==
    /\ flow["connect"] = "toolsetsRead" /\ flow' = [flow EXCEPT !["connect"] = "no"]
    /\ NotesEnd("connect")
    /\ UNCHANGED <<server, presence, connected, settled, wire, asks, again, timer, failed, ignored, bounds>>

RecoveryEnds ==
    /\ flow["recovery"] = "toolsetsRead" /\ flow' = [flow EXCEPT !["recovery"] = "no"]
    /\ timer' = again["recovery"] /\ again' = [again EXCEPT !["recovery"] = FALSE]
    /\ NotesEnd("recovery")
    /\ UNCHANGED <<server, presence, connected, settled, wire, asks, failed, ignored, bounds>>

RefreshEnds ==
    /\ flow["refresh"] = "toolsRead"
    /\ again' = [again EXCEPT !["refresh"] = FALSE]
    /\ NotesEnd("refresh")
    /\ IF again["refresh"]
       THEN Start("refresh") /\ asks' = asks \cup {Ask("tools", "refresh")}
       ELSE flow' = [flow EXCEPT !["refresh"] = "no"] /\ UNCHANGED <<asks, failed>>
    /\ UNCHANGED <<server, presence, connected, settled, wire, timer, ignored, bounds>>

(* The timer's callback: recover.                                           *)
RecoveryStarts ==
    /\ timer /\ timer' = FALSE /\ ignored' = FALSE
    /\ IF connected THEN Start("recovery") /\ asks' = asks \cup {Ask("tools", "recovery")}
                    ELSE UNCHANGED <<flow, failed, asks>>
    /\ UNCHANGED <<server, presence, connected, settled, wire, again, stale, bounds>>

-----------------------------------------------------------------------------
(* An agent looks, opens and closes.                                        *)
AgentAsks(kind) ==
    /\ connected /\ agentAsks < MaxAsks /\ agentAsks' = agentAsks + 1
    /\ asks' = asks \cup {Ask(kind, "agent")}
    /\ UNCHANGED <<server, connected, settled, wire, host, acts, faults>>

(* A connection opens; its server counts from the start, and so does the    *)
(* host (sync, beginConnection).                                            *)
Connects ==
    /\ ~connected /\ connected' = TRUE
    /\ server' = [server EXCEPT !.rev = 0]
    /\ presence' = [presence EXCEPT !.rev = 0]
    /\ UNCHANGED <<settled, wire, asks, flow, again, timer, failed, stale, ignored, bounds>>

(* Its policy settles: refreshMcplTools and connected.                      *)
Settles ==
    /\ connected /\ ~settled /\ settled' = TRUE /\ ignored' = FALSE
    /\ flow["connect"] = "no"
    /\ LET idle == flow["refresh"] = "no"
           starts == IF idle THEN {"connect", "refresh"} ELSE {"connect"}
       IN  /\ flow' = [f \in Flow |-> IF f \in starts THEN "tools" ELSE flow[f]]
           /\ asks' = asks \cup {Ask("tools", f) : f \in starts}
           /\ failed' = failed \ starts
           /\ again' = [again EXCEPT !["refresh"] = @ \/ ~idle]
    /\ UNCHANGED <<server, presence, connected, wire, timer, stale, bounds>>

(* The connection breaks, and every request over it fails.                  *)
Breaks ==
    /\ connected /\ Faulty
    /\ connected' = FALSE /\ settled' = FALSE
    /\ wire' = <<>> /\ asks' = {}
    /\ flow' = [f \in Flow |-> "no"] /\ failed' = {} /\ stale' = FALSE
    /\ again' = [f \in Flow |-> FALSE] /\ timer' = (timer \/ again["recovery"])
    /\ UNCHANGED <<server, presence, ignored, acts, agentAsks>>

Next ==
    \/ \E s \in Toolset, shown \in SUBSET Tool : ServerOpens(s, shown)
    \/ \E s \in Toolset : ServerCloses(s)
    \/ \E t \in Tool : ServerShows(t) \/ ServerHides(t) \/ ServerLists(t) \/ ServerRemoves(t)
    \/ \E ask \in asks :
          \/ AnswersTools(ask) \/ AnswersToolsets(ask) \/ AnswersError(ask)
          \/ \E s \in Toolset : \/ AnswersClose(ask, s)
                                \/ \E shown \in SUBSET Tool : AnswersOpen(ask, s, shown)
    \/ Lose \/ ReadHints \/ ReadToolList \/ ReadToolsetList \/ ReadError \/ ReadListChanged
    \/ \E f \in Flow : TimesOut(f) \/ GoesOn(f)
    \/ ConnectEnds \/ RecoveryEnds \/ RefreshEnds \/ RecoveryStarts
    \/ \E kind \in {"toolsets", "open", "close"} : AgentAsks(kind)
    \/ Connects \/ Settles \/ Breaks

Spec == Init /\ [][Next]_vars

-----------------------------------------------------------------------------
Side == [rev : Nat, tools : SUBSET Tool, open : SUBSET Toolset, visible : SUBSET Tool]

TypeOK ==
    /\ presence \in Side /\ server.visible \subseteq server.tools
    /\ connected \in BOOLEAN /\ settled \in BOOLEAN /\ timer \in BOOLEAN /\ stale \in BOOLEAN
    /\ flow \in [Flow -> {"no", "tools", "toolsRead", "toolsets", "toolsetsRead"}]
    /\ again \in [Flow -> BOOLEAN] /\ failed \subseteq Flow
    /\ ~connected => wire = <<>> /\ asks = {} /\ Running = {}

Quiet == /\ connected /\ settled /\ wire = <<>> /\ asks = {} /\ Running = {} /\ ~timer
         /\ presence.rev = server.rev /\ ~stale

(* A host with nothing left to read or to ask, which heard the server's     *)
(* last statement and whose last lists did not fail, shows what the server  *)
(* shows, unless a recovery read a toolsets/list with a gap or a tool it    *)
(* was not listed, on which it does nothing (onRead, applyHints,            *)
(* readToolsetList, recover).                                               *)
SettledAgrees == Quiet /\ ~ignored => View(presence) = View(server)

(* toolset-host.ts 466-471: after a recovery's tools/list every tool its    *)
(* toolsets/list names is known, so a host whose lists did not fail shows   *)
(* what the server shows (recover).                                         *)
RecoveryKnows == Quiet => View(presence) = View(server)
=============================================================================
