---------------------------- MODULE SurgeryHold ----------------------------
(***************************************************************************)
(* Surgeries of the store the agents share (src/framework.ts): a switch of *)
(* its branch, a rollback and a suppression move the branch under every    *)
(* agent's context manager.  One at a time holds the store: while it does, *)
(* no turn starts, no maintenance ticks, no agent is created, and what is  *)
(* written for an agent waits in memory.  The managers then follow the     *)
(* move; one that cannot refuses its work, and what is written for its     *)
(* agent waits for a move it follows.                                      *)
(*                                                                         *)
(* Writes are numbered as they are accepted.  Agent names are not used     *)
(* again.  Only the primary has a provider gate, a maintenance pass and    *)
(* the calls it makes; the wake of a turn may come at any time.  Left out: *)
(* quiesce and stop, undo and redo (refused under a hold), imported rows,  *)
(* writes that may be stored already, drains of an over-full context (what *)
(* waits for a maintenance pass waits for them too), marks, presentation   *)
(* and the alerts.                                                         *)
(***************************************************************************)
EXTENDS Naturals, Sequences, FiniteSets, SequencesExt

CONSTANTS
    Agent,
    Primary,        \* the agent that takes a notice in an ended one's place
    NoAgent,        \* named by a switch, which no agent's manager makes
    MaxWrites,      \* bound of the instance: writes made
    MaxMoves        \* bound of the instance: surgeries begun

ASSUME HoldConstants ==
    /\ Primary \in Agent /\ NoAgent \notin Agent
    /\ MaxWrites \in Nat /\ MaxMoves \in Nat

VARIABLES
    status,         \* each agent: absent, opening (conversationSpawnsInFlight), live, ended
    turn,           \* each agent: idle, parked behind an auxiliary call, running
    gate,           \* the primary's provider: open, cooling, pending (primaryPending)
    maintenance,    \* the pass: none, tick, waiting and woken at the gate, call
    surgeryHold,    \* the surgery that holds the store, and how far it is
    refusing,       \* agents whose managers refuse their work (managersRefusingWork)
    behind,         \* agents whose managers are not on the store's branch
    writes,         \* what was accepted, and where it waits
    replaying,      \* replayingHeld
    moves           \* surgeries begun

agents == <<status, turn>>
provider == <<gate, maintenance>>
surgery == <<surgeryHold, refusing, behind, moves>>
vars == <<agents, provider, surgery, writes, replaying>>

Verb == {"switch", "rollback", "suppress"}
Stage == {"settling", "moving", "following", "removing", "restoring", "ending"}
Hold == [verb : Verb, by : Agent \cup {NoAgent}, at : Stage,
         todo : SUBSET Agent,       \* managers still to follow the move
         failed : SUBSET Agent,     \* and those that could not
         moved : BOOLEAN,           \* the store moved
         back : BOOLEAN]            \* and was to be moved back
NoHold == [at |-> "none"]

Write == [n : Nat, to : Agent]

Held == surgeryHold # NoHold
At(stage) == surgeryHold.at = stage
Live == {a \in Agent : status[a] = "live"}
Quiet == ~replaying         \* a replay runs without interruption
-----------------------------------------------------------------------------
(* Writes, as records: accepted counts them; queue waits for the hold's     *)
(* release (surgeryHeldWrites), kept for a manager's recovery               *)
(* (heldForRecovery, in heldOrder); landed is each agent's last row, and    *)
(* settled what was stored, passed on, dropped or lost.                     *)

NoWrites == [accepted |-> 0, queue |-> <<>>, kept |-> <<>>,
             landed |-> [a \in Agent |-> 0], settled |-> {}]

Settle(w, e) == [w EXCEPT !.settled = @ \cup {e.n}]
(* The entries for some agents, in order (a recursive function, which can   *)
(* be reasoned about where SelectSeq cannot).                               *)
For(entries, whose) ==
    LET picked[i \in 0..Len(entries)] ==
          IF i = 0 THEN <<>>
          ELSE IF entries[i].to \in whose THEN Append(picked[i - 1], entries[i])
          ELSE picked[i - 1]
    IN  picked[Len(entries)]

NotFor(entries, whose) == For(entries, Agent \ whose)

(* waitsForRecovery, or the manager refuses the row.                        *)
KeptForRecovery(w, a) == For(w.kept, {a}) # <<>> \/ a \in refusing

(* addMessage and storeInFork: e waits for the hold, waits for its agent's  *)
(* manager, or is stored.                                                   *)
Put(w, e, heldBySurgery) ==
    IF heldBySurgery THEN [w EXCEPT !.queue = Append(@, e)]
    ELSE IF KeptForRecovery(w, e.to) THEN [w EXCEPT !.kept = Append(@, e)]
    ELSE Settle([w EXCEPT !.landed[e.to] = e.n], e)

Accept(w, to, heldBySurgery) ==
    Put([w EXCEPT !.accepted = @ + 1], [n |-> w.accepted + 1, to |-> to], heldBySurgery)

(* passHeldWritesOn: those the primary takes in its place are written for   *)
(* it, one by one, the others dropped and told of.  What the first of them  *)
(* meets all of them do, so they are put together.                          *)
PassOn(w, entries, taken) ==
    LET notices == [i \in 1..Cardinality(taken) |-> [n |-> w.accepted + i, to |-> Primary]]
        told == [w EXCEPT !.accepted = @ + Len(notices), !.settled = @ \cup {e.n : e \in ToSet(entries)}]
    IN  IF taken = {} THEN told
        ELSE IF Held \/ replaying THEN [told EXCEPT !.queue = @ \o notices]
        ELSE IF KeptForRecovery(w, Primary) THEN [told EXCEPT !.kept = @ \o notices]
        ELSE [told EXCEPT !.landed[Primary] = told.accepted,
                          !.settled = @ \cup {e.n : e \in ToSet(notices)}]
-----------------------------------------------------------------------------
Init ==
    /\ status = [a \in Agent |-> IF a = Primary THEN "live" ELSE "absent"]
    /\ turn = [a \in Agent |-> "idle"]
    /\ gate = "open" /\ maintenance = "none"
    /\ surgeryHold = NoHold /\ refusing = {} /\ behind = {} /\ moves = 0
    /\ writes = NoWrites /\ replaying = FALSE

(* reserveStoreForSurgery: no other holds the store, every agent is idle    *)
(* and none is being created; what waits at a gate is woken to find it.     *)
Reserves(verb, by) ==
    /\ ~Held /\ moves < MaxMoves
    /\ by \in IF verb = "switch" THEN {NoAgent} ELSE Live
    /\ \A a \in Agent : turn[a] # "running" /\ status[a] # "opening"
    /\ surgeryHold' = [verb |-> verb, by |-> by, at |-> "settling", todo |-> {}, failed |-> {},
                       moved |-> FALSE, back |-> FALSE]
    /\ moves' = moves + 1
    /\ UNCHANGED <<agents, refusing, behind, gate>>

(* Defect: a call that waits at the gate is left to wait.                   *)
WakesNone == UNCHANGED maintenance

WakesWaiters == maintenance' = IF maintenance = "waiting" THEN "woken" ELSE maintenance

(* An operator begins one, or a listener of a write a replay stores, which  *)
(* ends the replay.                                                         *)
Reserve(verb, by) ==
    /\ Reserves(verb, by) /\ WakesWaiters
    /\ replaying' = FALSE
    /\ UNCHANGED writes

(* Defect: what the row before a write began is not looked for again.       *)
AcceptBesideMove(to) == writes' = Accept(writes, to, FALSE)

(* A listener of the clock row stored before a write begins one: addMessage *)
(* asks again after it.                                                     *)
AcceptAfterClock(to) == writes' = Accept(writes, to, TRUE)

AddMessage(to) ==
    /\ to \in Live /\ writes.accepted < MaxWrites
    /\ \/ /\ writes' = Accept(writes, to, Held \/ replaying)
          /\ UNCHANGED <<agents, provider, surgery, replaying>>
       \/ /\ Quiet /\ ~KeptForRecovery(writes, to)
          /\ \E verb \in Verb, by \in Agent \cup {NoAgent} : Reserves(verb, by) /\ WakesWaiters
          /\ AcceptAfterClock(to)
          /\ UNCHANGED replaying
-----------------------------------------------------------------------------
(* The surgery's steps, each up to its next await.                          *)

Goes(changes) == surgeryHold' = changes

(* Every live manager but the mover's is re-initialized (reinitializeManagers).*)
Follow(hold) ==
    [hold EXCEPT !.at = "following", !.todo = Live \ {hold.by}, !.failed = {}]

(* settleMaintenancePass                                                    *)
Settles ==
    /\ Quiet /\ At("settling") /\ maintenance = "none"
    /\ Goes([surgeryHold EXCEPT !.at = "moving"])
    /\ UNCHANGED <<agents, provider, refusing, behind, moves, writes, replaying>>

(* The store's branch moves, or the step throws before or after it did.     *)
Moves ==
    /\ Quiet /\ At("moving")
    /\ LET hold == [surgeryHold EXCEPT !.moved = TRUE]
           by == surgeryHold.by
       IN  \/ /\ Goes(Follow(hold))
              /\ behind' = Live \ {by} /\ refusing' = refusing \ {by}
           \/ /\ Goes([surgeryHold EXCEPT !.at = "ending"])
              /\ UNCHANGED <<behind, refusing>>
           \/ /\ by # NoAgent
              /\ Goes([hold EXCEPT !.at = "restoring"])
              /\ behind' = Live /\ refusing' = refusing \cup {by}
    /\ UNCHANGED <<agents, provider, moves, writes, replaying>>

Reinitializes(a) ==
    /\ Quiet /\ At("following") /\ a \in surgeryHold.todo
    /\ LET hold == [surgeryHold EXCEPT !.todo = @ \ {a}]
       IN  \/ /\ Goes(hold)
              /\ refusing' = refusing \ {a} /\ behind' = behind \ {a}
           \/ /\ Goes([hold EXCEPT !.failed = @ \cup {a}])
              /\ refusing' = refusing \cup {a} /\ UNCHANGED behind
    /\ UNCHANGED <<agents, provider, moves, writes, replaying>>

(* Defect: what waited for a manager goes behind what the hold keeps.       *)
RecoversBehind(w, unrecovered) ==
    [w EXCEPT !.queue = @ \o NotFor(w.kept, unrecovered), !.kept = For(w.kept, unrecovered)]

(* recoverHeldWrites                                                        *)
Recovers(w, unrecovered) ==
    [w EXCEPT !.queue = NotFor(w.kept, unrecovered) \o @, !.kept = For(w.kept, unrecovered)]

(* followBranchMove goes on once every manager was asked.                   *)
Followed ==
    /\ Quiet /\ At("following") /\ surgeryHold.todo = {}
    /\ writes' = Recovers(writes, surgeryHold.failed \cup (refusing \cap {surgeryHold.by}))
    /\ Goes([surgeryHold EXCEPT !.at =
               IF surgeryHold.verb = "suppress" /\ ~surgeryHold.back THEN "removing" ELSE "ending"])
    /\ UNCHANGED <<agents, provider, refusing, behind, moves, replaying>>

Removes ==
    /\ Quiet /\ At("removing")
    /\ Goes([surgeryHold EXCEPT !.at = "ending"]) \/ Goes([surgeryHold EXCEPT !.at = "restoring"])
    /\ UNCHANGED <<agents, provider, refusing, behind, moves, writes, replaying>>

(* Defect: the managers that followed the move are not asked to follow the  *)
(* move back.                                                               *)
EndsUnfollowed(hold) ==
    IF hold.by \in behind THEN Follow([hold EXCEPT !.back = TRUE]) ELSE [hold EXCEPT !.at = "ending"]

FollowsBack(hold) == Follow([hold EXCEPT !.back = TRUE])

(* restoreSourceBranch: the store is moved back; or it is, but the mover's  *)
(* manager could not follow; or it stays, where that manager is current     *)
(* unless the move itself threw.                                            *)
Restores ==
    /\ Quiet /\ At("restoring")
    /\ LET by == surgeryHold.by
       IN  \/ behind' = Live \ {by} /\ refusing' = refusing \ {by}
           \/ behind' = Live /\ refusing' = refusing \cup {by}
           \/ UNCHANGED behind /\ refusing' = refusing \cup ({by} \cap behind)
    /\ Goes(FollowsBack(surgeryHold))
    /\ UNCHANGED <<agents, provider, moves, writes, replaying>>

(* takeHeldWritesFor, passHeldWritesOn: what waits for an agent that ends.  *)
Ends(f) ==
    LET entries == For(writes.kept, {f}) \o For(writes.queue, {f})
    IN  /\ status' = [status EXCEPT ![f] = "ended"]
        /\ \E taken \in SUBSET {e.n : e \in ToSet(entries)} :
             writes' = PassOn([writes EXCEPT !.kept = NotFor(@, {f}), !.queue = NotFor(@, {f})],
                              entries, taken)
        /\ refusing' = refusing \ {f} /\ behind' = behind \ {f}
        /\ UNCHANGED <<turn, provider, surgeryHold, moves, replaying>>

(* disposeEmptiedForks: the switch or rollback left a fork no message.      *)
DisposesEmptied(f) ==
    /\ Quiet /\ At("ending") /\ surgeryHold.verb # "suppress" /\ surgeryHold.moved
    /\ f \in Live \ {Primary}
    /\ Ends(f)

(* The release ends the hold and replays what it kept.                      *)
Release ==
    /\ Quiet /\ At("ending")
    /\ surgeryHold' = NoHold
    /\ replaying' = (writes.queue # <<>>)
    /\ UNCHANGED <<agents, provider, refusing, behind, moves, writes>>

(* replayHeldWrite: the first write is stored, kept for its manager, or     *)
(* throws and is told lost.                                                 *)
ReplayNext ==
    /\ replaying
    /\ LET e == Head(writes.queue)
           rest == [writes EXCEPT !.queue = Tail(@)]
       IN  /\ writes' \in {Put(rest, e, FALSE), Settle(rest, e)}
           /\ replaying' = (rest.queue # <<>>)
    /\ UNCHANGED <<agents, provider, surgery>>
-----------------------------------------------------------------------------
(* Agents and their turns.                                                  *)

(* createConversationAgent waits for a hold's release before it begins.     *)
SpawnBegins(f) ==
    /\ Quiet /\ ~Held
    /\ status[f] = "absent" /\ status' = [status EXCEPT ![f] = "opening"]
    /\ UNCHANGED <<turn, provider, surgery, writes, replaying>>
SpawnEnds(f) ==
    /\ Quiet /\ status[f] = "opening"
    /\ \E s \in {"live", "absent"} : status' = [status EXCEPT ![f] = s]
    /\ UNCHANGED <<turn, provider, surgery, writes, replaying>>

AgentEnds(f) ==
    /\ Quiet /\ ~Held
    /\ f \in Live \ {Primary} /\ turn[f] = "idle"
    /\ Ends(f)

Blocked == turn[Primary] # "idle" \/ gate # "open"         \* providerGateBlocked

(* flushAuxiliaryAdmission, once the gate and the turn are as they will be. *)
Flushes ==
    maintenance' = IF maintenance = "waiting" /\ turn'[Primary] = "idle" /\ gate' = "open"
                   THEN "woken" ELSE maintenance

(* A request passes the inference pass.                                     *)
MayStart(a) == ~Held /\ turn[a] = "idle" /\ (a = Primary => gate # "cooling")

(* startAgentStream: the turn runs, or its start is parked until the        *)
(* auxiliary call in flight is over.                                        *)
TurnStarts(a) ==
    /\ Quiet /\ a \in Live /\ MayStart(a)
    /\ turn' = [turn EXCEPT ![a] = IF a = Primary /\ maintenance = "call" THEN "parked" ELSE "running"]
    /\ gate' = IF a = Primary THEN "open" ELSE gate
    /\ UNCHANGED <<status, maintenance, surgery, writes, replaying>>

(* A parked start finds the hold's token, or a cooldown, and goes back to   *)
(* the requests.                                                            *)
Unparks ==
    /\ Quiet /\ turn[Primary] = "parked" /\ maintenance # "call"
    /\ turn' = [turn EXCEPT ![Primary] = IF Held \/ gate = "cooling" THEN "idle" ELSE "running"]
    /\ UNCHANGED gate /\ Flushes
    /\ UNCHANGED <<status, surgery, writes, replaying>>

(* A turn ends; the primary's may leave a cooldown.                         *)
TurnEnds(a) ==
    /\ Quiet /\ turn[a] = "running"
    /\ turn' = [turn EXCEPT ![a] = "idle"]
    /\ gate' = gate \/ (a = Primary /\ gate' = "cooling")
    /\ Flushes
    /\ UNCHANGED <<status, surgery, writes, replaying>>

(* A cooldown is over: the requests it held make the primary pending.       *)
CoolEnds ==
    /\ Quiet /\ gate = "cooling"
    /\ gate' \in {"pending", "open"}
    /\ UNCHANGED turn /\ Flushes
    /\ UNCHANGED <<status, surgery, writes, replaying>>
-----------------------------------------------------------------------------
(* The maintenance pass, and the provider call one of its ticks may make.   *)

MaintenanceStep(next) ==
    /\ Quiet
    /\ maintenance' = next
    /\ UNCHANGED <<agents, surgery, writes, replaying>>

MaintenanceStarts ==
    maintenance = "none" /\ ~Held /\ ~Blocked /\ MaintenanceStep("tick") /\ UNCHANGED gate

(* withAuxiliaryAdmission: withdrawn under a surgery before and after each  *)
(* wait.                                                                    *)
AsksForCall ==
    /\ maintenance \in {"tick", "woken"}
    /\ MaintenanceStep(IF Held THEN "none" ELSE IF Blocked THEN "waiting" ELSE "call")
    /\ UNCHANGED gate

(* The call is answered; one that failed may begin a cooldown.              *)
CallEnds ==
    /\ maintenance = "call" /\ MaintenanceStep("tick")
    /\ gate' \in {gate, "cooling"}

(* The tick is over, and the pass begins no other.                          *)
MaintenanceEnds == maintenance = "tick" /\ MaintenanceStep("none") /\ UNCHANGED gate
-----------------------------------------------------------------------------
Moving ==
    \/ Settles \/ Moves \/ Followed \/ Removes \/ Restores \/ Release
    \/ \E a \in Agent : Reinitializes(a)
Maintaining == AsksForCall \/ CallEnds \/ MaintenanceEnds

Next ==
    \/ Moving \/ ReplayNext
    \/ \E verb \in Verb, by \in Agent \cup {NoAgent} : Reserve(verb, by)
    \/ \E a \in Agent : AddMessage(a) \/ TurnStarts(a) \/ TurnEnds(a)
    \/ \E f \in Agent : SpawnBegins(f) \/ SpawnEnds(f) \/ AgentEnds(f) \/ DisposesEmptied(f)
    \/ Unparks \/ CoolEnds
    \/ MaintenanceStarts \/ Maintaining

(* A surgery's awaits return, a replay runs to its end, and so do a tick    *)
(* and a provider call under way: nothing else is needed for a release.     *)
Fairness == WF_vars(Moving) /\ WF_vars(Maintaining) /\ WF_vars(ReplayNext)

Spec == Init /\ [][Next]_vars /\ Fairness
-----------------------------------------------------------------------------
TypeOK ==
    /\ status \in [Agent -> {"absent", "opening", "live", "ended"}]
    /\ turn \in [Agent -> {"idle", "parked", "running"}]
    /\ gate \in {"open", "cooling", "pending"}
    /\ maintenance \in {"none", "tick", "waiting", "woken", "call"}
    /\ surgeryHold \in Hold \cup {NoHold}
    /\ refusing \subseteq Live /\ behind \subseteq Live
    /\ writes.queue \in Seq(Write) /\ writes.kept \in Seq(Write)
    /\ writes.landed \in [Agent -> 0..writes.accepted]

Waiting == writes.kept \o writes.queue

(* A write whose producer was told it is accepted is settled or waits, once,*)
(* for a live agent; it waits behind every row its agent's store has, the   *)
(* earlier ahead of the later; and it waits for a release under way or a    *)
(* manager that refuses, so a surgery strands none (addMessage,             *)
(* recoverHeldWrites, releaseSurgeryHeldWrites, passHeldWritesOn).          *)
HeldInOrder ==
    /\ TypeOK
    /\ writes.settled \cup {e.n : e \in ToSet(Waiting)} = 1..writes.accepted
    /\ \A e \in ToSet(Waiting) :
         e.n \notin writes.settled /\ e.to \in Live /\ e.n > writes.landed[e.to]
    /\ \A i, j \in 1..Len(Waiting) :
         i < j /\ Waiting[i].to = Waiting[j].to => Waiting[i].n < Waiting[j].n
    /\ writes.queue # <<>> => Held \/ replaying
    /\ ~Held /\ ~replaying => \A e \in ToSet(writes.kept) : e.to \in refusing

(* Once a surgery is over, every manager is on the store's branch or        *)
(* refuses its work, whatever threw and whether the store moved back        *)
(* (followBranchMove, restoreSourceBranch).                                 *)
FollowsOrRefuses == ~Held => behind \subseteq refusing

(* While a surgery holds the store no row lands in it, and while its branch *)
(* moves under the managers no turn runs, no maintenance ticks and no agent *)
(* is created (reserveStoreForSurgery, addMessage, the inference pass).     *)
StandsStill ==
    [][/\ writes'.landed # writes.landed => ~Held /\ ~Held'
       /\ Held' /\ ~At("settling")' =>
            /\ maintenance' = "none"
            /\ \A a \in Agent : turn'[a] # "running" /\ status'[a] # "opening"]_vars

(* A surgery lets the store go and what it held is replayed, whatever       *)
(* waited where it began (reserveStoreForSurgery, settleMaintenancePass).   *)
HoldEnds == (Held \/ replaying) ~> (~Held /\ ~replaying)
=============================================================================
