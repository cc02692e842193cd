-------------------------- MODULE MCQueueAndWaits --------------------------
(***************************************************************************)
(* Small parts side by side for TLC: the event queue with two external and *)
(* two internal events and two consumers, the waits one agent's providers  *)
(* stated, its heartbeat's reminders, and what observers are told of its   *)
(* calls.  They share no state, so a behaviour is one of a part's own;     *)
(* which part is chosen at its start.                                      *)
(***************************************************************************)
EXTENDS ProcessQueue, TLC

CONSTANTS
    Part,                                                   \* the parts that may run
    x1, x2, i1, i2, c1, c2,                                 \* ProcessQueue
    a1, m1, m2,                                             \* ProviderWaits
    Agent, Model, EveryModel, Stated, LastInstant, CheckpointEvery, MaxLog,
    k1, k2, Call, Script, st, Stream, StreamOf, t1, t2, Tool, o1, o2, Observer, Nobody, ServerOf,
    MaxEpochs,                                              \* ToolLifecycle
    r1, r2, Reminder, Interval, Every, Grace, Retry, MaxTimeout, LastTime, MaxFaults    \* Heartbeat

(* One stream; the first observer provides the first tool.                  *)
MCStreamOf == [c \in Call |-> st]
MCServerOf == [t \in Tool |-> IF t = t1 THEN o1 ELSE Nobody]

VARIABLES part

VARIABLES log, visible, stable, lastEntryId, sinceCheckpoint, needsReconcile, needsReopen
VARIABLES now, durable, pending, view, unreadable, waived, phase
VARIABLES clock, started, notBefore, state, unsaveable, tick, alarm, firing, due, file, faults,
          used, owed, over, untimely
VARIABLES calls, made, running, results, scriptWaiters, live, epoch, allowed, heard, steady

waitsVars == <<log, visible, stable, lastEntryId, sinceCheckpoint, needsReconcile, needsReopen,
               now, durable, pending, view, unreadable, waived, phase>>
beatVars == <<clock, started, notBefore, state, unsaveable, tick, alarm, firing, due, file,
              faults, used, owed, over, untimely>>
callVars == <<calls, made, running, results, scriptWaiters, live, epoch, allowed, heard, steady>>

Waits == INSTANCE ProviderWaits
Beat == INSTANCE Heartbeat WITH now <- clock
Calls == INSTANCE ToolLifecycle WITH waiters <- scriptWaiters

Alike == Permutations(Model) \cup Permutations(Reminder)

ASSUME PartsConstants == Waits!WaitsConstants /\ Beat!HeartbeatConstants /\ Calls!LifecycleConstants

PartsInit == part \in Part /\ Init /\ Waits!Init /\ Beat!Init /\ Calls!Init

PartsNext ==
    /\ UNCHANGED part
    /\ \/ part = "queue" /\ Next /\ UNCHANGED <<waitsVars, beatVars, callVars>>
       \/ part = "waits" /\ Waits!Next /\ UNCHANGED <<vars, beatVars, callVars>>
       \/ part = "calls" /\ Calls!Next /\ UNCHANGED <<vars, waitsVars, beatVars>>
       \/ part = "heartbeat" /\ Beat!Next /\ UNCHANGED <<vars, waitsVars, callVars>>

PartsSpec == PartsInit /\ [][PartsNext]_<<part, vars, waitsVars, beatVars, callVars>>

-----------------------------------------------------------------------------
(* The parts' variables keep their types: a deadline never passes the last *)
(* instant (provider-waits.ts 60-73), and an event accepted is queued or    *)
(* delivered, once (queue.ts 21-56).                                        *)
TypesOK == DeliveredAtMostOnce /\ Waits!TypeOK /\ Beat!TypeOK /\ Calls!TypeOK

(* What binds is what the journal holds with the unrecorded acts after it   *)
(* (provider-waits.ts rebuildView, apply, flush).                           *)
BindsTheHistory == Waits!BindsTheHistory

(* A reminder said to be saved is kept, with a timer set for it, and it is  *)
(* delivered in its time, once (heartbeat/heartbeat.ts 602-651).            *)
RemindersFire == Beat!RemindersFire

(* An observer is sent one terminal after each opening                      *)
(* (mcpl/tool-lifecycle.ts 742-832).                                        *)
OneTerminal == Calls!OneTerminal

(* The journal keeps acts in order across restarts, and a deadline falls    *)
(* only by its passing or a release (provider-waits.ts set, release,        *)
(* flush).                                                                  *)
ImplementsStatedWaits == Waits!ImplementsStatedWaits
=============================================================================
