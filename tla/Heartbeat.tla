----------------------------- MODULE Heartbeat -----------------------------
(***************************************************************************)
(* The heartbeat: an agent's periodic tick and its reminders, kept in a    *)
(* file and fired by two timers (src/heartbeat/heartbeat.ts).              *)
(*                                                                         *)
(* A reminder is delivered and then saved as delivered, so the process may *)
(* end between the two, a delivery may throw, and a save may fail; a file  *)
(* that cannot be read is left alone until a start reads it.  Calls run    *)
(* without interruption but for the process's end.                         *)
(***************************************************************************)
EXTENDS Integers, FiniteSets

CONSTANTS
    Reminder,       \* ids of reminders, each given out once
    Interval,       \* intervals a tick may be configured to
    Every,          \* intervals of a repeating reminder
    Grace,          \* START_GRACE_MS
    Retry,          \* RETRY_MS
    MaxTimeout,     \* MAX_TIMEOUT_MS, the longest a timer can wait
    LastTime,       \* LAST_REMINDER_TIME, the last a reminder can hold
    MaxFaults       \* bound of the instance: crashes, failed writes, reads, deliveries

(* MIN_HEARTBEAT_SECONDS and MIN_REMINDER_SECONDS are positive; a time that  *)
(* a reminder cannot hold is refused.                                        *)
HeartbeatConstants ==
    /\ Interval \subseteq Nat \ {0} /\ Interval # {}
    /\ Every \subseteq Nat \ {0}
    /\ {Grace, Retry, MaxTimeout, LastTime, MaxFaults} \subseteq Nat

Never == -1         \* null
Time == 0..LastTime
CanHoldTime(t) == t <= LastTime

NoTimer == [due |-> Never, rings |-> Never]
NoReminder == [fireAt |-> Never, every |-> Never, retryAt |-> Never]
NoReminders == [r \in Reminder |-> NoReminder]
Defaults == [next |-> Never, paused |-> FALSE, every |-> CHOOSE i \in Interval : \A j \in Interval : i <= j,
             reminders |-> NoReminders]

VARIABLES
    now,
    started, notBefore,
    state,          \* settings, next tick, reminders
    unsaveable,     \* nothing is written over what could not be read
    tick, alarm,    \* cancelTick, cancelReminders: the armed timers
    firing,         \* fireDueReminders runs
    due,            \* and has yet to come to these
    file,           \* the state file
    faults

VARIABLES           \* history
    used,           \* ids given out
    owed,           \* reminders said to be set and saved, and due yet
    over,           \* <<reminder, time>>: delivered or cancelled
    untimely        \* reminders delivered though over, or before their time

history == <<used, owed, over, untimely>>
vars == <<now, started, notBefore, state, unsaveable, tick, alarm, firing, due, file, faults, history>>

Larger(a, b) == IF a > b THEN a ELSE b
Outstanding(s) == {r \in Reminder : s.reminders[r] # NoReminder}
DueAt(rem) == IF rem.retryAt # Never THEN rem.retryAt ELSE rem.fireAt

Faulty == faults < MaxFaults /\ faults' = faults + 1

-----------------------------------------------------------------------------
(* Timers and the file.                                                     *)

(* callAt: a timer that waits at most MaxTimeout, then waits on.            *)
CallAt(at) ==
    [due |-> at,
     rings |-> now + Larger(0, IF at - now < MaxTimeout THEN at - now ELSE MaxTimeout)]

ArmedTick(s) ==                                                 \* armTick
    IF s.paused \/ s.next = Never THEN NoTimer ELSE CallAt(Larger(s.next, notBefore'))

ArmedReminders(s) ==                                            \* armReminders
    IF Outstanding(s) = {} THEN NoTimer
    ELSE LET first == CHOOSE r \in Outstanding(s) :
                          \A q \in Outstanding(s) : DueAt(s.reminders[r]) <= DueAt(s.reminders[q])
         IN  CallAt(Larger(DueAt(s.reminders[first]), notBefore'))

(* save(): a temporary file renamed over the state.                         *)
Writes == ~unsaveable' /\ file' = state' /\ UNCHANGED faults
Save == \/ Writes
        \/ unsaveable' /\ UNCHANGED <<file, faults>>
        \/ ~unsaveable' /\ Faulty /\ UNCHANGED file

(* What a start that reads the file may see again.                          *)
Forgotten == {o \in over : LET rem == file.reminders[o[1]]
                           IN  rem # NoReminder /\ rem.fireAt <= o[2]}

Init ==
    /\ now = 0 /\ started = FALSE /\ notBefore = 0
    /\ state = Defaults /\ unsaveable = FALSE
    /\ tick = NoTimer /\ alarm = NoTimer /\ firing = FALSE /\ due = {}
    /\ file = Defaults /\ faults = 0
    /\ used = {} /\ owed = {} /\ over = {} /\ untimely = {}

-----------------------------------------------------------------------------
(* start(), with load(): a file that is not there is Defaults here.         *)
Loads(s) ==
    LET next == IF s.paused THEN Never
                ELSE IF s.next = Never THEN now + s.every ELSE s.next
    IN  state' = [s EXCEPT !.next = next]

Unread ==
    /\ Faulty
    /\ Loads(Defaults) /\ unsaveable' = TRUE
    /\ UNCHANGED file

Read == Loads(file) /\ unsaveable' = FALSE /\ Save

Start ==
    /\ ~started
    /\ started' = TRUE /\ notBefore' = now + Grace
    /\ Read \/ Unread
    /\ tick' = ArmedTick(state') /\ alarm' = ArmedReminders(state')
    /\ UNCHANGED <<now, firing, due, history>>

Ends ==
    /\ started' = FALSE /\ firing' = FALSE /\ due' = {}
    /\ tick' = NoTimer /\ alarm' = NoTimer
    /\ over' = over \ Forgotten
    /\ UNCHANGED <<now, notBefore, state, unsaveable, file, used, owed, untimely>>

Stop == started /\ ~firing /\ Ends /\ UNCHANGED faults
Crash == started /\ Ends /\ Faulty

-----------------------------------------------------------------------------
(* The agent's tools (handleToolCall).                                      *)

AtRest == started /\ ~firing
Changes == UNCHANGED <<now, started, notBefore, unsaveable, firing, due>>

(* reminder_add.  Its answer says whether it is saved.                      *)
AddReminder(r, first, every) ==
    /\ AtRest /\ r \notin used
    /\ CanHoldTime(first)      \* a past time too: it fires at once
    /\ every # Never => CanHoldTime(first + every)
    /\ state' = [state EXCEPT !.reminders[r] = [fireAt |-> first, every |-> every, retryAt |-> Never]]
    /\ Changes /\ Save
    /\ alarm' = ArmedReminders(state')
    /\ used' = used \cup {r}
    /\ owed' = IF file' = state' THEN owed \cup {r} ELSE owed
    /\ UNCHANGED <<tick, over, untimely>>

CancelReminder(r) ==
    /\ AtRest /\ r \in Outstanding(state)
    /\ state' = [state EXCEPT !.reminders[r] = NoReminder]
    /\ Changes /\ Save
    /\ alarm' = ArmedReminders(state')
    /\ owed' = owed \ {r} /\ over' = over \cup ({r} \X Time)
    /\ UNCHANGED <<tick, used, untimely>>

(* heartbeat_configure, where it changes the schedule.                      *)
Configure(paused, every) ==
    /\ AtRest /\ <<paused, every>> # <<state.paused, state.every>>
    /\ state' = [state EXCEPT !.paused = paused, !.every = every,
                              !.next = IF paused THEN Never ELSE now + every]
    /\ Changes /\ Save
    /\ tick' = ArmedTick(state')
    /\ UNCHANGED <<alarm, history>>

-----------------------------------------------------------------------------
(* What the timers do.                                                      *)

Rings(timer) == AtRest /\ timer # NoTimer /\ now >= timer.rings

(* A wait of MaxTimeout ended before the time it waits for.                 *)
TickWaitsOn ==
    /\ Rings(tick) /\ now < tick.due
    /\ tick' = CallAt(tick.due)
    /\ UNCHANGED <<alarm, state, file, faults, history>> /\ Changes

AlarmWaitsOn ==
    /\ Rings(alarm) /\ now < alarm.due
    /\ alarm' = CallAt(alarm.due)
    /\ UNCHANGED <<tick, state, file, faults, history>> /\ Changes

(* The tick is due: fireTick, whose delivery may throw.                     *)
TickDue ==
    /\ Rings(tick) /\ now >= tick.due
    /\ \/ state' = [state EXCEPT !.next = now + state.every] /\ Changes /\ Save
       \/ /\ state' = [state EXCEPT !.next = now + Retry]
          /\ Changes /\ Faulty
          /\ file' = IF unsaveable THEN file ELSE state'
    /\ tick' = ArmedTick(state')
    /\ UNCHANGED <<alarm, history>>

AlarmDue ==
    /\ Rings(alarm) /\ now >= alarm.due
    /\ firing' = TRUE
    /\ due' = {r \in Outstanding(state) : DueAt(state.reminders[r]) <= now}
    /\ alarm' = NoTimer
    /\ UNCHANGED <<now, started, notBefore, state, unsaveable, tick, file, faults, history>>

(* The one of them the sort puts first.                                     *)
First(r) == r \in due /\ \A q \in due : DueAt(state.reminders[r]) <= DueAt(state.reminders[q])

(* Defect: the time its retry was set for stays.                            *)
AfterFireRetried(rem) ==
    IF rem.every = Never \/ ~CanHoldTime(rem.fireAt + rem.every) THEN NoReminder
    ELSE [rem EXCEPT !.fireAt = rem.fireAt + rem.every]

(* What is left of a reminder delivered now: a repeating one's next time,   *)
(* in its rhythm but for the periods it missed.                             *)
AfterFire(rem) ==
    LET kept == rem.fireAt + rem.every
        next == IF kept <= now THEN now + rem.every ELSE kept
    IN  IF rem.every = Never \/ ~CanHoldTime(next) THEN NoReminder
        ELSE [rem EXCEPT !.fireAt = next, !.retryAt = Never]

Delivers(r) ==
    LET rem == state.reminders[r]
        left == AfterFire(rem)
    IN  /\ state' = [state EXCEPT !.reminders[r] = left]
        /\ owed' = IF left = NoReminder THEN owed \ {r} ELSE owed
        /\ over' = over \cup {<<r, rem.fireAt>>}
        /\ untimely' = IF <<r, rem.fireAt>> \in over \/ now < rem.fireAt
                       THEN untimely \cup {r} ELSE untimely
        /\ UNCHANGED <<used, faults>>

DeliveryThrows(r) ==
    /\ Faulty
    /\ state' = [state EXCEPT !.reminders[r].retryAt = now + Retry]
    /\ UNCHANGED history

FireFirst(r) ==
    /\ First(r)
    /\ due' = due \ {r}
    /\ Delivers(r) \/ DeliveryThrows(r)
    /\ UNCHANGED <<now, started, notBefore, unsaveable, tick, alarm, firing, file>>

FiringEnds ==
    /\ firing /\ due = {}
    /\ firing' = FALSE
    /\ UNCHANGED <<now, started, notBefore, state, unsaveable, tick, due, history>>
    /\ Save
    /\ alarm' = ArmedReminders(state')

Passes ==
    /\ ~firing /\ now < LastTime
    /\ now' = now + 1
    /\ UNCHANGED <<started, notBefore, state, unsaveable, tick, alarm, firing, due, file, faults,
                   history>>

Next ==
    \/ Start \/ Stop \/ Crash \/ Passes
    \/ \E r \in Reminder :
          \/ \E first \in Time, every \in Every \cup {Never} : AddReminder(r, first, every)
          \/ CancelReminder(r) \/ FireFirst(r)
    \/ \E paused \in BOOLEAN, every \in Interval : Configure(paused, every)
    \/ TickWaitsOn \/ AlarmWaitsOn \/ TickDue \/ AlarmDue \/ FiringEnds

Spec == Init /\ [][Next]_vars

-----------------------------------------------------------------------------
Settings == [next : Int, paused : BOOLEAN, every : Interval,
             reminders : [Reminder -> [fireAt : Time \cup {Never}, every : Every \cup {Never}, retryAt : Int]]]

TypeOK ==
    /\ now \in Time /\ notBefore \in Nat /\ started \in BOOLEAN /\ firing \in BOOLEAN
    /\ state \in Settings /\ file \in Settings /\ unsaveable \in BOOLEAN
    /\ tick \in [due : Int, rings : Int] /\ alarm \in [due : Int, rings : Int]
    /\ due \subseteq Reminder /\ faults \in 0..MaxFaults
    /\ used \subseteq Reminder /\ owed \subseteq used /\ untimely \subseteq used
    /\ over \subseteq Reminder \X Time

(* A reminder the agent was told is saved, and that is neither delivered    *)
(* for the last time nor cancelled, is in the file, whatever fails or ends; *)
(* the process that read the file holds it, with the timer set for its time *)
(* or an earlier one (save, load, armReminders, callAt).                    *)
Kept ==
    \A r \in owed :
        /\ file.reminders[r] # NoReminder
        /\ started /\ ~unsaveable =>
              /\ state.reminders[r] # NoReminder
              /\ ~firing => /\ alarm # NoTimer
                            /\ alarm.due <= Larger(DueAt(state.reminders[r]), notBefore)

(* No reminder is delivered before its time, nor for a time it was          *)
(* delivered for, nor once cancelled, unless a start read a file that a     *)
(* crash or a failed write had left behind (fireDueReminders,               *)
(* cancelReminder).                                                         *)
Timely == untimely = {}

(* Reminders are kept until they are due, and delivered then and no more.   *)
RemindersFire == Kept /\ Timely
=============================================================================
