--------------------------- MODULE AgentRegistry ---------------------------
(***************************************************************************)
(* The record of which agents exist and the mail it holds between them     *)
(* (dendrite/registry.ts), composed with what the framework does around    *)
(* it: the recovery files it writes before the store (framework.ts         *)
(* 12795-12835), the delivery of mail into recipients' stores and its      *)
(* release (12292-12432, 13146-13163, 33653-33682), writes a surgery keeps *)
(* in memory, and the boot after a crash (12916-12973, 13042-13122).       *)
(*                                                                         *)
(* Residents are persistent agents, declared by configuration at each      *)
(* boot; tasks are bounded and one that was live at a crash has been       *)
(* interrupted. A task's name that is registered again is resumed, on the  *)
(* context it left.                                                        *)
(***************************************************************************)
EXTENDS Naturals, Sequences, FiniteSets

CONSTANTS
    Resident,     \* names of persistent agents
    Primary,      \* the one of them that owns default delivery
    Task,         \* names of bounded agents, no resident's
    NoAgent,      \* no spawner, or no result route: no name
    MaxNumber,    \* incarnations a task's name comes to (bound of the instance)
    MaxMail,      \* mails sent (bound of the instance)
    MaxActs,      \* requests and crashes (bound of the instance)
    MaxFaults     \* writes that fail or wait (bound of the instance)

RegistryConstants ==
    /\ Primary \in Resident /\ Resident \cap Task = {}
    /\ NoAgent \notin Resident \cup Task
    /\ IsFiniteSet(Resident)
    /\ MaxMail \in Nat /\ MaxActs \in Nat /\ MaxFaults \in Nat

VARIABLES
    phase,      \* where the process is: down, declaring or telling at its start, or up;
                \* failed when a write of its start threw: it only ends
    reg,        \* the registry in memory
    recovery,   \* the ended records the framework writes next to the ended log's file
    disk,       \* the registry's recovery file
    endedFile,  \* the ended log's recovery file
    rows,       \* mail copies and restart notices in the agents' stores, in order
    onDisk,     \* how many of them the disk has
    kept,       \* mail copies a surgery or a refusing context keeps in memory
    todo,       \* mails the running call has still to deliver
    checks,     \* whether it looks for an earlier copy first (deliverHeldMail)
    acts,       \* requests and crashes so far
    faults,     \* writes that failed or waited so far
    begun,      \* history: task records whose registration succeeded
    closed,     \* history: those whose end was recorded or asked for
    accepted,   \* history: mails whose sender was told they are held
    moves,      \* history: how often an address was asked for, for each mail
    excused     \* history: interrupted tasks a boot found nobody to tell of

vars == <<phase, reg, recovery, disk, endedFile, rows, onDisk, kept, todo,
          checks, acts, faults, begun, closed, accepted, moves, excused>>
history == <<begun, closed, accepted, moves, excused>>
stores  == <<rows, onDisk, kept>>
files   == <<recovery, disk, endedFile>>

-----------------------------------------------------------------------------
(* Records and the registry's reductions of them *)

Name == Resident \cup Task

Record == [name : Name, number : Nat, spawner : Name \cup {NoAgent},
           orphan : BOOLEAN, follows : BOOLEAN, to : Name \cup {NoAgent}]

Key(r)   == <<r.name, r.number>>
Keys(R)  == {Key(r) : r \in R}
Names(R) == {r.name : r \in R}

Mail == [id : 1..MaxMail, from : Name \X Nat, kind : {"message", "result"},
         to : Name]

Row == [what : {"mail"}, id : 1..MaxMail, from : Name \X Nat,
        kind : {"message", "result"}, to : Name]
         \cup [what : {"notice"}, of : SUBSET (Name \X Nat), to : Name]

Empty == [live |-> {}, awaiting |-> {}, pending |-> {}, ended |-> {},
          numbers |-> [n \in Name |-> 0], mail |-> {}]

Live == Names(reg.live)
LiveRecord(n) == CHOOSE r \in reg.live : r.name = n

(* The record a name stands for: live, or the newest that ended. *)
Known(n) == \E r \in reg.live \cup reg.ended : r.name = n
Inspect(n) ==
    IF n \in Live
      THEN LiveRecord(n)
      ELSE CHOOSE r \in reg.ended :
             /\ r.name = n
             /\ \A o \in reg.ended : o.name = n => o.number <= r.number

(* Live agents above n, by spawner. *)
Ancestors(n) ==
    LET above[k \in Nat] ==
          IF k = 0 THEN {n}
          ELSE LET near == above[k - 1] IN
               near \cup {r.spawner : r \in {s \in reg.live : s.name \in near}}
    IN  above[Cardinality(Live)] \cap (Live \ {n})

(* n and the live agents that end with it, which end those that end with them. *)
EndsWith(n) ==
    LET below[k \in Nat] ==
          IF k = 0 THEN {n}
          ELSE LET near == below[k - 1] IN
               near \cup {r.name : r \in {s \in reg.live : /\ s.spawner \in near
                                                           /\ s.follows
                                                           /\ ~s.orphan}}
    IN  below[Cardinality(Live)]

(* The registry once the agents of gone have ended: their other children are
   orphans. *)
Without(gone) ==
    [reg EXCEPT
       !.live  = {IF r.spawner \in gone THEN [r EXCEPT !.orphan = TRUE] ELSE r :
                    r \in {s \in reg.live : s.name \notin gone}},
       !.ended = @ \cup {r \in reg.live : r.name \in gone}]

(* Names whose incarnation numbers a snapshot keeps. *)
Referable(g) == Names(g.live \cup g.awaiting \cup g.pending \cup g.ended)

Snapshot(g) ==
    [records |-> g.awaiting \cup g.pending \cup g.live,
     numbers |-> [n \in Name |-> IF n \in Referable(g) THEN g.numbers[n] ELSE 0],
     mail    |-> g.mail]

(* Ended records whose end may be written: not those a boot has yet to settle. *)
EndedHistory(g) == g.ended \ g.pending

-----------------------------------------------------------------------------
(* Writes: a change is written to the recovery files, then to the store's own
   state, and fails if either does. *)

Act   == acts < MaxActs /\ acts' = acts + 1
Fault == faults < MaxFaults /\ faults' = faults + 1

(* A requested change that is written, with the ends it records. *)
Written(new, ends) ==
    /\ reg' = new
    /\ disk' = Snapshot(new)
    /\ recovery' = recovery \cup ends
    /\ endedFile' = IF ends = {} THEN endedFile ELSE recovery'
    /\ UNCHANGED faults

(* One that fails: memory goes back, and the files are rewritten from it,
   unless that fails too. *)
RolledBack(new, ends) ==
    /\ Fault
    /\ reg' = reg
    /\ disk' \in {disk, Snapshot(new), Snapshot(reg)}
    /\ recovery' = EndedHistory(reg)
    /\ \E some \in SUBSET ends :
         endedFile' \in {endedFile, recovery \cup some, recovery'}

(* A record of what has happened: a write that fails leaves it in memory. *)
Recorded(new, ends) ==
    /\ reg' = new
    /\ recovery' = recovery \cup ends
    /\ \/ /\ disk' = Snapshot(new)
          /\ endedFile' = IF ends = {} THEN endedFile ELSE recovery'
          /\ UNCHANGED faults
       \/ /\ Fault
          /\ disk' \in {disk, Snapshot(new)}
          /\ \E some \in SUBSET ends :
               endedFile' \in {endedFile, recovery \cup some}

Free == phase = "up" /\ todo = {}

-----------------------------------------------------------------------------
(* Agents come, go and change parents *)

Spawned(n, s, follows) ==
    [name |-> n, number |-> reg.numbers[n] + 1, spawner |-> s,
     orphan |-> s \notin Live, follows |-> follows, to |-> s]

(* Defect: a live agent's name is registered again. *)
RegistrableAgain(n) == n \in Task

Registrable(n) == n \in Task \ Live

Spawn(n, s, follows) ==
    /\ Free /\ Act
    /\ Registrable(n)
    /\ reg.numbers[n] < MaxNumber
    /\ s # n /\ Known(s)
    /\ follows => s \in Live
    /\ LET r == Spawned(n, s, follows)
           new == [reg EXCEPT !.live = @ \cup {r}, !.numbers[n] = r.number]
       IN  \/ /\ Written(new, {})
              /\ begun' = begun \cup {r}
              /\ todo' = {m.id : m \in {x \in reg.mail : x.to = n}}
              /\ checks' = TRUE
           \/ /\ RolledBack(new, {})
              /\ UNCHANGED <<begun, todo, checks>>
    /\ UNCHANGED <<phase, stores, closed, accepted, moves, excused>>

(* Copies kept for an agent that ends go with it. *)
KeptWithout(gone) == {c \in kept : c.to \notin gone}

(* A run's own end, or the conversation router's: it has happened. *)
RunEnds(n) ==
    /\ Free
    /\ n \in Task \cap Live
    /\ LET gone == EndsWith(n) IN
         /\ Recorded(Without(gone), {r \in reg.live : r.name \in gone})
         /\ closed' = closed \cup {k \in Keys(reg.live) : k[1] \in gone}
         /\ kept' = KeptWithout(gone)
    /\ UNCHANGED <<phase, rows, onDisk, todo, checks, acts, begun, accepted,
                   moves, excused>>

(* An operator's stop, which may fail; then the files may keep it all the same. *)
StopAgent(n) ==
    /\ Free /\ Act
    /\ n \in Live \ {Primary}
    /\ LET gone == EndsWith(n)
           ends == {r \in reg.live : r.name \in gone}
       IN  \/ /\ Written(Without(gone), ends)
              /\ kept' = KeptWithout(gone)
              /\ closed' = closed \cup Keys(ends)
           \/ /\ RolledBack(Without(gone), ends)
              /\ closed' = closed \cup {k \in Keys(ends) : \/ k \in Keys(endedFile')
                                                         \/ k \notin Keys(disk'.records)}
              /\ UNCHANGED kept
    /\ UNCHANGED <<phase, rows, onDisk, todo, checks, begun, accepted, moves,
                   excused>>

(* Mail of n to an agent that is gone. *)
Undeliverable(n) == {m \in reg.mail : m.from[1] = n /\ m.to \notin Live}

Readdressed(n, p) ==
    {IF m \in Undeliverable(n) THEN [m EXCEPT !.to = p] ELSE m : m \in reg.mail}

Adopted(r, p) ==
    [r EXCEPT !.spawner = p, !.orphan = FALSE,
              !.to = IF @ = NoAgent \/ @ \in Live THEN @ ELSE p]

MayAdopt(n, p) == n \notin Live \/ n \notin Ancestors(p)

(* A live agent gets a new parent; mail of one, live or ended, finds a new
   recipient. *)
Reparent(n, p) ==
    /\ Free /\ Act
    /\ Known(n) /\ p \in Live /\ p # n
    /\ MayAdopt(n, p)
    /\ n \in Live \/ Undeliverable(n) # {}
    /\ LET ids == {m.id : m \in Undeliverable(n)}
           new == [reg EXCEPT
                     !.live = {IF r.name = n THEN Adopted(r, p) ELSE r : r \in @},
                     !.mail = Readdressed(n, p)]
       IN  /\ moves' = [i \in 1..MaxMail |-> moves[i] + IF i \in ids THEN 1 ELSE 0]
           /\ \/ /\ Written(new, {})
                 /\ todo' = ids /\ checks' = FALSE
              \/ /\ RolledBack(new, {})
                 /\ UNCHANGED <<todo, checks>>
    /\ UNCHANGED <<phase, stores, begun, closed, accepted, excused>>

-----------------------------------------------------------------------------
(* Mail *)

WithMail(m)  == [reg EXCEPT !.mail = @ \cup {m}]
Released(id) == [reg EXCEPT !.mail = {m \in @ : m.id # id}]

(* A task sends its result along its route (deliverAgentResult), a resident a
   message to anyone (sendAgentMessage). *)
Unused == {i \in 1..MaxMail : moves[i] = 0}

HoldMail(n, to) ==
    /\ Free /\ Act
    /\ Known(n) /\ Known(to) /\ to # n
    /\ n \in Task => to = Inspect(n).to
    /\ Unused # {}
    /\ LET m == [id |-> CHOOSE i \in Unused : \A j \in Unused : i <= j,
                 from |-> Key(Inspect(n)),
                 kind |-> IF n \in Task THEN "result" ELSE "message", to |-> to]
           new == WithMail(m)
       IN  /\ moves' = [moves EXCEPT ![m.id] = 1]
           /\ \/ /\ Written(new, {})
                 /\ accepted' = accepted \cup {m.id}
                 /\ todo' = {m.id} /\ checks' = FALSE
              \/ /\ RolledBack(new, {})
                 /\ UNCHANGED <<accepted, todo, checks>>
    /\ UNCHANGED <<phase, stores, begun, closed, excused>>

Copy(m) == [what |-> "mail", id |-> m.id, from |-> m.from, kind |-> m.kind,
            to |-> m.to]

Stored(row) == \E i \in DOMAIN rows : rows[i] = row

(* Defect: released without waiting for the store. *)
LandedUnsynced(copy) ==
    /\ Recorded(Released(copy.id), {})
    /\ UNCHANGED onDisk

(* A copy has been stored: its mail is released once the store is on disk. *)
Landed(copy) ==
    \/ /\ \E m \in reg.mail : m.id = copy.id /\ Copy(m) # copy
       /\ UNCHANGED <<onDisk, reg, files, faults>>
    \/ /\ \A m \in reg.mail : m.id = copy.id => Copy(m) = copy
       /\ \/ /\ onDisk' = Len(rows')
             /\ Recorded(Released(copy.id), {})
          \/ /\ Fault
             /\ UNCHANGED <<onDisk, reg, files>>

(* Defect: held mail is delivered without a look for its copy. *)
DeliverUnseen(m) ==
    /\ phase = "up"
    /\ m \in reg.mail /\ m.id \in todo /\ m.to \in Live
    /\ todo' = todo \ {m.id}
    /\ rows' = Append(rows, Copy(m))
    /\ Landed(Copy(m))
    /\ UNCHANGED <<phase, checks, acts, kept, history>>

(* The next mail of the running call. *)
Deliver(m) ==
    /\ phase = "up"
    /\ m \in reg.mail /\ m.id \in todo
    /\ todo' = todo \ {m.id}
    /\ UNCHANGED <<phase, checks, acts, history>>
    /\ \/ /\ m.to \notin Live
          /\ disk' \in {disk, Snapshot(reg)}
          /\ UNCHANGED <<reg, recovery, endedFile, stores, faults>>
       \/ /\ m.to \in Live
          /\ checks /\ Stored(Copy(m))
          /\ UNCHANGED <<rows, kept>>
          /\ Landed(Copy(m))
       \/ /\ m.to \in Live
          /\ ~(checks /\ Stored(Copy(m)))
          /\ \/ /\ rows' = Append(rows, Copy(m))
                /\ Landed(Copy(m))
                /\ UNCHANGED kept
             \/ /\ Fault
                /\ kept' = kept \cup {Copy(m)}
                /\ UNCHANGED <<reg, files, rows, onDisk>>

(* The recipient's store refuses: the call ends, its mail stays held. *)
StoreRefuses ==
    /\ phase = "up" /\ todo # {}
    /\ Fault
    /\ todo' = {}
    /\ UNCHANGED <<phase, reg, files, stores, checks, acts, history>>

(* The surgery's end replays a copy it kept. *)
Replay(copy) ==
    /\ Free
    /\ copy \in kept
    /\ kept' = kept \ {copy}
    /\ rows' = Append(rows, copy)
    /\ Landed(copy)
    /\ UNCHANGED <<phase, todo, checks, acts, history>>

-----------------------------------------------------------------------------
(* Crash and boot *)

(* What of the store was not synced may be there or not. *)
Crash ==
    /\ phase # "down"
    /\ Act
    /\ phase' = "down"
    /\ \E n \in onDisk..Len(rows) : rows' = SubSeq(rows, 1, n) /\ onDisk' = n
    /\ reg' = Empty /\ recovery' = {} /\ kept' = {}
    /\ todo' = {} /\ checks' = FALSE
    /\ UNCHANGED <<disk, endedFile, faults, history>>

(* The files are read: residents wait to be declared, tasks were interrupted
   unless the ended log has them. *)
Restore ==
    /\ phase = "down"
    /\ LET tasks == {r \in disk.records : r.name \in Task}
           gone == {r \in tasks : Key(r) \in Keys(endedFile)}
           new == [live |-> {}, awaiting |-> disk.records \ tasks,
                   pending |-> tasks \ gone,
                   ended |-> endedFile \cup (tasks \ gone),
                   numbers |-> disk.numbers, mail |-> disk.mail]
       IN  /\ reg' = new
           /\ \/ /\ disk' = IF gone = {} THEN disk ELSE Snapshot(new)
                 /\ phase' = "declaring" /\ UNCHANGED faults
              \/ /\ gone # {} /\ Fault
                 /\ disk' \in {disk, Snapshot(new)} /\ phase' = "failed"
    /\ recovery' = endedFile
    /\ UNCHANGED <<endedFile, stores, todo, checks, acts, history>>

Declare(p) ==
    /\ phase = "declaring"
    /\ p \in Resident \ Live
    /\ LET r == [name |-> p, number |-> reg.numbers[p] + 1, spawner |-> NoAgent,
                 orphan |-> FALSE, follows |-> FALSE, to |-> NoAgent]
           new == [reg EXCEPT !.live = @ \cup {r}, !.numbers[p] = r.number,
                              !.awaiting = {a \in @ : a.name # p}]
       IN  \/ Written(new, {}) /\ UNCHANGED phase
           \/ RolledBack(new, {}) /\ phase' = "failed"
    /\ UNCHANGED <<stores, todo, checks, acts, history>>

(* Residents no longer declared end: an end that cannot be written fails the
   start before the snapshot is. *)
Reconcile ==
    /\ phase = "declaring"
    /\ Primary \in Live
    /\ LET ends == reg.awaiting
           new == [reg EXCEPT !.awaiting = {}, !.ended = @ \cup ends]
       IN  \/ Written(new, ends) /\ phase' = "telling"
           \/ /\ ends # {} /\ Fault /\ phase' = "failed"
              /\ reg' = new /\ recovery' = recovery \cup ends
              /\ \/ /\ disk' = disk
                    /\ \E some \in SUBSET ends :
                         endedFile' \in {endedFile, recovery \cup some}
                 \/ disk' = Snapshot(new) /\ endedFile' = recovery'
    /\ UNCHANGED <<stores, todo, checks, acts, history>>

(* A result handed over: still held, or in its recipient's store. *)
HandedOver(r) ==
    \/ \E m \in reg.mail : m.from[1] = r.name /\ m.kind = "result"
    \/ \E i \in DOMAIN rows : /\ rows[i].what = "mail" /\ rows[i].kind = "result"
                              /\ rows[i].from = Key(r) /\ rows[i].to = r.to

(* An earlier notice to its recipient names it. *)
Told(r) ==
    \E i \in DOMAIN rows : /\ rows[i].what = "notice" /\ rows[i].to = r.to
                           /\ Key(r) \in rows[i].of

ToTell == {r \in reg.pending : r.to \in Live /\ ~HandedOver(r) /\ ~Told(r)}

(* One notice tells p of the tasks interrupted while they worked for it. *)
TellInterrupted(p) ==
    /\ phase = "telling"
    /\ LET told == {r \in ToTell : r.to = p}
       IN  /\ told # {}
           /\ rows' = Append(rows, [what |-> "notice", of |-> Keys(told), to |-> p])
    /\ UNCHANGED <<phase, reg, files, onDisk, kept, todo, checks, acts, faults, history>>

(* The ends of the interrupted are written and the snapshot lets go of those
   that were; any may be left for the next boot, or fail to be written. *)
LetsGo ==
    \E settled \in SUBSET reg.pending :
      /\ recovery' = recovery \cup settled
      /\ LET new == [reg EXCEPT !.pending = @ \ settled] IN
           \/ /\ reg' = new
              /\ disk' = Snapshot(new)
              /\ endedFile' = IF settled = {} THEN endedFile ELSE recovery'
              /\ UNCHANGED faults
           \/ /\ Fault
              /\ \E some \in SUBSET settled :
                   /\ reg' = [reg EXCEPT !.pending = @ \ some]
                   /\ disk' \in {disk, Snapshot(reg')}
                   /\ \E more \in SUBSET settled :
                        endedFile' \in {endedFile, recovery \cup some \cup more}
                   /\ some # {} => some \subseteq endedFile'

(* History: interrupted tasks this boot tells nobody of though they handed no
   result over. The registry asks for mail by the sender's name alone. *)
Excused ==
    {r \in reg.pending :
       \/ r.to \notin Live
       \/ \E m \in reg.mail : /\ m.from[1] = r.name /\ m.from # Key(r)
                              /\ m.kind = "result"}

(* Defect: the interrupted are settled before their notices are on disk. *)
SettleUnsynced ==
    /\ phase = "telling" /\ ToTell = {}
    /\ LetsGo
    /\ phase' = "up"
    /\ todo' = {m.id : m \in reg.mail}
    /\ checks' = TRUE
    /\ excused' = excused \cup Keys(Excused)
    /\ UNCHANGED <<onDisk, rows, kept, acts, begun, closed, accepted, moves>>

SettleInterrupted ==
    /\ phase = "telling" /\ ToTell = {}
    /\ \/ reg.pending = {} /\ UNCHANGED <<onDisk, reg, files, faults>>
       \/ reg.pending # {} /\ onDisk' = Len(rows) /\ LetsGo
       \/ reg.pending # {} /\ Fault /\ UNCHANGED <<onDisk, reg, files>>
    /\ phase' = "up"
    /\ todo' = {m.id : m \in reg.mail}
    /\ checks' = TRUE
    /\ excused' = excused \cup Keys(Excused)
    /\ UNCHANGED <<rows, kept, acts, begun, closed, accepted, moves>>

-----------------------------------------------------------------------------

(* A host that has started with every resident declared. *)
Resting == [Empty EXCEPT
    !.live = {[name |-> p, number |-> 1, spawner |-> NoAgent, orphan |-> FALSE,
               follows |-> FALSE, to |-> NoAgent] : p \in Resident},
    !.numbers = [n \in Name |-> IF n \in Resident THEN 1 ELSE 0]]

Init ==
    /\ phase = "up"
    /\ reg = Resting
    /\ recovery = {} /\ endedFile = {}
    /\ disk = Snapshot(Resting)
    /\ rows = <<>> /\ onDisk = 0
    /\ kept = {} /\ todo = {} /\ checks = FALSE
    /\ acts = 0 /\ faults = 0
    /\ begun = {} /\ closed = {} /\ accepted = {} /\ excused = {}
    /\ moves = [i \in 1..MaxMail |-> 0]

Next ==
    \/ \E n \in Task, s \in Name, follows \in BOOLEAN : Spawn(n, s, follows)
    \/ \E n \in Name : RunEnds(n) \/ StopAgent(n)
    \/ \E n, p \in Name : Reparent(n, p)
    \/ \E n, to \in Name : HoldMail(n, to)
    \/ \E m \in reg.mail : Deliver(m)
    \/ StoreRefuses
    \/ \E copy \in kept : Replay(copy)
    \/ Crash
    \/ Restore
    \/ \E p \in Resident : Declare(p)
    \/ Reconcile
    \/ \E p \in Name : TellInterrupted(p)
    \/ SettleInterrupted

Spec == Init /\ [][Next]_vars

-----------------------------------------------------------------------------
(* Properties *)

Registry == [live : SUBSET Record, awaiting : SUBSET Record,
             pending : SUBSET Record, ended : SUBSET Record,
             numbers : [Name -> Nat], mail : SUBSET Mail]

(* A live agent that is no orphan has a live parent, and no agent is its own
   ancestor (endRecursive, 607-631; reparent, 647-675). *)
ParentsLive ==
    /\ \A r \in reg.live : r.spawner # NoAgent /\ ~r.orphan => r.spawner \in Live
    /\ \A S \in SUBSET reg.live :
         S # {} => \E r \in S : r.orphan \/ r.spawner \notin Names(S)

(* Every variable has its type, a name one live record, each its parent
   (dendrite/registry.ts 256-319). *)
TypeOK ==
    /\ phase \in {"down", "declaring", "telling", "up", "failed"}
    /\ reg \in Registry
    /\ Cardinality(Live) = Cardinality(reg.live)
    /\ recovery \subseteq Record /\ endedFile \subseteq Record
    /\ disk \in [records : SUBSET Record, numbers : [Name -> Nat],
                 mail : SUBSET Mail]
    /\ rows \in Seq(Row) /\ onDisk \in 0..Len(rows)
    /\ kept \subseteq Row
    /\ todo \subseteq 1..MaxMail /\ checks \in BOOLEAN /\ acts \in 0..MaxActs
    /\ faults \in 0..MaxFaults
    /\ ParentsLive

(* Mail whose sender was told it is held is never lost: until a copy is on
   disk in the store of its recipient at that time, the registry's file has
   it. It relates holdMail (707), the release once the store has synced
   (framework.ts 33668), and a failed or rolled back write of anything else. *)
AcceptedIsKept ==
    \A id \in accepted :
      \/ \E m \in disk.mail : m.id = id
      \/ \E i \in 1..onDisk : rows[i].what = "mail" /\ rows[i].id = id

(* Mail reaches a recipient once, whatever crash, failed sync, hold or end
   comes between its copy and its release (deliverHeldMail, framework.ts
   13146-13163). Mail addressed to one recipient, then another, then the
   first again is the exception: reparentAgent delivers without a look, and an
   address whose write failed counts, for a crash may bring it back. *)
LandsOnce ==
    \A i, j \in DOMAIN rows :
      rows[i] = rows[j] /\ rows[i].what = "mail" /\ i # j => moves[rows[i].id] > 2

(* A task that was live when the process died is not forgotten before its
   recipient's notice is on disk, unless it handed a result over or the boot
   found its recipient gone (settleInterrupted, 850, after the sync,
   framework.ts 13114; the end that rolled back, 12821), and its recipient is
   told of it once, however often the boot itself is cut short. *)
InterruptedIsToldOnce ==
    /\ \A r \in begun :
         Key(r) \notin closed \cup excused =>
           \/ Key(r) \in Keys(disk.records)
           \/ \E i \in 1..onDisk : rows[i].what = "notice" /\ Key(r) \in rows[i].of
           \/ \E m \in disk.mail : m.from = Key(r) /\ m.kind = "result"
           \/ \E i \in 1..onDisk : rows[i].what = "mail" /\ rows[i].from = Key(r)
    /\ \A i, j \in DOMAIN rows :
         rows[i].what = "notice" /\ rows[j].what = "notice" /\ i # j =>
           rows[i].of \cap rows[j].of = {}
=============================================================================
