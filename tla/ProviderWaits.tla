--------------------------- MODULE ProviderWaits ---------------------------
(***************************************************************************)
(* A provider's stated waits, kept as deadlines that outlive the process   *)
(* (src/provider-waits.ts).  What binds here is the journal's reduction    *)
(* with this process's unrecorded acts applied after it; acts are recorded *)
(* in order, each durable before the next; records that cannot be read     *)
(* hold everything.                                                        *)
(*                                                                         *)
(* A call runs without interruption, but the process may end between any   *)
(* two records it writes: a call is a step that decides, then the steps of *)
(* its flush.                                                              *)
(***************************************************************************)
EXTENDS RecordJournal, SequencesExt

CONSTANTS
    Agent, Model,
    EveryModel,         \* EVERY_MODEL, as a release's scope
    Stated,             \* retry-after values: a negative one is 0, one that is no
                        \* number or unusable is past any instant
    LastInstant,        \* MAX_DATE_MS
    CheckpointEvery,    \* CHECKPOINT_EVERY
    MaxLog              \* bound of the instance: records written

WaitsConstants ==
    /\ EveryModel \notin Model
    /\ Stated \subseteq Nat /\ LastInstant \in Nat
    /\ CheckpointEvery \in Nat \ {0} /\ MaxLog \in Nat

VARIABLES
    now,
    durable,    \* the reduction of what the journal holds
    pending,    \* this process's acts not known to be recorded
    view,       \* what binds in this process
    unreadable, \* the recorded waits cannot be read
    waived,     \* releases made meanwhile
    phase       \* where the call under way stands

process == <<durable, pending, view, unreadable, waived>>
vars == <<store, journal, now, process, phase>>

Key == Agent \X Model
Forever == LastInstant + 1      \* null: longer than any instant
NoWaits == [k \in Key |-> 0]
Act == [kind : {"set", "released"}, agent : Agent, model : Model \cup {EveryModel},
        until : 0..Forever]

Live(waits, t) == [k \in Key |-> IF waits[k] > t THEN waits[k] ELSE 0]

(* Defect: an instant past the last one is kept.                            *)
DeadlineUnbounded(retryAfter, t) == t + retryAfter

WaitDeadline(retryAfter, t) ==
    IF t + retryAfter > LastInstant THEN Forever ELSE t + retryAfter

Names(act, k) == act.agent = k[1] /\ act.model \in {k[2], EveryModel}

(* reduce: a set binds if it outlasts what does, a release lifts what it    *)
(* names.                                                                   *)
Reduce(waits, act) ==
    [k \in Key |-> IF ~Names(act, k) THEN waits[k]
                   ELSE IF act.kind = "released" THEN 0
                   ELSE IF act.until > waits[k] THEN act.until ELSE waits[k]]
ReduceAll(waits, acts) ==
    LET upTo[i \in 0..Len(acts)] == IF i = 0 THEN waits ELSE Reduce(upTo[i - 1], acts[i])
    IN  upTo[Len(acts)]

(* The acts of the log from a record to another.                            *)
ActsIn(first, last) ==
    LET upTo[i \in (first - 1)..last] ==
            IF i = first - 1 THEN <<>>
            ELSE IF log[i].type = "entry" THEN Append(upTo[i - 1], log[i].payload)
            ELSE upTo[i - 1]
    IN  upTo[last]

(* What a checkpoint and the entries after what it covers come to.          *)
ReplayFrom(checkpoint, n) ==
    LET covered == IF checkpoint = 0 THEN 0 ELSE log[checkpoint].through
        upTo[i \in covered..n] ==
            IF i = covered THEN (IF checkpoint = 0 THEN NoWaits ELSE log[checkpoint].payload)
            ELSE IF log[i].type = "entry" THEN Reduce(upTo[i - 1], log[i].payload)
            ELSE upTo[i - 1]
    IN  upTo[n]

(* What the first n records of the log come to.                             *)
Replay(n) == ReplayFrom(CHOOSE c \in 0..n : IsLatest(c, IdsOf("checkpoint", n)), n)

-----------------------------------------------------------------------------
(* Reading the journal (load).                                              *)

(* Defect: what this process has not recorded is forgotten.                 *)
RebuiltFrom(waits) == waits

Rebuilt(waits) == ReduceAll(waits, pending)             \* rebuildView

Reads ==
    /\ \E c \in 0..visible : Load(c)
    /\ durable' = Replay(visible)
    /\ view' = Rebuilt(durable')
    /\ unreadable' = FALSE /\ waived' = {}
    /\ UNCHANGED pending

(* The journal cannot be read, or holds a record that is not provider waits.*)
CannotRead ==
    /\ UNCHANGED <<store, journal>> \/ \E c \in 0..visible : Load(c)
    /\ unreadable' = TRUE
    /\ UNCHANGED <<durable, view, pending, waived>>

Waived(a, target) == <<a, EveryModel>> \in waived \/ <<a, target>> \in waived

Init ==
    /\ JournalInit
    /\ now = 0
    /\ durable = NoWaits /\ pending = <<>> /\ view = NoWaits
    /\ unreadable = FALSE /\ waived = {}
    /\ phase = "opening"

Opens ==
    /\ phase = "opening"
    /\ Reads \/ CannotRead
    /\ phase' = "idle"
    /\ UNCHANGED now

(* retry(), when the recorded waits were not readable.                      *)
ReadsAgain ==
    /\ phase = "idle" /\ unreadable
    /\ Reads \/ CannotRead
    /\ UNCHANGED <<now, phase>>

-----------------------------------------------------------------------------
(* set() and release() up to their flush.                                   *)

(* reconcile(), the first thing either does.                                *)
Reconciles ==
    /\ phase = "idle" /\ needsReconcile
    /\ Reads \/ CannotRead
    /\ phase' = "acting"
    /\ UNCHANGED now

Decides ==
    /\ phase = "acting" \/ (phase = "idle" /\ ~needsReconcile)
    /\ phase' = "flushing"
    /\ UNCHANGED <<store, journal, now, durable, unreadable>>

(* apply(): the act binds ahead of its record.                              *)
Apply(act) ==
    /\ Len(log) + Len(pending) < MaxLog
    /\ pending' = Append(pending, act)
    /\ view' = Reduce(view, act)

Set(a, m, retryAfter) ==
    LET k == <<a, m>>
        until == WaitDeadline(retryAfter, now)
        binding == IF view[k] > now THEN view[k] ELSE now
    IN  /\ Decides
        /\ IF until > binding
           THEN Apply([kind |-> "set", agent |-> a, model |-> m, until |-> until])
           ELSE UNCHANGED <<pending, view>>
        /\ UNCHANGED waived

Release(a, target) ==
    LET act == [kind |-> "released", agent |-> a, model |-> target, until |-> 0]
        lifts == \E k \in Key : Names(act, k) /\ view[k] > now
        override == unreadable /\ ~Waived(a, target)
    IN  /\ Decides
        /\ waived' = IF override THEN waived \cup {<<a, target>>} ELSE waived
        /\ IF lifts \/ override THEN Apply(act) ELSE UNCHANGED <<pending, view>>

(* retry(), while acts are not recorded.                                    *)
OffersAgain ==
    /\ pending # <<>>
    /\ Decides
    /\ UNCHANGED <<pending, view, waived>>

-----------------------------------------------------------------------------
(* flush().                                                                 *)

FlushOver == phase' = "idle"
FlushGoesOn == UNCHANGED phase

FlushReconciles ==
    /\ phase = "flushing" /\ pending # <<>> /\ needsReconcile
    /\ \/ Reads /\ FlushGoesOn
       \/ CannotRead /\ FlushOver
    /\ UNCHANGED now

FlushAppends ==
    /\ phase = "flushing" /\ pending # <<>>
    /\ Len(log) < MaxLog
    /\ LET entry == EntryRecord(Head(pending))
       IN  \/ /\ Write(entry, FALSE, TRUE)
              /\ pending' = Tail(pending)
              /\ durable' = Reduce(durable, Head(pending))
              /\ FlushGoesOn
           \/ /\ WriteThrows(entry, FALSE) \/ WriteFails(entry, FALSE, TRUE)
              /\ FlushOver
              /\ UNCHANGED <<pending, durable>>
    /\ UNCHANGED <<now, view, unreadable, waived>>

(* Defect: a checkpoint is written over records not read.                   *)
CheckpointsDueBlind == ~needsReopen /\ sinceCheckpoint >= CheckpointEvery

CheckpointsDue == ~unreadable /\ ~needsReopen /\ sinceCheckpoint >= CheckpointEvery

FlushCheckpoints ==
    /\ phase = "flushing" /\ pending = <<>> /\ CheckpointsDue
    /\ Len(log) < MaxLog
    /\ LET checkpoint == CheckpointRecord(Live(durable, now))
       IN  Write(checkpoint, FALSE, TRUE) \/ WriteThrows(checkpoint, FALSE)
           \/ WriteFails(checkpoint, FALSE, TRUE)
    /\ FlushOver
    /\ UNCHANGED <<now, process>>

FlushStops ==
    /\ phase = "flushing"
    /\ IF pending = <<>> THEN ~CheckpointsDue \/ ~Writable
       ELSE ~needsReconcile /\ needsReopen
    /\ FlushOver
    /\ UNCHANGED <<store, journal, now, process>>

-----------------------------------------------------------------------------
Tick ==
    /\ now < LastInstant
    /\ now' = now + 1
    /\ UNCHANGED <<store, journal, process, phase>>

(* The process ends at any point, and the next one opens the store.         *)
Restarts ==
    /\ StoreReopens
    /\ JournalOpens
    /\ durable' = NoWaits /\ pending' = <<>> /\ view' = NoWaits
    /\ unreadable' = FALSE /\ waived' = {}
    /\ phase' = "opening"
    /\ UNCHANGED now

Next ==
    \/ Opens \/ ReadsAgain \/ Reconciles
    \/ \E a \in Agent, m \in Model, d \in Stated : Set(a, m, d)
    \/ \E a \in Agent, target \in Model \cup {EveryModel} : Release(a, target)
    \/ OffersAgain
    \/ FlushReconciles \/ FlushAppends \/ FlushCheckpoints \/ FlushStops
    \/ Tick \/ Restarts

Spec == Init /\ [][Next]_vars
-----------------------------------------------------------------------------
(* Maps hold deadlines, the acts a process has not recorded are acts.       *)
TypeOK ==
    /\ now \in 0..LastInstant
    /\ durable \in [Key -> 0..Forever] /\ view \in [Key -> 0..Forever]
    /\ pending \in Seq(Act)
    /\ unreadable \in BOOLEAN
    /\ waived \subseteq Agent \X (Model \cup {EveryModel})
    /\ phase \in {"opening", "idle", "acting", "flushing"}
    /\ \A i \in 1..Len(log) :
         IF log[i].type = "entry" THEN log[i].payload \in Act
         ELSE log[i].payload \in [Key -> 0..Forever] /\ log[i].through < i

(* What binds is what the log holds with this process's unrecorded acts     *)
(* after it, though a record whose write was in doubt may be there twice    *)
(* and a checkpoint drops waits that are over (rebuildView, apply, flush).  *)
BindsTheHistory ==
    (phase # "opening" /\ ~unreadable) =>
        Live(view, now) = Live(ReduceAll(Replay(visible), pending), now)

(* The acts of this process or an earlier one that a power loss may still   *)
(* take, each once however often it was offered in a row.                   *)
Once(acts) ==
    LET upTo[i \in 0..Len(acts)] ==
            IF i = 0 THEN <<>>
            ELSE IF i > 1 /\ acts[i - 1] = acts[i] THEN upTo[i - 1]
            ELSE Append(upTo[i - 1], acts[i])
    IN  upTo[Len(acts)]
Tentative == Once(ActsIn(stable + 1, Len(log)) \o pending)

(* The journal keeps the promise of StatedWaits: recorded acts are kept in  *)
(* order across restarts, at most the last ones are lost, and a deadline    *)
(* falls only by its passing or a release.                                  *)
Promise == INSTANCE StatedWaits
    WITH kept <- Live(Replay(stable), now), tentative <- Tentative
ImplementsStatedWaits == Promise!Spec
=============================================================================
