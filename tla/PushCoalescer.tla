---------------------------- MODULE PushCoalescer ----------------------------
(***************************************************************************)
(* What a server pushes about one subject: an occurrence takes the place   *)
(* of the ones before it that the agent has not read, a deferred one waits *)
(* outside the context until the server renders it, a retraction takes     *)
(* back what is unread (src/mcpl/push-coalescer.ts, with the host its      *)
(* constructor is given in src/framework.ts).                              *)
(*                                                                         *)
(* Subjects share nothing but a lock, so one subject is modelled, with one *)
(* agent.  Left out: the text of notices, first-view marks, the audience   *)
(* beyond that agent, suppressed batches, writes kept in memory by a       *)
(* surgery, and records that expire or are pruned.                         *)
(***************************************************************************)
EXTENDS Naturals, Sequences, FiniteSets, SequencesExt

CONSTANTS
    Event,      \* event ids the producer may send
    NoEvent,
    MaxEvents   \* bound: occurrences sent, crashes, stops, and failed writes or deliveries

PushConstants == NoEvent \notin Event /\ Event \cap {"free", "freeze", "settle"} = {}

VARIABLES
    subject,    \* SubjectState
    receipts,   \* PushCoalescer.receipts
    recent,     \* coalescingRecentReceipts
    dirty,      \* a snapshot is scheduled
    stored,     \* what the host wrote: rows, snapshot, recent receipts
    lasting,    \* what a crash may leave of it: what was synced, and all since
    lock,       \* what holds PushCoalescer.serial while it awaits a commit
    wake,       \* a wake for the batch is queued
    keeper,     \* a materializeNow is under way for a held batch
    armed,      \* the recovery's timer
    suspended, authorized,
    read,       \* rows the host counts as read
    kind,       \* what the producer sends under each id
    line,       \* history: occurrences in the order they were last tried
    answered,   \* history: acceptances acknowledged
    seen,       \* history: rows a request of the agent held
    doubted,    \* history: deliveries that threw and may have stored
    settled,    \* history: notices rendered empty, or dropped unauthorized
    told,       \* history: notices whose render was placed, or that were overtaken
    cutOff,     \* history: notices whose render a stop cut off
    missed,     \* history: an assembly joined a render and left a newer batch
    overlaid,   \* history: events whose batch older records replaced in a restart
    failures    \* bound of the instance

held == <<subject, receipts, recent, dirty>>
disk == <<stored, lasting>>
wakes == <<wake, keeper, armed>>
host == <<suspended, authorized, read, seen>>
ended == <<settled, told>>
lapses == <<cutOff, missed, overlaid>>
outside == <<kind, line, answered, doubted, ended, lapses, failures>>
vars == <<held, disk, lock, wakes, host, outside>>

Batch == [latest : Event \cup {NoEvent}, notices : SUBSET Event, noRender : BOOLEAN, mayBeStored : BOOLEAN,
          bound : BOOLEAN]                       \* bound: its deliverTo is set
NoBatch == [latest |-> NoEvent, notices |-> {}, noRender |-> FALSE, mayBeStored |-> FALSE, bound |-> FALSE]
History == {"untracked", "none", "some", "unknown"}
Untracked == [history |-> "untracked", run |-> <<>>, rendered |-> FALSE,
              batch |-> NoBatch, rendering |-> NoBatch, by |-> "turn"]
NoReceipt == [outcome |-> "none", status |-> "none", born |-> "kept"]

Sent(kinds) == Cardinality({e \in Event : kinds[e] # "unsent"})
Faulty == failures' = failures + 1 /\ Sent(kind) + failures < MaxEvents
Faultless == UNCHANGED failures

Failures == {"none", "refused", "unwritten", "thrown", "thrown but stored", "thrown in doubt"}
Fails(f) == IF f = "none" THEN Faultless ELSE Faulty

(* The events of a sequence that are in a set, in order.                    *)
Within(s, S) ==
    LET upTo[i \in 0..Len(s)] ==
            IF i = 0 THEN <<>> ELSE IF s[i] \in S THEN Append(upTo[i - 1], s[i]) ELSE upTo[i - 1]
    IN  upTo[Len(s)]
Tried(e) == line' = Append(Within(line, Event \ {e}), e)

(* The host's store passes through the given versions.                      *)
Writes(versions) ==
    /\ stored' = Last(versions)
    /\ lasting' = lasting \cup ToSet(versions)
Commits == lasting' = {stored} /\ UNCHANGED stored

Unread(e) == stored.rows[e] > 0 /\ e \notin read

(* snapshot                                                                 *)
Snapshot(s, known) ==
    [history |-> IF s.run # <<>> THEN "some" ELSE s.history,
     known |-> [e \in Event |-> known[e].outcome],
     batch |-> IF s.batch # NoBatch THEN [s.batch EXCEPT !.mayBeStored = FALSE]
               ELSE IF s.rendering # NoBatch
               THEN [s.rendering EXCEPT !.noRender = TRUE, !.mayBeStored = FALSE]
               ELSE NoBatch]

(* saveNow, flushCoalescingSnapshot: the snapshot, then no recent receipts. *)
(* Between the two, the records left there are older than what the snapshot *)
(* alone has of receipts whose record could not be written (torn: history). *)
Starts(st, s) ==
    [st EXCEPT !.snap = Snapshot(s, receipts),
               !.torn = IF st.recent = <<>> THEN {}
                        ELSE @ \cup {e \in Event : receipts[e].status = "unwritten"}]
Clears(st) == [st EXCEPT !.recent = <<>>, !.torn = {}]
Records(st, more) == [st EXCEPT !.recent = more, !.torn = {}]
SaveStarts(s) == Starts(stored, s)
Saved(s) == Clears(SaveStarts(s))
Saves(s) == Writes(<<SaveStarts(s), Saved(s)>>) /\ recent' = <<>>

(* A save that throws, before or between its two writes.                    *)
SaveThrows(s) ==
    /\ Faulty
    /\ \/ UNCHANGED <<disk, recent>>
       \/ Writes(<<SaveStarts(s)>>) /\ recent' = <<>>

-----------------------------------------------------------------------------
(* Admission.                                                               *)

(* Defect: what was read is taken for unread.                               *)
RefreshedNever == subject

(* refreshOccupant                                                          *)
Refreshed ==
    LET unread == Within(subject.run, {e \in Event : Unread(e)}) IN
    IF unread = subject.run THEN subject
    ELSE [subject EXCEPT !.history = "some", !.run = unread]

(* subjectFor                                                               *)
Tracked(s, initial) ==
    IF s.history # "untracked" THEN s
    ELSE [s EXCEPT !.history = IF initial THEN "none" ELSE "unknown"]

(* Defect: a render under way is left to land.                              *)
DropPending(s) == [s EXCEPT !.batch = NoBatch]

DropBatches(s) == [s EXCEPT !.batch = NoBatch, !.rendering = NoBatch]
HadBatch(s) == s.batch # NoBatch \/ s.rendering # NoBatch

(* removeOccupant: the n newest of the run go.                              *)
Removed(run, n) ==
    [e \in Event |-> IF \E i \in 1..Len(run) : i > Len(run) - n /\ run[i] = e
                     THEN stored.rows[e] - 1 ELSE stored.rows[e]]

(* The run a new occurrence removes, of which it removes n: the next, if    *)
(* any, the host refuses to remove.                                         *)
Leaving(s, k) == IF k = "deferred" /\ s.rendered THEN <<>> ELSE s.run

RetractEffect(s, n, blank) ==
    LET left == [DropBatches(s) EXCEPT !.run = <<>>,
                     !.history = IF n < Len(s.run) THEN "unknown" ELSE @]
    IN  [s |-> left, places |-> left.history # "none" /\ ~blank, wake |-> "withdrawn",
         outcome |-> CASE left.history = "none" -> "retracted"
                       [] left.history # "none" /\ blank -> "consumed"
                       [] OTHER -> "noted"]

PlainEffect(s, n) ==
    LET replaces == s.run # <<>> /\ n = Len(s.run)
        left == [DropBatches(s) EXCEPT !.run = IF replaces THEN @ ELSE <<>>,
                     !.history = IF n < Len(s.run) THEN "unknown" ELSE @]
    IN  [s |-> left, places |-> TRUE,
         wake |-> IF replaces \/ HadBatch(s) THEN "withdrawn" ELSE "kept",
         outcome |-> CASE replaces \/ HadBatch(s) -> "replaced"
                       [] ~replaces /\ ~HadBatch(s) /\ left.history = "none" -> "first"
                       [] OTHER -> "appended"]

DeferredEffect(e, s, n) ==
    LET displaces == s.run # <<>> /\ ~s.rendered
        left == IF ~displaces THEN s
                ELSE [s EXCEPT !.run = <<>>, !.history = IF n = 0 THEN "unknown" ELSE @]
        bound == IF s.run # <<>> THEN s.rendered \/ n = 1 ELSE s.batch.bound
    IN  [s |-> [left EXCEPT !.batch = [latest |-> e, notices |-> s.batch.notices \cup {e},
                                       noRender |-> s.batch.noRender,
                                       mayBeStored |-> FALSE, bound |-> bound]],
         places |-> FALSE, wake |-> "asked",
         outcome |-> IF s.batch # NoBatch \/ (displaces /\ n = 1) THEN "replaced" ELSE "first"]

Effect(e, s, n, blank) ==
    CASE kind'[e] = "retract" -> RetractEffect(s, n, blank)
      [] kind'[e] = "plain" -> PlainEffect(s, n)
      [] kind'[e] = "deferred" -> DeferredEffect(e, s, n)

(* wakeForBatch: a wake, or the batch is held and rendered at once.         *)
WakesForBatch == \/ wake' = TRUE /\ UNCHANGED keeper
                 \/ wake' = FALSE /\ keeper' = TRUE

Wakes(how) ==
    CASE how = "asked" -> WakesForBatch /\ UNCHANGED armed
      [] how = "withdrawn" -> wake' = FALSE /\ armed' = FALSE /\ UNCHANGED keeper
      [] how = "kept" -> armed' = FALSE /\ UNCHANGED <<wake, keeper>>

(* Defect: the record holds no batch whose render has started.              *)
RecordPending(e, s, entry) ==
    [event |-> e, outcome |-> entry.outcome, born |-> entry.born, batch |-> s.batch]

(* recordReceipt                                                            *)
Record(e, s, entry) ==
    [event |-> e, outcome |-> entry.outcome, born |-> entry.born,
     batch |-> IF s.batch # NoBatch THEN s.batch ELSE s.rendering]

(* admit: a first try of an occurrence, or one after a try that was not     *)
(* admitted.  The host may refuse to remove a row, throw at the delivery    *)
(* having stored it or not, or throw at the receipt.                        *)
Accept(e) ==
    /\ lock = "free" /\ ~suspended /\ authorized
    /\ receipts[e].status = "none"
    /\ \E k \in {"plain", "deferred", "retract"}, initial, blank \in BOOLEAN, f \in Failures :
        LET s == Tracked(Refreshed, initial /\ k # "retract")
            run == Leaving(s, k)
            n == IF f = "refused" THEN Len(run) - 1 ELSE Len(run)
            x == Effect(e, s, n, blank)
            entry == [outcome |-> x.outcome,
                      status |-> IF f = "unwritten" THEN "unwritten" ELSE "written",
                      born |-> IF subject.history = "untracked" THEN s.history ELSE "kept"]
            gone == [i \in 1..n |-> [stored EXCEPT !.rows = Removed(run, i)]]
            cleared == [stored EXCEPT !.rows = Removed(run, n)]
            stores == x.places /\ f # "thrown"
            placed == IF stores THEN [cleared EXCEPT !.rows[e] = @ + 1] ELSE cleared
            after == IF x.places THEN [x.s EXCEPT !.run = <<e>>, !.rendered = FALSE] ELSE x.s
            more == Append(recent, Record(e, after, entry))
            recorded == Records(placed, more)
        IN  /\ Fails(f)
            /\ kind[e] \in {"unsent", k} /\ kind' = [kind EXCEPT ![e] = k]
            /\ Sent(kind') + failures' <= MaxEvents
            /\ initial => line = <<>>
            /\ f = "refused" => run # <<>>
            /\ f # "thrown in doubt"     \* as "thrown but stored" or "thrown" here
            /\ f \in {"thrown", "thrown but stored"} => x.places
            /\ Tried(e)
            /\ Wakes(x.wake)
            /\ IF f \in {"thrown", "thrown but stored"}
               THEN /\ subject' = x.s
                    /\ Writes(gone \o <<placed>>)
                    /\ doubted' = IF f = "thrown" THEN doubted ELSE doubted \cup {e}
                    /\ UNCHANGED <<receipts, recent, dirty, lock>>
               ELSE /\ subject' = after
                    /\ receipts' = [receipts EXCEPT ![e] = entry]
                    /\ dirty' = TRUE
                    /\ IF f = "unwritten"
                       THEN Writes(gone \o <<placed>>) /\ UNCHANGED <<recent, lock>>
                       ELSE /\ Writes(gone \o <<placed, recorded>>)
                            /\ recent' = more /\ lock' = e
                    /\ UNCHANGED doubted
            /\ told' = IF k = "deferred" THEN told ELSE told \cup {d \in Event : kind[d] = "deferred"}
            /\ UNCHANGED <<host, answered, settled, lapses>>

(* admit, of an occurrence that has a receipt: a wake its batch may have    *)
(* lost, and the acknowledgement that failed.                               *)
AcceptAgain(e) ==
    /\ lock = "free" /\ ~suspended /\ authorized
    /\ receipts[e].status # "none"
    /\ e \notin answered \/ (subject.batch # NoBatch /\ ~wake)
    /\ IF subject.batch # NoBatch /\ subject.rendering = NoBatch
       THEN WakesForBatch /\ armed' = FALSE
       ELSE UNCHANGED wakes
    /\ \/ /\ receipts[e].status = "unwritten"
          /\ LET more == Append(recent, Record(e, subject, receipts[e]))
             IN  recent' = more /\ Writes(<<Records(stored, more)>>)
          /\ receipts' = [receipts EXCEPT ![e].status = "written"]
          /\ lock' = e /\ Faultless
       \/ receipts[e].status = "unwritten" /\ Faulty /\ UNCHANGED <<recent, disk, receipts, lock>>
       \/ /\ receipts[e].status = "written"
          /\ lock' = e /\ Faultless /\ UNCHANGED <<recent, disk, receipts>>
       \/ /\ receipts[e].status = "committed"
          /\ Faultless /\ UNCHANGED <<recent, disk, receipts, lock>>
    /\ answered' = IF receipts[e].status = "committed" THEN answered \cup {e} ELSE answered
    /\ UNCHANGED <<subject, dirty, host, kind, line, doubted, ended, lapses>>

(* acknowledge, once the commit is over.                                    *)
Acknowledges ==
    /\ lock \in Event
    /\ lock' = "free"
    /\ \/ /\ Commits /\ Faultless
          /\ receipts' = [receipts EXCEPT ![lock].status = "committed"]
          /\ answered' = answered \cup {lock}
       \/ Faulty /\ UNCHANGED <<disk, receipts, answered>>
    /\ UNCHANGED <<subject, recent, dirty, wakes, host, kind, line, doubted, ended, lapses>>

-----------------------------------------------------------------------------
(* Assembly.                                                                *)

(* freeze, where the render's start could not be made durable.              *)
FreezeFails(s) ==
    /\ subject' = [s EXCEPT !.rendering = NoBatch,
                       !.batch = [(IF s.batch # NoBatch THEN s.batch ELSE s.rendering)
                                  EXCEPT !.noRender = TRUE]]
    /\ armed' = TRUE /\ dirty' = TRUE /\ lock' = "free"

(* freeze, to its commit: for a turn's assembly, or to keep a held batch.   *)
Freeze(who) ==
    /\ lock = "free" /\ ~suspended
    /\ who = "keeper" => keeper
    /\ subject.batch # NoBatch /\ subject.rendering = NoBatch
    /\ wake' = FALSE
    /\ keeper' = IF who = "keeper" THEN FALSE ELSE keeper
    /\ LET frozen == [subject EXCEPT !.batch = NoBatch, !.rendering = subject.batch, !.by = who]
       IN  \/ /\ ~authorized /\ Faultless
              /\ subject' = DropBatches(subject)
              /\ settled' = settled \cup subject.batch.notices
              /\ dirty' = TRUE
              /\ UNCHANGED <<recent, disk, armed, lock>>
           \/ /\ authorized /\ Faultless
              /\ subject' = frozen /\ Saves(frozen)
              /\ lock' = "freeze" /\ dirty' = FALSE
              /\ UNCHANGED <<armed, settled>>
           \/ /\ authorized
              /\ SaveThrows(frozen) /\ FreezeFails(frozen)
              /\ UNCHANGED settled
    /\ UNCHANGED <<receipts, host, kind, line, answered, doubted, told, lapses>>

(* freeze, from its commit on.                                              *)
Frozen ==
    /\ lock = "freeze"
    /\ \/ /\ Commits /\ Faultless
          /\ armed' = FALSE /\ lock' = "free"
          /\ subject' = CASE suspended -> [subject EXCEPT !.batch = subject.rendering, !.rendering = NoBatch]
                          [] ~suspended /\ ~authorized -> [subject EXCEPT !.rendering = NoBatch]
                          [] OTHER -> subject
          /\ settled' = IF suspended \/ authorized THEN settled
                        ELSE settled \cup subject.rendering.notices
          /\ dirty' = (dirty \/ subject'.rendering = NoBatch)
       \/ Faulty /\ FreezeFails(subject) /\ UNCHANGED <<disk, settled>>
    /\ UNCHANGED <<receipts, recent, wake, keeper, host, kind, line, answered, doubted, told, lapses>>

(* freeze: an assembly that the wake began joins a render under way.        *)
Joins ==
    /\ lock = "free" /\ ~suspended
    /\ wake /\ subject.rendering # NoBatch /\ subject.by = "keeper"
    /\ wake' = FALSE
    /\ missed' = (missed \/ subject.batch # NoBatch)
    /\ UNCHANGED <<held, disk, lock, keeper, armed, host, kind, line, answered, doubted, ended,
                   cutOff, overlaid, failures>>

(* materializeNow finds nothing left to render.                             *)
KeeperLeaves ==
    /\ lock = "free" /\ keeper
    /\ suspended \/ (subject.batch = NoBatch /\ subject.rendering = NoBatch)
    /\ keeper' = FALSE
    /\ UNCHANGED <<held, disk, lock, wake, armed, host, outside>>

(* render, its answer that is dropped: the host stops, the authority is     *)
(* gone, or it says that nothing happened.                                  *)
RenderDropped ==
    /\ lock = "free" /\ subject.rendering # NoBatch
    /\ suspended \/ ~authorized \/ ~subject.rendering.noRender
    /\ subject' = [subject EXCEPT !.rendering = NoBatch]
    /\ armed' = IF suspended THEN armed ELSE FALSE
    /\ settled' = IF suspended THEN settled ELSE settled \cup subject.rendering.notices
    /\ cutOff' = IF suspended THEN cutOff \cup subject.rendering.notices ELSE cutOff
    /\ dirty' = TRUE
    /\ UNCHANGED <<receipts, recent, disk, lock, wake, keeper, host, kind, line, answered, doubted, told, missed,
                   overlaid, failures>>

(* render, its answer or the fallback stored: read by the turn that         *)
(* assembles, or placed where that turn does not read it.                   *)
Rendered(presented) ==
    LET b == subject.rendering
        e == b.latest
        found == b.mayBeStored /\ stored.rows[e] > 0
        follows == ~presented /\ subject.batch # NoBatch /\ ~subject.batch.bound
        run == IF subject.rendered THEN subject.run ELSE <<>>
    IN  /\ lock = "free" /\ b # NoBatch /\ ~suspended /\ authorized
        /\ Writes(<<IF found THEN stored ELSE [stored EXCEPT !.rows[e] = @ + 1]>>)
        /\ subject' = [subject EXCEPT
               !.rendering = NoBatch,
               !.history = IF presented THEN "some" ELSE @,
               !.run = IF presented THEN <<>> ELSE Append(run, e),
               !.rendered = ~presented,
               !.batch.bound = @ \/ follows]
        /\ armed' = FALSE /\ dirty' = TRUE
        /\ IF follows THEN WakesForBatch ELSE UNCHANGED <<wake, keeper>>
        /\ told' = told \cup b.notices
        /\ UNCHANGED <<receipts, recent, lock, host, kind, line, answered, doubted, settled, lapses,
                       failures>>

(* render, its delivery that throws: the batch goes to its recovery, which  *)
(* delivers the fallback.                                                   *)
Recovering(f) ==
    [subject EXCEPT !.batch =
        IF @ # NoBatch THEN [@ EXCEPT !.noRender = TRUE]
        ELSE [subject.rendering EXCEPT !.noRender = TRUE, !.mayBeStored = @ \/ f # "thrown"]]

Landed(f) ==
    IF f = "thrown but stored" THEN [stored EXCEPT !.rows[subject.rendering.latest] = @ + 1] ELSE stored

DeliveryThrows(f) ==
    LET b == subject.rendering
    IN  /\ lock = "free" /\ b # NoBatch /\ ~suspended /\ authorized
        /\ f \in {"thrown", "thrown but stored", "thrown in doubt"}
        /\ f = "thrown but stored" => ~(b.mayBeStored /\ stored.rows[b.latest] > 0)
        /\ doubted' = IF f = "thrown but stored" THEN doubted \cup {b.latest} ELSE doubted
        /\ told' = IF f = "thrown but stored" \/ subject.batch # NoBatch THEN told \cup b.notices ELSE told
        /\ UNCHANGED <<receipts, wake, keeper, host, kind, line, answered, settled, lapses>>

(* Its recovery is saved at once.                                           *)
RenderThrows(f) ==
    LET start == Starts(Landed(f), Recovering(f))
    IN  /\ DeliveryThrows(f) /\ Faulty
        /\ subject' = Recovering(f)
        /\ Writes(<<Landed(f), start, Clears(start)>>)
        /\ recent' = <<>> /\ dirty' = FALSE /\ lock' = "settle" /\ UNCHANGED armed

(* That save throws too, before or between its two writes: the next is      *)
(* scheduled, and no commit is waited for.                                  *)
RenderUnsaved(f) ==
    /\ DeliveryThrows(f)
    /\ failures' = failures + 2 /\ Sent(kind) + failures + 1 < MaxEvents
    /\ subject' = [Recovering(f) EXCEPT !.rendering = NoBatch]
    /\ \/ Writes(<<Landed(f)>>) /\ UNCHANGED recent
       \/ Writes(<<Landed(f), Starts(Landed(f), Recovering(f))>>) /\ recent' = <<>>
    /\ dirty' = TRUE /\ armed' = TRUE /\ UNCHANGED lock

(* render, once that save is committed, or not.                             *)
RenderEnds ==
    /\ lock = "settle"
    /\ lock' = "free" /\ armed' = TRUE /\ dirty' = TRUE
    /\ subject' = [subject EXCEPT !.rendering = NoBatch]
    /\ \/ Commits /\ Faultless
       \/ UNCHANGED disk /\ Faulty
    /\ UNCHANGED <<receipts, recent, wake, keeper, host, kind, line, answered, doubted, ended, lapses>>

(* The timer of scheduleRecovery.                                           *)
RecoveryFires ==
    /\ armed /\ armed' = FALSE
    /\ IF ~suspended /\ subject.batch # NoBatch /\ subject.rendering = NoBatch /\ authorized
       THEN WakesForBatch
       ELSE UNCHANGED <<wake, keeper>>
    /\ UNCHANGED <<held, disk, lock, host, outside>>

-----------------------------------------------------------------------------
(* The host.                                                                *)

(* flushCoalescingSnapshot                                                  *)
Flush ==
    /\ dirty
    /\ \/ Saves(subject) /\ dirty' = FALSE /\ Faultless
       \/ SaveThrows(subject) /\ UNCHANGED dirty
    /\ UNCHANGED <<subject, receipts, lock, wakes, host, kind, line, answered, doubted, ended, lapses>>

(* stop(): suspend, and a flush of what is scheduled.                       *)
Suspend ==
    /\ ~suspended /\ Faulty
    /\ suspended' = TRUE /\ armed' = FALSE
    /\ IF dirty THEN Saves(subject) ELSE UNCHANGED <<disk, recent>>
    /\ dirty' = FALSE
    /\ UNCHANGED <<subject, receipts, lock, wake, keeper, authorized, read, seen, kind, line,
                   answered, doubted, ended, lapses>>

(* The server loses the authority it was admitted under.                    *)
Revoke ==
    /\ authorized /\ subject.history # "untracked" /\ Faulty
    /\ authorized' = FALSE
    /\ UNCHANGED <<held, disk, lock, wakes, suspended, read, seen, kind, line, answered, doubted,
                   ended, lapses>>

(* A request of the agent holds the rows that are in its context.           *)
Reads ==
    LET rows == {e \in Event : stored.rows[e] > 0} IN
    /\ rows \ seen # {}
    /\ read' = read \cup rows /\ seen' = seen \cup rows
    /\ UNCHANGED <<held, disk, lock, wakes, suspended, authorized, outside>>

(* settlePublished                                                          *)
SettlePublished(s, rows) ==
    IF s.batch.noRender /\ rows[s.batch.latest] > 0
    THEN [s EXCEPT !.batch = NoBatch, !.history = "some"]
    ELSE s

(* restoreReceipts, of one record.                                          *)
RestoreRecord(s, r, rows) ==
    [s EXCEPT
        !.history = IF rows[r.event] > 0 THEN "some"
                    ELSE IF @ = "untracked" THEN IF r.born # "kept" THEN r.born ELSE "unknown"
                    ELSE @,
        !.batch = IF r.batch = NoBatch THEN NoBatch
                  ELSE [r.batch EXCEPT !.noRender = TRUE, !.mayBeStored = FALSE]]

(* restore, restoreReceipts                                                 *)
Restored(st) ==
    LET snapped == [Untracked EXCEPT !.history = st.snap.history, !.batch = st.snap.batch]
        replayed[i \in 0..Len(st.recent)] ==
            IF i = 0 THEN SettlePublished(snapped, st.rows)
            ELSE RestoreRecord(replayed[i - 1], st.recent[i], st.rows)
    IN  SettlePublished(replayed[Len(st.recent)], st.rows)

Known(st, e) == st.snap.known[e] # "none" \/ \E i \in DOMAIN st.recent : st.recent[i].event = e
OutcomeOf(st, e) ==
    LET of == {i \in DOMAIN st.recent : st.recent[i].event = e}
    IN  IF of = {} THEN st.snap.known[e]
        ELSE st.recent[CHOOSE i \in of : \A j \in of : j <= i].outcome

(* The process ends, and the next one restores what the store kept.         *)
Restarts ==
    \E st \in lasting \cup {stored} :
        /\ suspended \/ Faulty
        /\ suspended => Faultless
        /\ stored' = st /\ lasting' = {st}
        /\ subject' = Restored(st)
        /\ receipts' = [e \in Event |-> IF Known(st, e)
                          THEN [outcome |-> OutcomeOf(st, e), status |-> "committed", born |-> "kept"]
                          ELSE NoReceipt]
        /\ recent' = st.recent /\ dirty' = FALSE /\ lock' = "free"
        /\ wake' = (subject'.batch # NoBatch) /\ keeper' = FALSE /\ armed' = FALSE
        /\ suspended' = FALSE
        /\ read' = {e \in Event : st.rows[e] > 0}
        /\ seen' = {e \in seen : st.rows[e] > 0}
        /\ overlaid' = overlaid \cup st.torn
        /\ doubted' = doubted \cup {e \in Event : st.rows[e] > 0
                                              /\ (Known(st, e) => subject'.history = "none")}
        /\ UNCHANGED <<authorized, kind, line, answered, ended, cutOff, missed>>

-----------------------------------------------------------------------------
Init ==
    /\ subject = Untracked
    /\ receipts = [e \in Event |-> NoReceipt]
    /\ recent = <<>> /\ dirty = FALSE
    /\ stored = [rows |-> [e \in Event |-> 0], recent |-> <<>>, torn |-> {},
                snap |-> [history |-> "untracked", known |-> [e \in Event |-> "none"],
                          batch |-> NoBatch]]
    /\ lasting = {stored} /\ lock = "free"
    /\ wake = FALSE /\ keeper = FALSE /\ armed = FALSE
    /\ suspended = FALSE /\ authorized = TRUE /\ read = {} /\ seen = {}
    /\ kind = [e \in Event |-> "unsent"]
    /\ line = <<>> /\ answered = {} /\ doubted = {} /\ settled = {} /\ told = {} /\ cutOff = {}
    /\ missed = FALSE /\ overlaid = {} /\ failures = 0

Next ==
    \/ \E e \in Event : Accept(e) \/ AcceptAgain(e)
    \/ Acknowledges
    \/ \E who \in {"turn", "keeper"} : Freeze(who)
    \/ Frozen \/ Joins \/ KeeperLeaves
    \/ RenderDropped \/ \E presented \in BOOLEAN : Rendered(presented)
    \/ \E f \in Failures : RenderThrows(f) \/ RenderUnsaved(f)
    \/ RenderEnds \/ RecoveryFires
    \/ Flush \/ Suspend \/ Revoke \/ Reads \/ Restarts

Spec == Init /\ [][Next]_vars

-----------------------------------------------------------------------------
(* Properties.                                                              *)

Outcome == {"none", "first", "replaced", "appended", "retracted", "noted", "consumed"}

TypeOK ==
    /\ subject \in [history : History, run : Seq(Event), rendered : BOOLEAN,
                    batch : Batch, rendering : Batch, by : {"turn", "keeper"}]
    /\ \A e \in Event : receipts[e].outcome \in Outcome
    /\ lock \in Event \cup {"free", "freeze", "settle"}
    /\ {wake, keeper, armed, suspended, authorized, dirty} \subseteq BOOLEAN
    /\ stored \in lasting
    /\ \A i \in DOMAIN subject.run : subject.run[i] \in answered \cup ToSet(line)

Overtakes(e, later) ==
    /\ kind[later] # "deferred" /\ receipts[later].status # "none"
    /\ \E i, j \in DOMAIN line : i < j /\ line[i] = e /\ line[j] = later

(* Acknowledged and nothing tried since: in the context, in the batch, or   *)
(* rendering, before and after any crash.                                   *)
Keeps(e) ==
    \/ e \notin answered \/ line = <<>> \/ Last(line) # e
    \/ kind[e] = "retract" /\ receipts[e].outcome # "noted" /\ receipts[e].status # "none"
    \/ stored.rows[e] > 0
    \/ e \in {subject.batch.latest, subject.rendering.latest}
    \/ e \in settled
(* A notice accepted and acknowledged is in a batch, or rendering, until a  *)
(* render that stands for it is placed.                                     *)
NoticesSurvive ==
    \A e \in answered : kind[e] = "deferred" =>
        e \in subject.batch.notices \cup subject.rendering.notices \cup settled \cup told \cup cutOff

(* A delivery stores an occurrence that is not stored yet, and that no      *)
(* admitted plain occurrence or retraction came after.                      *)
StoresOnlyTheCurrent ==
    [][\A e \in Event : stored'.rows[e] > stored.rows[e] /\ stored' \notin lasting =>
           /\ stored.rows[e] = 0 \/ (kind[e] # "deferred" /\ e \in doubted)
           /\ \A later \in Event \ overlaid : ~Overtakes(e, later)']_vars

(* "first", of a plain occurrence, and "retracted" say that the agent held  *)
(* no occurrence of the subject; "retracted", that it never will.           *)
UnseenIsUnseen ==
    [][\A e \in Event :
         receipts'[e].outcome # receipts[e].outcome /\ receipts'[e].status # "committed" =>
           /\ receipts'[e].outcome = "retracted" \/ (receipts'[e].outcome = "first" /\ kind'[e] = "plain")
              => seen \subseteq doubted
           /\ receipts'[e].outcome = "retracted"
              => \A o \in Event \ doubted : stored'.rows[o] = 0]_vars

(* A batch is on its way to the agent, or will be when a timer fires.       *)
BatchAwaits ==
    lock = "free" /\ ~suspended /\ authorized /\ subject.batch # NoBatch =>
        wake \/ keeper \/ armed \/ subject.rendering # NoBatch
BatchAwaitsUnjoined == missed \/ BatchAwaits

(* An acceptance is kept, and the batch that holds it reaches the agent.    *)
KeepsAccepted == (\A e \in Event : Keeps(e) \/ e \in cutOff \cup overlaid) /\ BatchAwaitsUnjoined

(* The same with a save that a crash cut in two.                            *)
AcceptedIsOnDisk == \A e \in Event : Keeps(e) \/ e \in cutOff
=============================================================================
