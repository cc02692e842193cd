--------------------------- MODULE RecordJournal ---------------------------
(***************************************************************************)
(* A journal of typed records in the Chronicle store                       *)
(* (src/record-journal.ts): entries, and checkpoints that bound the replay *)
(* at open.  Each operator is what one synchronous call does to the        *)
(* journal and the store; who calls, and what entries mean, is a client's. *)
(*                                                                         *)
(* The store is external: it is modelled by what the journal says of it    *)
(* (record-journal.ts:12-22, 37-55).  A record's id is its place in the    *)
(* log; records of other types are left out.                               *)
(***************************************************************************)
EXTENDS Naturals, Sequences, FiniteSets

VARIABLES
    log,            \* the store's log of this journal's records
    visible,        \* how much of the log this process's index shows
    stable,         \* how much of the log is known to be on stable storage
    lastEntryId,    \* highest entry id loaded or appended
    sinceCheckpoint,
    needsReconcile, \* a write failed after the store's append returned
    needsReopen     \* the store's append itself threw

store == <<log, visible, stable>>
position == <<lastEntryId, sinceCheckpoint>>
journal == <<position, needsReconcile, needsReopen>>

EntryRecord(entry) == [type |-> "entry", payload |-> entry, through |-> 0]
CheckpointRecord(snapshot) == [type |-> "checkpoint", payload |-> snapshot, through |-> lastEntryId]

JournalInit ==
    /\ log = <<>> /\ visible = 0 /\ stable = 0
    /\ lastEntryId = 0 /\ sinceCheckpoint = 0
    /\ needsReconcile = FALSE /\ needsReopen = FALSE

IdsOf(type, n) == {i \in 1..n : log[i].type = type}

(* x is the greatest of a set of ids, 0 when there is none.                 *)
IsLatest(x, ids) == IF ids = {} THEN x = 0 ELSE x \in ids /\ \A i \in ids : i <= x

-----------------------------------------------------------------------------
(* The store.                                                               *)

(* The process ends and the store is reopened.  A killed process leaves     *)
(* every record it appended; with the machine, what was not synced may go.  *)
(* The index is rebuilt from the log.                                       *)
StoreReopens ==
    /\ \E kept \in stable..Len(log) : log' = SubSeq(log, 1, kept)
    /\ visible' = Len(log')
    /\ UNCHANGED stable

JournalOpens ==
    /\ lastEntryId' = 0 /\ sinceCheckpoint' = 0
    /\ needsReconcile' = FALSE /\ needsReopen' = FALSE

-----------------------------------------------------------------------------
(* load().                                                                  *)

(* Defect: the replay begins after the checkpoint's own record's successor. *)
TailSkipping(checkpoint) ==
    {i \in IdsOf("entry", visible) : i > (IF checkpoint = 0 THEN 1 ELSE log[checkpoint].through)}

(* The entries appended after what a checkpoint covers.                     *)
TailOf(checkpoint) ==
    {i \in IdsOf("entry", visible) : i > (IF checkpoint = 0 THEN 0 ELSE log[checkpoint].through)}

Position(checkpoint) ==
    /\ IF TailOf(checkpoint) = {}
       THEN lastEntryId' = IF checkpoint = 0 THEN 0 ELSE log[checkpoint].through
       ELSE \E last \in TailOf(checkpoint) :
                IsLatest(last, TailOf(checkpoint)) /\ lastEntryId' = last
    /\ sinceCheckpoint' = Cardinality(TailOf(checkpoint))

(* The latest checkpoint and the tail after it are read; a read that fails  *)
(* changes nothing.                                                         *)
Load(checkpoint) ==
    /\ IsLatest(checkpoint, IdsOf("checkpoint", visible))
    /\ Position(checkpoint)
    /\ needsReconcile' = FALSE
    /\ UNCHANGED <<store, needsReopen>>

-----------------------------------------------------------------------------
(* append() and checkpoint().                                               *)

(* Defect: a write is let through after an append of unknown outcome.       *)
WritableUnreconciled == ~needsReopen

Writable == ~needsReconcile /\ ~needsReopen                \* assertReconciled

(* onWritten, for the record just appended.                                 *)
Advance(record) ==
    IF record.type = "entry"
    THEN lastEntryId' = Len(log') /\ sinceCheckpoint' = sinceCheckpoint + 1
    ELSE sinceCheckpoint' = 0 /\ UNCHANGED lastEntryId

(* Defect: the barrier after a durable write is left out.                   *)
SyncsBeforeOnly(before, after) == stable' = IF before THEN Len(log) ELSE stable

(* What store.sync() before the append and after it put on stable storage.  *)
Syncs(before, after) ==
    stable' = IF after THEN Len(log') ELSE IF before THEN Len(log) ELSE stable

(* The write returns.                                                       *)
Write(record, before, durable) ==
    /\ Writable
    /\ log' = Append(log, record)
    /\ visible' = Len(log')
    /\ Syncs(before, durable)
    /\ Advance(record)
    /\ UNCHANGED <<needsReconcile, needsReopen>>

(* The store's append throws: the record may be in the log, out of sight.   *)
WriteThrows(record, before) ==
    /\ Writable
    /\ log' \in {log, Append(log, record)}
    /\ Syncs(before, FALSE)
    /\ needsReopen' = TRUE
    /\ UNCHANGED <<visible, position, needsReconcile>>

(* The append returned, then reading its id or the sync failed.             *)
WriteFails(record, before, durable) ==
    /\ Writable
    /\ log' = Append(log, record)
    /\ visible' = Len(log')
    /\ Syncs(before, FALSE)
    /\ needsReconcile' = TRUE
    /\ UNCHANGED position \/ (durable /\ Advance(record))
    /\ UNCHANGED needsReopen
=============================================================================
