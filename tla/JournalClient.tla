--------------------------- MODULE JournalClient ---------------------------
(***************************************************************************)
(* A journal with a client that keeps its contract (record-journal.ts:24-35*)
(* and 190-212): it reduces what load() returns and what it appends, and   *)
(* checkpoints its reduced state once it has loaded.  The reduction is kept*)
(* as the set of ids it covers, an entry as the version of the branch state*)
(* it asserts.                                                             *)
(***************************************************************************)
EXTENDS RecordJournal

CONSTANTS MaxState, MaxLog      \* bounds of the instance

ASSUME ClientConstants == MaxState \in Nat /\ MaxLog \in Nat

VARIABLES
    loaded,         \* whether the client has loaded since the store was opened
    reduced,        \* ids of the entries its reduced state covers
    state,          \* version of the branch state committed in the process
    synced,         \* version of it that is on stable storage
    acked           \* history: entries whose durable append returned

Asserts(version) == [asserts |-> version, covers |-> {}]
Covers(ids) == [asserts |-> 0, covers |-> ids]

client == <<loaded, reduced>>
branch == <<state, synced>>
vars == <<store, journal, client, branch, acked>>

Init ==
    /\ JournalInit
    /\ loaded = FALSE /\ reduced = {}
    /\ state = 0 /\ synced = 0
    /\ acked = {}

Loads ==
    \E c \in 0..visible :
        /\ Load(c)
        /\ loaded' = TRUE
        /\ reduced' = (IF c = 0 THEN {} ELSE log[c].payload.covers) \cup TailOf(c)
        /\ UNCHANGED <<branch, acked>>

(* Defect: the branch state is not synced.                                  *)
BarrierSkipped(syncs) == UNCHANGED synced

(* A sync of the store takes the branch state with it.                      *)
Barrier(syncs) == IF syncs THEN synced' = state ELSE UNCHANGED synced

Appends(before, durable) ==
    LET entry == EntryRecord(Asserts(IF before THEN state ELSE 0)) IN
    /\ Len(log) < MaxLog
    /\ \/ /\ Write(entry, before, durable)
          /\ Barrier(before \/ durable)
          /\ reduced' = reduced \cup {Len(log')}
          /\ acked' = IF durable THEN acked \cup {Len(log')} ELSE acked
       \/ /\ WriteThrows(entry, before) \/ WriteFails(entry, before, durable)
          /\ Barrier(before)
          /\ UNCHANGED <<reduced, acked>>
    /\ UNCHANGED <<loaded, state>>

Checkpoints(durable) ==
    LET checkpoint == CheckpointRecord(Covers(reduced)) IN
    /\ Len(log) < MaxLog
    /\ loaded
    /\ \/ Write(checkpoint, FALSE, durable) /\ Barrier(durable)
       \/ /\ WriteThrows(checkpoint, FALSE) \/ WriteFails(checkpoint, FALSE, durable)
          /\ UNCHANGED synced
    /\ UNCHANGED <<client, state, acked>>

CommitsState ==
    /\ state < MaxState
    /\ state' = state + 1
    /\ UNCHANGED <<store, journal, client, synced, acked>>

(* State commits are buffered until a sync: the process's end may lose them.*)
Reopens ==
    /\ StoreReopens
    /\ JournalOpens
    /\ loaded' = FALSE /\ reduced' = {}
    /\ state' \in synced..state
    /\ UNCHANGED <<synced, acked>>

Next ==
    \/ Loads
    \/ \E before \in BOOLEAN : \E durable \in BOOLEAN : Appends(before, durable)
    \/ \E durable \in BOOLEAN : Checkpoints(durable)
    \/ CommitsState
    \/ Reopens

Spec == Init /\ [][Next]_vars
-----------------------------------------------------------------------------
Record == [type : {"entry", "checkpoint"},
           payload : [asserts : Nat, covers : SUBSET Nat], through : Nat]

(* The log holds entries and checkpoints, in view up to a point of it.      *)
TypeOK ==
    /\ log \in Seq(Record)
    /\ visible \in 0..Len(log) /\ stable \in 0..visible
    /\ lastEntryId \in 0..visible /\ sinceCheckpoint \in Nat
    /\ needsReconcile \in BOOLEAN /\ needsReopen \in BOOLEAN
    /\ loaded \in BOOLEAN
    /\ reduced \subseteq Nat
    /\ state \in Nat /\ synced \in 0..state
    /\ acked \subseteq Nat

(* No checkpoint, in view or out of it, covers an entry its writer had not  *)
(* reduced, or leaves one to be replayed that it had (write()'s ambiguous   *)
(* failures and assertReconciled): a replay neither misses an entry nor     *)
(* runs one twice.                                                          *)
CheckpointCovers(c) ==
    /\ log[c].through < c
    /\ log[c].payload.covers = IdsOf("entry", log[c].through)
CheckpointsCoverReduced ==
    \A c \in 1..Len(log) : log[c].type = "checkpoint" => CheckpointCovers(c)

(* A client whose last write is not in doubt has reduced exactly the        *)
(* entries its process can read; at open that is every entry the store kept,*)
(* those of a failed append included (load(), needsReconcile, needsReopen). *)
LoadedIsTheLog ==
    (loaded /\ ~needsReconcile) => reduced = IdsOf("entry", visible)

(* An entry whose durable append returned is still the store's after any    *)
(* later failure, kill or power loss (append's `durable`).                  *)
DurableSurvives == acked \subseteq IdsOf("entry", Len(log))

(* No entry outlives the branch state it asserts (`afterCommittedState`).   *)
AssertedStateSurvives == \A i \in IdsOf("entry", Len(log)) : log[i].payload.asserts <= state
=============================================================================
