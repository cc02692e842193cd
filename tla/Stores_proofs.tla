--------------------------- MODULE Stores_proofs ---------------------------
(***************************************************************************)
(* The three parts of MCStores.                                            *)
(*                                                                         *)
(* The journal and its client, for any number of records, failures and     *)
(* reopens; its theorems are of JournalClient's own specification.  The    *)
(* invariant is JournalInv.                                                *)
(*                                                                         *)
(* The agent registry of MCStores, proved for any residents and tasks and  *)
(* any number of mails, requests, crashes and failed writes: mail that was *)
(* accepted is kept, mail lands once, and a task that was interrupted is   *)
(* told of once.                                                           *)
(*                                                                         *)
(* The invariant is RegistryInv.  Base: types; no record is numbered past  *)
(* its name's counter (Numbered); an incarnation is live, pending or ended *)
(* once, and what the ended log has, the process knows (Placed).  Mailed:  *)
(* the file covers the mail in memory.  KeptLive, Counted and Landing:     *)
(* where two copies of a mail may be, and how often it was addressed by    *)
(* then.  Safe: accepted mail is in memory and on file, or on disk in a    *)
(* store.  Noticed: whom a notice names works for its recipient or has     *)
(* ended.  Followed: where each task that began is known of.               *)
(*                                                                         *)
(* Written, RolledBack and Recorded of the module are instances of one     *)
(* relation of files and memory, Does, that every request satisfies.       *)
(*                                                                         *)
(* A subject's pushes, for any events and any number of pushes, failures,  *)
(* stops and crashes: what was accepted is kept.  The invariant is PushInv.*)
(* PushStores: whatever a crash may leave tells the truth of the receipts, *)
(* has those that are committed, and keeps the newest event it has a       *)
(* record of; what the host wrote has those that are written as well.      *)
(* Recents: the records the host will write again are those on its disk.   *)
(* Held: the newest event admitted is where Keeps says.  Stages and        *)
(* Awaiting: where a render stands at its commits, and what will reach a   *)
(* batch.                                                                  *)
(***************************************************************************)
EXTENDS MCStores, FiniteSetTheorems, WellFoundedInduction, TLAPS

-----------------------------------------------------------------------------
(* The journal.                                                             *)

(* While the store's append has never thrown, the process sees the log.     *)
InView == ~needsReopen => visible = Len(log)

(* A journal that may write has its position past every entry.              *)
Positioned ==
    (loaded /\ Writable) => \A i \in IdsOf("entry", visible) : i <= lastEntryId

(* What the steps preserve together.                                        *)
JournalInv ==
    /\ TypeOK
    /\ InView
    /\ Positioned
    /\ CheckpointsCoverReduced
    /\ LoadedIsTheLog

-----------------------------------------------------------------------------
(* The log.                                                                 *)

LEMMA Appended ==
    ASSUME NEW L \in Seq(Record), NEW r \in Record
    PROVE  /\ Append(L, r) \in Seq(Record)
           /\ Len(Append(L, r)) = Len(L) + 1
           /\ \A i \in 1..Len(L) : Append(L, r)[i] = L[i]
           /\ Append(L, r)[Len(L) + 1] = r
OBVIOUS

LEMMA Kept ==
    ASSUME NEW L \in Seq(Record), NEW n \in 0..Len(L)
    PROVE  /\ SubSeq(L, 1, n) \in Seq(Record)
           /\ Len(SubSeq(L, 1, n)) = n
           /\ \A i \in 1..n : SubSeq(L, 1, n)[i] = L[i]
OBVIOUS

LEMMA RecordAt ==
    ASSUME NEW L \in Seq(Record), NEW i \in 1..Len(L)
    PROVE  L[i] \in Record /\ L[i].through \in Nat
<1>1. L[i] \in Record
  OBVIOUS
<1> QED  BY <1>1 DEF Record

(* What the log shows up to n stays when it is appended to or cut after n.  *)
LEMMA SamePrefix ==
    ASSUME NEW n \in Nat, NEW type, \A i \in 1..n : log'[i] = log[i]
    PROVE  \A m \in 0..n : IdsOf(type, m)' = IdsOf(type, m)
BY DEF IdsOf

LEMMA TailIsFinite ==
    ASSUME TypeOK, NEW c \in Nat
    PROVE  Cardinality(TailOf(c)) \in Nat
<1>1. visible \in Nat
  BY DEF TypeOK
<1>2. IsFiniteSet(1..visible)
  BY <1>1, FS_Interval
<1>3. IsFiniteSet(TailOf(c))
  BY <1>2, FS_Subset DEF TailOf, IdsOf
<1> QED  BY <1>3, FS_CardinalityType

LEMMA RecordsTyped ==
    ASSUME TypeOK
    PROVE  /\ \A b \in BOOLEAN : EntryRecord(Asserts(IF b THEN state ELSE 0)) \in Record
           /\ CheckpointRecord(Covers(reduced)) \in Record
BY DEF TypeOK, EntryRecord, Asserts, CheckpointRecord, Covers, Record

-----------------------------------------------------------------------------
(* Writes.                                                                  *)

(* Every way a write can go leaves the log as it was, or one record longer. *)
LogGrows(record) == log' = log \/ log' = Append(log, record)

LEMMA WriteTypes ==
    ASSUME TypeOK, InView, NEW record \in Record, NEW before \in BOOLEAN, NEW durable \in BOOLEAN,
           \/ Write(record, before, durable)
           \/ WriteThrows(record, before)
           \/ WriteFails(record, before, durable)
    PROVE  /\ LogGrows(record)
           /\ log' \in Seq(Record)
           /\ visible' \in 0..Len(log') /\ stable' \in 0..visible'
           /\ lastEntryId' \in 0..visible' /\ sinceCheckpoint' \in Nat
           /\ needsReconcile' \in BOOLEAN /\ needsReopen' \in BOOLEAN
           /\ InView'
<1>1. visible = Len(log)
  BY DEF InView, Write, WriteThrows, WriteFails, Writable
<1>2. CASE Write(record, before, durable)
  BY <1>1, <1>2, Appended DEF TypeOK, InView, Write, Writable, Advance, Syncs, LogGrows
<1>3. CASE WriteThrows(record, before)
  BY <1>1, <1>3, Appended DEF TypeOK, InView, WriteThrows, Writable, Syncs, LogGrows, position
<1>4. CASE WriteFails(record, before, durable)
  BY <1>1, <1>4, Appended DEF TypeOK, InView, WriteFails, Writable, Advance, Syncs, LogGrows, position
<1> QED  BY <1>2, <1>3, <1>4

(* A longer log keeps the checkpoints it has; the one it gains covers what  *)
(* its writer reduced.                                                      *)
LEMMA CoversAfterWrite ==
    ASSUME JournalInv, NEW record \in Record, LogGrows(record),
           record.type = "checkpoint" =>
              /\ record.through = lastEntryId
              /\ record.payload.covers = reduced
              /\ loaded /\ Writable
    PROVE  CheckpointsCoverReduced'
<1>1. log \in Seq(Record)
  BY DEF JournalInv, TypeOK
<1>2. CASE log' = log
  BY <1>2 DEF JournalInv, CheckpointsCoverReduced, CheckpointCovers, IdsOf
<1>3. CASE log' = Append(log, record)
  <2> SUFFICES ASSUME NEW c \in 1..Len(log'), log'[c].type = "checkpoint"
               PROVE  CheckpointCovers(c)'
    BY DEF CheckpointsCoverReduced
  <2>1. \A i \in 1..Len(log) : log'[i] = log[i]
    BY <1>1, <1>3, Appended
  <2>2. \A m \in 0..Len(log) : IdsOf("entry", m)' = IdsOf("entry", m)
    BY <1>1, <2>1, SamePrefix
  <2>3. CASE c \in 1..Len(log)
    <3>1. log'[c] = log[c] /\ CheckpointCovers(c)
      BY <2>1, <2>3 DEF JournalInv, CheckpointsCoverReduced
    <3>2. log[c].through \in 0..Len(log)
      BY <1>1, <2>3, <3>1, RecordAt DEF CheckpointCovers
    <3> QED  BY <2>2, <3>1, <3>2 DEF CheckpointCovers
  <2>4. CASE c \notin 1..Len(log)
    <3>1. c = Len(log) + 1 /\ log'[c] = record
      BY <1>1, <1>3, <2>4, Appended
    <3>2. visible = Len(log) /\ lastEntryId \in 0..Len(log)
      BY <3>1 DEF JournalInv, InView, Writable, TypeOK
    <3>3. reduced = IdsOf("entry", visible) /\ \A i \in IdsOf("entry", visible) : i <= lastEntryId
      BY <3>1 DEF JournalInv, LoadedIsTheLog, Positioned, Writable
    <3>4. reduced = IdsOf("entry", lastEntryId)
      BY <1>1, <3>2, <3>3 DEF IdsOf
    <3> QED  BY <2>2, <3>1, <3>2, <3>4 DEF CheckpointCovers
  <2> QED  BY <2>3, <2>4
<1> QED  BY <1>2, <1>3 DEF LogGrows

-----------------------------------------------------------------------------
LEMMA LoadsKeeps ==
    ASSUME JournalInv, Loads
    PROVE  JournalInv'
<1>1. PICK c \in 0..visible :
        /\ Load(c)
        /\ loaded' = TRUE
        /\ reduced' = (IF c = 0 THEN {} ELSE log[c].payload.covers) \cup TailOf(c)
        /\ UNCHANGED <<branch, acked>>
  BY DEF Loads
<1> DEFINE through == IF c = 0 THEN 0 ELSE log[c].through
<1>2. UNCHANGED <<log, visible, stable, needsReopen, state, synced, acked>> /\ needsReconcile' = FALSE
  BY <1>1 DEF Load, store, branch
<1>3. c # 0 => c \in 1..Len(log) /\ log[c].type = "checkpoint"
  BY <1>1 DEF Load, IsLatest, IdsOf, JournalInv, TypeOK
<1>4. through \in 0..visible
  BY <1>3, RecordAt DEF JournalInv, TypeOK, CheckpointsCoverReduced, CheckpointCovers
<1>5. (IF c = 0 THEN {} ELSE log[c].payload.covers) = IdsOf("entry", through)
  BY <1>3 DEF JournalInv, CheckpointsCoverReduced, CheckpointCovers, IdsOf
<1>6. TailOf(c) = {i \in IdsOf("entry", visible) : i > through}
  BY DEF TailOf
<1>7. reduced' = IdsOf("entry", visible)
  BY <1>1, <1>4, <1>5, <1>6 DEF IdsOf, JournalInv, TypeOK
<1>8. lastEntryId' \in 0..visible /\ \A i \in IdsOf("entry", visible) : i <= lastEntryId'
  <2>1. CASE TailOf(c) = {}
    BY <1>1, <1>4, <1>6, <2>1 DEF Load, Position, IdsOf, JournalInv, TypeOK
  <2>2. CASE TailOf(c) # {}
    <3>1. PICK last \in TailOf(c) : IsLatest(last, TailOf(c)) /\ lastEntryId' = last
      BY <1>1, <2>2 DEF Load, Position
    <3> QED  BY <1>4, <1>6, <2>2, <3>1 DEF IsLatest, IdsOf, JournalInv, TypeOK
  <2> QED  BY <2>1, <2>2
<1>9. sinceCheckpoint' \in Nat
  BY <1>1, TailIsFinite DEF Load, Position, JournalInv, TypeOK
<1>10. TypeOK'
  <2>1. reduced' \subseteq Nat /\ loaded' \in BOOLEAN
    BY <1>1, <1>7 DEF IdsOf
  <2> QED  BY <1>2, <1>8, <1>9, <2>1 DEF JournalInv, TypeOK
<1>11. InView' /\ Positioned' /\ LoadedIsTheLog'
  BY <1>2, <1>7, <1>8 DEF JournalInv, InView, Positioned, LoadedIsTheLog, IdsOf
<1>12. CheckpointsCoverReduced'
  BY <1>2 DEF JournalInv, CheckpointsCoverReduced, CheckpointCovers, IdsOf
<1> QED  BY <1>10, <1>11, <1>12 DEF JournalInv

LEMMA AppendsKeeps ==
    ASSUME JournalInv, NEW before \in BOOLEAN, NEW durable \in BOOLEAN, Appends(before, durable)
    PROVE  JournalInv'
<1> DEFINE entry == EntryRecord(Asserts(IF before THEN state ELSE 0))
<1>1. entry \in Record /\ entry.type = "entry"
  BY RecordsTyped DEF JournalInv, EntryRecord
<1>2. \/ Write(entry, before, durable) \/ WriteThrows(entry, before)
      \/ WriteFails(entry, before, durable)
  BY DEF Appends
<1> HIDE DEF entry
<1>3. LogGrows(entry) /\ InView' /\ log' \in Seq(Record)
  BY <1>1, <1>2, WriteTypes DEF JournalInv
<1>4. CheckpointsCoverReduced'
  BY <1>1, <1>3, CoversAfterWrite
<1>5. log \in Seq(Record) /\ visible = Len(log) /\ ~needsReconcile /\ ~needsReopen
  BY <1>2 DEF Write, WriteThrows, WriteFails, Writable, JournalInv, InView, TypeOK
<1>6. UNCHANGED <<loaded, state>> /\ synced' \in 0..state' /\ reduced' \subseteq Nat /\ acked' \subseteq Nat
  <2>1. Len(log') \in Nat
    BY <1>3
  <2>2. UNCHANGED <<loaded, state>> /\ (reduced' = reduced \/ reduced' = reduced \cup {Len(log')})
        /\ (acked' = acked \/ acked' = acked \cup {Len(log')})
    BY DEF Appends
  <2>3. synced' = synced \/ synced' = state
    BY DEF Appends, Barrier
  <2>4. reduced \subseteq Nat /\ acked \subseteq Nat /\ state \in Nat /\ synced \in 0..state
    BY DEF JournalInv, TypeOK
  <2>5. synced' \in 0..state'
    BY <2>2, <2>3, <2>4
  <2>6. reduced' \subseteq Nat /\ acked' \subseteq Nat
    BY <2>1, <2>2, <2>4
  <2> QED  BY <2>2, <2>5, <2>6
<1>7. TypeOK'
  BY <1>1, <1>2, <1>6, WriteTypes DEF JournalInv, TypeOK
<1>8. CASE Write(entry, before, durable) /\ reduced' = reduced \cup {Len(log')}
  <2>1. log' = Append(log, entry) /\ visible' = Len(log) + 1 /\ lastEntryId' = visible'
    BY <1>1, <1>5, <1>8, Appended DEF Write, Advance
  <2>2. /\ \A i \in 1..Len(log) : log'[i] = log[i]
        /\ log'[visible'] = entry
    BY <1>1, <1>5, <2>1, Appended
  <2>3. IdsOf("entry", visible)' = IdsOf("entry", visible) \cup {visible'}
    BY <1>1, <1>5, <2>1, <2>2 DEF IdsOf
  <2>4. LoadedIsTheLog'
    BY <1>5, <1>6, <1>8, <2>1, <2>3 DEF JournalInv, LoadedIsTheLog, Write
  <2>5. Positioned'
    BY <1>5, <2>1 DEF Positioned, IdsOf
  <2> QED  BY <1>3, <1>4, <1>7, <2>4, <2>5 DEF JournalInv
<1>9. CASE WriteThrows(entry, before) /\ reduced' = reduced
  <2>1. visible' = visible /\ ~Writable' /\ needsReconcile' = needsReconcile
    BY <1>9 DEF WriteThrows, Writable
  <2>2. \A i \in 1..visible : log'[i] = log[i]
    BY <1>1, <1>3, <1>5, Appended DEF LogGrows
  <2>3. IdsOf("entry", visible)' = IdsOf("entry", visible)
    BY <2>1, <2>2 DEF IdsOf
  <2> QED  BY <1>3, <1>4, <1>6, <1>7, <1>9, <2>1, <2>3 DEF JournalInv, LoadedIsTheLog, Positioned
<1>10. CASE WriteFails(entry, before, durable)
  <2>1. needsReconcile'
    BY <1>10 DEF WriteFails
  <2> QED  BY <1>3, <1>4, <1>7, <2>1 DEF JournalInv, LoadedIsTheLog, Positioned, Writable
<1> QED  BY <1>8, <1>9, <1>10 DEF Appends, entry

LEMMA CheckpointsKeeps ==
    ASSUME JournalInv, NEW durable \in BOOLEAN, Checkpoints(durable)
    PROVE  JournalInv'
<1> DEFINE checkpoint == CheckpointRecord(Covers(reduced))
<1>1. /\ checkpoint \in Record /\ checkpoint.type = "checkpoint"
      /\ checkpoint.through = lastEntryId /\ checkpoint.payload.covers = reduced
  BY RecordsTyped DEF JournalInv, CheckpointRecord, Covers
<1>2. \/ Write(checkpoint, FALSE, durable) \/ WriteThrows(checkpoint, FALSE)
      \/ WriteFails(checkpoint, FALSE, durable)
  BY DEF Checkpoints
<1> HIDE DEF checkpoint
<1>3. LogGrows(checkpoint) /\ InView' /\ log' \in Seq(Record)
  BY <1>1, <1>2, WriteTypes DEF JournalInv
<1>4. loaded /\ Writable
  BY <1>2 DEF Checkpoints, Write, WriteThrows, WriteFails
<1>5. CheckpointsCoverReduced'
  BY <1>1, <1>3, <1>4, CoversAfterWrite
<1>6. log \in Seq(Record) /\ visible = Len(log) /\ ~needsReconcile
  BY <1>4 DEF Writable, JournalInv, InView, TypeOK
<1>7. UNCHANGED <<loaded, reduced, state, acked>> /\ synced' \in 0..state'
  <2>1. UNCHANGED <<loaded, reduced, state, acked>> /\ (synced' = synced \/ synced' = state)
    BY DEF Checkpoints, client, Barrier
  <2>2. state \in Nat /\ synced \in 0..state
    BY DEF JournalInv, TypeOK
  <2> QED  BY <2>1, <2>2
<1>8. TypeOK'
  BY <1>1, <1>2, <1>7, WriteTypes DEF JournalInv, TypeOK
<1>9. \A i \in 1..visible : log'[i] = log[i]
  BY <1>1, <1>3, <1>6, Appended DEF LogGrows
<1>10. CASE Write(checkpoint, FALSE, durable)
  <2>1. visible' = Len(log) + 1 /\ log'[visible'] = checkpoint /\ lastEntryId' = lastEntryId
    BY <1>1, <1>6, <1>10, Appended DEF Write, Advance
  <2>2. IdsOf("entry", visible)' = IdsOf("entry", visible)
    BY <1>1, <1>6, <1>9, <2>1 DEF IdsOf
  <2> QED  BY <1>3, <1>4, <1>5, <1>6, <1>7, <1>8, <2>1, <2>2 DEF JournalInv, LoadedIsTheLog, Positioned
<1>11. CASE WriteThrows(checkpoint, FALSE)
  <2>1. visible' = visible /\ ~Writable' /\ needsReconcile' = needsReconcile
    BY <1>11 DEF WriteThrows, Writable
  <2>2. IdsOf("entry", visible)' = IdsOf("entry", visible)
    BY <1>9, <2>1 DEF IdsOf
  <2> QED  BY <1>3, <1>5, <1>7, <1>8, <2>1, <2>2 DEF JournalInv, LoadedIsTheLog, Positioned
<1>12. CASE WriteFails(checkpoint, FALSE, durable)
  <2>1. needsReconcile'
    BY <1>12 DEF WriteFails
  <2> QED  BY <1>3, <1>5, <1>8, <2>1 DEF JournalInv, LoadedIsTheLog, Positioned, Writable
<1> QED  BY <1>2, <1>10, <1>11, <1>12

LEMMA ReopensKeeps ==
    ASSUME JournalInv, Reopens
    PROVE  JournalInv'
<1>1. PICK n \in stable..Len(log) : log' = SubSeq(log, 1, n)
  BY DEF Reopens, StoreReopens
<1>2. log \in Seq(Record) /\ n \in 0..Len(log)
  BY <1>1 DEF JournalInv, TypeOK
<1>3. log' \in Seq(Record) /\ Len(log') = n /\ \A i \in 1..n : log'[i] = log[i]
  BY <1>1, <1>2, Kept
<1>4. visible' = n /\ stable' = stable /\ ~loaded' /\ lastEntryId' = 0
  BY <1>3 DEF Reopens, StoreReopens, JournalOpens
<1>5. TypeOK'
  <2>1. /\ sinceCheckpoint' = 0 /\ needsReconcile' = FALSE /\ needsReopen' = FALSE
        /\ loaded' = FALSE /\ reduced' = {} /\ state' \in synced..state
        /\ synced' = synced /\ acked' = acked
    BY DEF Reopens, JournalOpens
  <2>2. state \in Nat /\ synced \in 0..state /\ stable \in 0..visible /\ visible \in Nat
          /\ acked \subseteq Nat
    BY DEF JournalInv, TypeOK
  <2>3. state' \in Nat /\ synced' \in 0..state'
    BY <2>1, <2>2
  <2>4. visible' \in 0..Len(log') /\ stable' \in 0..visible' /\ lastEntryId' \in 0..visible'
    BY <1>1, <1>3, <1>4, <2>2
  <2> QED  BY <1>3, <2>1, <2>2, <2>3, <2>4 DEF TypeOK
<1>6. CheckpointsCoverReduced'
  <2> SUFFICES ASSUME NEW c \in 1..n, log'[c].type = "checkpoint"
               PROVE  CheckpointCovers(c)'
    BY <1>3 DEF CheckpointsCoverReduced
  <2>1. log'[c] = log[c] /\ CheckpointCovers(c)
    BY <1>2, <1>3 DEF JournalInv, CheckpointsCoverReduced
  <2>2. log[c].through \in 0..n
    BY <1>2, <2>1, RecordAt DEF CheckpointCovers
  <2> QED  BY <1>2, <1>3, <2>1, <2>2, SamePrefix DEF CheckpointCovers
<1> QED  BY <1>3, <1>4, <1>5, <1>6 DEF JournalInv, InView, Positioned, LoadedIsTheLog

LEMMA JournalFirst == ASSUME Init PROVE JournalInv
<1>1. log \in Seq(Record) /\ Len(log) = 0
  BY DEF Init, JournalInit
<1>2. TypeOK
  <2>1. visible = 0 /\ stable = 0 /\ lastEntryId = 0 /\ sinceCheckpoint = 0 /\ state = 0 /\ synced = 0
    BY DEF Init, JournalInit
  <2>2. visible \in 0..Len(log) /\ stable \in 0..visible /\ lastEntryId \in 0..visible
        /\ sinceCheckpoint \in Nat /\ state \in Nat /\ synced \in 0..state
    BY <1>1, <2>1
  <2>3. /\ needsReconcile \in BOOLEAN /\ needsReopen \in BOOLEAN /\ loaded \in BOOLEAN
        /\ reduced \subseteq Nat /\ acked \subseteq Nat
    BY DEF Init, JournalInit
  <2> QED  BY <1>1, <2>2, <2>3 DEF TypeOK
<1> QED  BY <1>1, <1>2 DEF Init, JournalInit, JournalInv, InView, Positioned, CheckpointsCoverReduced,
                           LoadedIsTheLog

LEMMA JournalStep == ASSUME JournalInv, [Next]_vars PROVE JournalInv'
<1>1. CASE UNCHANGED vars
  BY <1>1 DEF vars, store, journal, position, client, branch, JournalInv, TypeOK, InView, Positioned,
              Writable, CheckpointsCoverReduced, CheckpointCovers, LoadedIsTheLog, IdsOf
<1>2. CASE CommitsState
  BY <1>2 DEF CommitsState, store, journal, position, client, JournalInv, TypeOK, InView, Positioned,
              Writable, CheckpointsCoverReduced, CheckpointCovers, LoadedIsTheLog, IdsOf
<1> QED  BY <1>1, <1>2, LoadsKeeps, AppendsKeeps, CheckpointsKeeps, ReopensKeeps DEF Next

(* The journal's inductive invariant.                                       *)
LEMMA JournalAlways == Spec => []JournalInv
<1>1. Init => JournalInv
  BY JournalFirst
<1>2. JournalInv /\ [Next]_vars => JournalInv'
  BY JournalStep
<1> QED  BY <1>1, <1>2, PTL DEF Spec

(* A checkpoint covers exactly the entries its writer had reduced, however  *)
(* writes failed before it: nothing replayed at open is missed or doubled.  *)
THEOREM CheckpointsCover == Spec => []CheckpointsCoverReduced
<1>1. JournalInv => CheckpointsCoverReduced
  BY DEF JournalInv
<1> QED  BY <1>1, JournalAlways, PTL

(* A client whose last write is not in doubt has reduced exactly what its   *)
(* process can read of the log.                                             *)
THEOREM ClientHasTheLog == Spec => []LoadedIsTheLog
<1>1. JournalInv => LoadedIsTheLog
  BY DEF JournalInv
<1> QED  BY <1>1, JournalAlways, PTL
-----------------------------------------------------------------------------
(* What is on stable storage.                                               *)

(* The entries whose durable append returned are among those synced, and    *)
(* every entry asserts a version of the branch state already synced.        *)
Secured ==
    /\ acked \subseteq IdsOf("entry", stable)
    /\ \A i \in IdsOf("entry", Len(log)) : log[i].payload.asserts <= synced

LEMMA AppendsSecures ==
    ASSUME JournalInv, Secured, NEW before \in BOOLEAN, NEW durable \in BOOLEAN, Appends(before, durable)
    PROVE  Secured'
<1> DEFINE version == IF before THEN state ELSE 0
           entry == EntryRecord(Asserts(version))
<1>1. entry \in Record /\ entry.type = "entry" /\ entry.payload.asserts = version
  BY RecordsTyped DEF JournalInv, EntryRecord, Asserts
<1>2. \/ Write(entry, before, durable) \/ WriteThrows(entry, before)
      \/ WriteFails(entry, before, durable)
  BY DEF Appends
<1>3. state \in Nat /\ synced \in 0..state /\ stable \in 0..Len(log) /\ log \in Seq(Record)
  BY DEF JournalInv, TypeOK
<1>4. version \in Nat /\ version <= synced' /\ synced' \in synced..state
  BY <1>3 DEF Appends, Barrier
<1> HIDE DEF entry
<1>5. LogGrows(entry) /\ log' \in Seq(Record)
  BY <1>1, <1>2, WriteTypes DEF JournalInv
<1> HIDE DEF version
<1>6. \A i \in 1..Len(log) : log'[i] = log[i]
  BY <1>1, <1>3, <1>5, Appended DEF LogGrows
<1>7. \A i \in IdsOf("entry", Len(log))' : log'[i].payload.asserts <= synced'
  <2> SUFFICES ASSUME NEW i \in 1..Len(log'), log'[i].type = "entry"
               PROVE  log'[i].payload.asserts <= synced'
    BY DEF IdsOf
  <2>1. CASE i \in 1..Len(log)
    <3>1. log'[i] = log[i] /\ log[i].payload.asserts <= synced
      BY <1>6, <2>1 DEF Secured, IdsOf
    <3>2. log[i].payload.asserts \in Nat
      BY <1>3, <2>1, RecordAt DEF Record
    <3> QED  BY <1>3, <1>4, <3>1, <3>2
  <2>2. CASE i \notin 1..Len(log)
    <3>1. log'[i] = entry
      BY <1>1, <1>3, <1>5, <2>2, Appended DEF LogGrows
    <3> QED  BY <1>1, <1>4, <3>1
  <2> QED  BY <2>1, <2>2
<1>8. stable <= stable' /\ stable' \in Nat
  BY <1>1, <1>2, <1>3, Appended DEF Write, WriteThrows, WriteFails, Syncs
<1>9. IdsOf("entry", stable) \subseteq IdsOf("entry", stable)'
  BY <1>3, <1>6, <1>8 DEF IdsOf
<1>10. CASE acked' = acked
  BY <1>7, <1>9, <1>10 DEF Secured
<1>11. CASE Write(entry, before, TRUE) /\ acked' = acked \cup {Len(log')}
  <2>1. stable' = Len(log') /\ log'[Len(log')] = entry /\ Len(log') \in 1..Len(log')
    BY <1>1, <1>3, <1>11, Appended DEF Write, Syncs
  <2>2. Len(log') \in IdsOf("entry", stable)'
    BY <1>1, <2>1 DEF IdsOf
  <2> QED  BY <1>7, <1>9, <1>11, <2>2 DEF Secured
<1> QED  BY <1>10, <1>11 DEF Appends, entry, version

LEMMA CheckpointsSecures ==
    ASSUME JournalInv, Secured, NEW durable \in BOOLEAN, Checkpoints(durable)
    PROVE  Secured'
<1> DEFINE checkpoint == CheckpointRecord(Covers(reduced))
<1>1. checkpoint \in Record /\ checkpoint.type = "checkpoint"
  BY RecordsTyped DEF JournalInv, CheckpointRecord
<1>2. \/ Write(checkpoint, FALSE, durable) \/ WriteThrows(checkpoint, FALSE)
      \/ WriteFails(checkpoint, FALSE, durable)
  BY DEF Checkpoints
<1>3. state \in Nat /\ synced \in 0..state /\ stable \in 0..Len(log) /\ log \in Seq(Record)
  BY DEF JournalInv, TypeOK
<1>4. synced' \in synced..state /\ acked' = acked
  <2>1. acked' = acked /\ (synced' = synced \/ synced' = state)
    BY DEF Checkpoints, Barrier
  <2> QED  BY <1>3, <2>1
<1> HIDE DEF checkpoint
<1>5. LogGrows(checkpoint) /\ log' \in Seq(Record)
  BY <1>1, <1>2, WriteTypes DEF JournalInv
<1>6. \A i \in 1..Len(log) : log'[i] = log[i]
  BY <1>1, <1>3, <1>5, Appended DEF LogGrows
<1>7. \A i \in IdsOf("entry", Len(log))' : log'[i].payload.asserts <= synced'
  <2> SUFFICES ASSUME NEW i \in 1..Len(log'), log'[i].type = "entry"
               PROVE  log'[i].payload.asserts <= synced'
    BY DEF IdsOf
  <2>1. i \in 1..Len(log)
    BY <1>1, <1>3, <1>5, Appended DEF LogGrows
  <2>2. log'[i] = log[i] /\ log[i].payload.asserts <= synced
    BY <1>6, <2>1 DEF Secured, IdsOf
  <2>3. log[i].payload.asserts \in Nat
    BY <1>3, <2>1, RecordAt DEF Record
  <2> QED  BY <1>3, <1>4, <2>2, <2>3
<1>8. stable <= stable' /\ stable' \in Nat
  BY <1>1, <1>2, <1>3, Appended DEF Write, WriteThrows, WriteFails, Syncs
<1>9. IdsOf("entry", stable) \subseteq IdsOf("entry", stable)'
  BY <1>3, <1>6, <1>8 DEF IdsOf
<1> QED  BY <1>4, <1>7, <1>9 DEF Secured

LEMMA ReopensSecures ==
    ASSUME JournalInv, Secured, Reopens
    PROVE  Secured'
<1>1. PICK n \in stable..Len(log) : log' = SubSeq(log, 1, n)
  BY DEF Reopens, StoreReopens
<1>2. log \in Seq(Record) /\ n \in 0..Len(log) /\ stable \in Nat
  BY <1>1 DEF JournalInv, TypeOK
<1>3. Len(log') = n /\ \A i \in 1..n : log'[i] = log[i]
  BY <1>1, <1>2, Kept
<1>4. stable' = stable /\ synced' = synced /\ acked' = acked
  BY DEF Reopens, StoreReopens
<1>5. IdsOf("entry", stable)' = IdsOf("entry", stable)
  BY <1>1, <1>2, <1>3, <1>4 DEF IdsOf
<1>6. \A i \in IdsOf("entry", Len(log))' : i \in IdsOf("entry", Len(log)) /\ log'[i] = log[i]
  BY <1>2, <1>3 DEF IdsOf
<1> QED  BY <1>4, <1>5, <1>6 DEF Secured

LEMMA AlwaysSecured == Spec => []Secured
<1>1. Init => Secured
  BY DEF Init, JournalInit, Secured, IdsOf
<1>2. JournalInv /\ Secured /\ [Next]_vars => Secured'
  <2> SUFFICES ASSUME JournalInv, Secured, [Next]_vars
               PROVE  Secured'
    OBVIOUS
  <2>1. CASE UNCHANGED vars
    BY <2>1 DEF vars, store, branch, Secured, IdsOf
  <2>2. CASE Loads
    BY <2>2 DEF Loads, Load, store, branch, Secured, IdsOf
  <2>3. CASE CommitsState
    BY <2>3 DEF CommitsState, store, Secured, IdsOf
  <2> QED  BY <2>1, <2>2, <2>3, AppendsSecures, CheckpointsSecures, ReopensSecures DEF Next
<1> QED  BY <1>1, <1>2, JournalAlways, PTL DEF Spec

(* An entry whose durable append returned is never lost.                    *)
THEOREM DurableIsKept == Spec => []DurableSurvives
<1>1. JournalInv /\ Secured => DurableSurvives
  BY DEF JournalInv, TypeOK, Secured, DurableSurvives, IdsOf
<1> QED  BY <1>1, JournalAlways, AlwaysSecured, PTL

(* No entry outlives the committed state it asserts.                        *)
THEOREM AssertedStateIsKept == Spec => []AssertedStateSurvives
<1>1. JournalInv /\ Secured => AssertedStateSurvives
  <2> SUFFICES ASSUME JournalInv, Secured, NEW i \in IdsOf("entry", Len(log))
               PROVE  log[i].payload.asserts <= state
    BY DEF AssertedStateSurvives
  <2>1. log[i].payload.asserts <= synced /\ synced \in 0..state /\ state \in Nat /\ i \in 1..Len(log)
    BY DEF Secured, JournalInv, TypeOK, IdsOf
  <2>2. log[i].payload.asserts \in Nat
    BY <2>1, RecordAt DEF JournalInv, TypeOK, Record
  <2> QED  BY <2>1, <2>2
<1> QED  BY <1>1, JournalAlways, AlwaysSecured, PTL

-----------------------------------------------------------------------------
(* What the registry keeps, part by part.                                   *)

Up == phase # "down"

(* The records a snapshot has, and all the registry knows.                  *)
Filed(g) == g.awaiting \cup g.pending \cup g.live
AllOf(g) == Filed(g) \cup g.ended

OneKey(R)  == \A r, s \in R : Reg!Key(r) = Reg!Key(s) => r = s
OneName(R) == \A r, s \in R : r.name = s.name => r = s

RegTyped ==
    /\ phase \in {"down", "declaring", "telling", "up", "failed"}
    /\ reg \in Reg!Registry
    /\ recovery \subseteq Reg!Record /\ endedFile \subseteq Reg!Record
    /\ disk \in [records : SUBSET Reg!Record, numbers : [Reg!Name -> Nat],
                 mail : SUBSET Reg!Mail]
    /\ begun \subseteq Reg!Record
    /\ moves \in [1..MaxMail -> Nat]

StoresTyped ==
    /\ rows \in Seq(Reg!Row) /\ onDisk \in 0..Len(rows)
    /\ kept \subseteq Reg!Row
    /\ todo \subseteq 1..MaxMail /\ checks \in BOOLEAN

(* No record has a number its name's counter has not come to, in memory and *)
(* on disk.                                                                 *)
Numbered ==
    /\ \A r \in AllOf(reg) : r.number <= reg.numbers[r.name]
    /\ \A r \in disk.records \cup endedFile : r.number <= disk.numbers[r.name]
    /\ Up => \A r \in AllOf(reg) : r.number <= disk.numbers[r.name]

(* Where records may be: an incarnation is on file once, live or ended, and *)
(* what the ended log has, the process knows of.                            *)
Placed ==
    /\ OneKey(reg.awaiting \cup reg.pending) /\ OneKey(disk.records)
    /\ OneName(reg.live) /\ \A r \in reg.live, a \in reg.awaiting : r.name # a.name
    /\ \A r \in reg.pending, s \in reg.ended : Reg!Key(r) = Reg!Key(s) => r = s
    /\ \A r \in reg.live, s \in reg.ended : Reg!Key(r) # Reg!Key(s)
    /\ \A r \in reg.awaiting : r.name \in Resident
    /\ \A r \in reg.pending : r.name \in Task
    /\ recovery \subseteq reg.ended /\ reg.pending \subseteq reg.ended
    /\ Up => /\ reg.pending \subseteq disk.records
             /\ Reg!Keys(endedFile) \subseteq Reg!Keys(recovery \cup reg.pending \cup reg.live)

-----------------------------------------------------------------------------
(* Numbers and names that exist.                                            *)

LEMMA Least == ASSUME NEW T, T \subseteq Nat, T # {} PROVE \E n \in T : \A k \in T : n <= k
<1> DEFINE R == {p \in Nat \X Nat : p[1] < p[2]}
<1>1. R = OpToRel(<, Nat)
  BY DEF OpToRel
<1>2. IsWellFoundedOn(R, Nat)
  <2> HIDE DEF R
  <2> QED BY <1>1, NatLessThanWellFounded
<1>3. PICK n \in T : \A k \in T : ~ (<<k, n>> \in R)
  <2> HIDE DEF R
  <2> QED BY <1>2, WFMin
<1>4. ASSUME NEW k \in T PROVE n <= k
  <2>1. k \in Nat /\ n \in Nat /\ ~ (<<k, n>> \in R)
    BY <1>3
  <2>2. ~ (k < n)
    <3> SUFFICES ASSUME k < n PROVE FALSE
      OBVIOUS
    <3> QED  BY <2>1
  <2> QED  BY <2>1, <2>2
<1> QED BY <1>4

LEMMA Greatest ==
    ASSUME NEW T, T \subseteq Nat, T # {}, NEW b \in Nat, \A n \in T : n <= b
    PROVE  \E n \in T : \A k \in T : k <= n
<1> DEFINE D == {b - n : n \in T}
<1>1. D \subseteq Nat /\ D # {}
  <2>1. ASSUME NEW n \in T PROVE b - n \in Nat
    <3>1. n \in Nat /\ n <= b
      OBVIOUS
    <3> QED  BY <3>1
  <2> QED  BY <2>1
<1>2. PICK d \in D : \A k \in D : d <= k
  <2> HIDE DEF D
  <2> QED  BY <1>1, Least
<1>3. PICK n \in T : d = b - n
  OBVIOUS
<1>4. ASSUME NEW k \in T PROVE k <= n
  <2>1. d <= b - k
    BY <1>2
  <2>2. n \in Nat /\ k \in Nat
    OBVIOUS
  <2> QED  BY <1>3, <2>1, <2>2
<1> QED  BY <1>4

(* The record a known name stands for is one the registry has.              *)
LEMMA InspectKnown ==
    ASSUME RegTyped, Numbered, NEW n \in Reg!Name, Reg!Known(n)
    PROVE  Reg!Inspect(n) \in reg.live \cup reg.ended /\ Reg!Inspect(n) \in Reg!Record
             /\ Reg!Inspect(n).name = n
<1>1. reg.live \subseteq Reg!Record /\ reg.ended \subseteq Reg!Record
  BY DEF RegTyped, Reg!Registry
<1>2. CASE n \in Reg!Live
  <2>1. \E r \in reg.live : r.name = n
    BY <1>2 DEF Reg!Live, Reg!Names
  <2>2. Reg!LiveRecord(n) \in reg.live /\ Reg!LiveRecord(n).name = n
    BY <2>1 DEF Reg!LiveRecord
  <2> QED  BY <1>1, <1>2, <2>2 DEF Reg!Inspect
<1>3. CASE n \notin Reg!Live
  <2>1. PICK r \in reg.ended : r.name = n
    BY <1>3 DEF Reg!Known, Reg!Live, Reg!Names
  <2> DEFINE E == {o \in reg.ended : o.name = n}
             T == {o.number : o \in E}
  <2>2. T \subseteq Nat /\ T # {}
    BY <1>1, <2>1 DEF Reg!Record
  <2>3. reg.numbers[n] \in Nat
    BY DEF RegTyped, Reg!Registry
  <2>4. \A k \in T : k <= reg.numbers[n]
    BY DEF Numbered, AllOf
  <2>5. PICK k \in T : \A l \in T : l <= k
    <3> HIDE DEF T
    <3> QED  BY <2>2, <2>3, <2>4, Greatest
  <2>6. PICK s \in E : k = s.number
    OBVIOUS
  <2>7. s \in reg.ended /\ s.name = n /\ \A o \in reg.ended : o.name = n => o.number <= s.number
    BY <2>5, <2>6
  <2>8. Reg!Inspect(n) = CHOOSE z \in reg.ended :
             /\ z.name = n
             /\ \A o \in reg.ended : o.name = n => o.number <= z.number
    BY <1>3 DEF Reg!Inspect
  <2> HIDE DEF E, T
  <2>9. Reg!Inspect(n) \in reg.ended /\ Reg!Inspect(n).name = n
    BY <2>7, <2>8
  <2> QED  BY <1>1, <2>9
<1> QED  BY <1>2, <1>3

-----------------------------------------------------------------------------
(* Changes of the records and how they are written.                         *)

(* What any change but a boot's does to the records: those of ends end, and *)
(* a record that comes is of an incarnation the registry never had.         *)
Change(new, ends) ==
    /\ new \in Reg!Registry
    /\ new.pending = reg.pending
    /\ new.ended = reg.ended \cup ends
    /\ ends \subseteq reg.live \cup reg.awaiting
    /\ Reg!Keys(reg.live) \subseteq Reg!Keys(new.live \cup ends)
    /\ \A k \in Reg!Keys(new.live) :
         k \notin Reg!Keys(ends) /\ (k \in Reg!Keys(reg.live) \/ k \notin Reg!Keys(AllOf(reg)))
    /\ new.awaiting \subseteq reg.awaiting
    /\ OneName(new.live) /\ \A r \in new.live, a \in new.awaiting : r.name # a.name
    /\ \A r \in AllOf(new) : r.number <= new.numbers[r.name]
    /\ \A n \in Reg!Name : reg.numbers[n] <= new.numbers[n]
    /\ Reg!Names(AllOf(reg)) \subseteq Reg!Names(AllOf(new))

(* One that may stay in memory alone brings no incarnation.                 *)
Lazy(new) == Reg!Keys(AllOf(new)) \subseteq Reg!Keys(AllOf(reg))

(* What the files and the memory may be after one.                          *)
Writes(new, ends) ==
    /\ \/ /\ reg' = new /\ recovery' = recovery \cup ends
          /\ disk' = Reg!Snapshot(new) \/ (disk' = disk /\ Lazy(new))
       \/ /\ reg' = reg /\ recovery' = Reg!EndedHistory(reg) /\ ends \subseteq reg.live
          /\ disk' \in {disk, Reg!Snapshot(new), Reg!Snapshot(reg)}
    /\ \/ endedFile' = endedFile
       \/ endedFile' = recovery'
       \/ \E some \in SUBSET ends : endedFile' = recovery \cup some

LEMMA KeysOf == ASSUME NEW A, NEW B, A \subseteq B PROVE Reg!Keys(A) \subseteq Reg!Keys(B)
BY DEF Reg!Keys

LEMMA Keys2 == ASSUME NEW A, NEW B PROVE Reg!Keys(A \cup B) = Reg!Keys(A) \cup Reg!Keys(B)
BY DEF Reg!Keys

LEMMA Keys3 ==
    ASSUME NEW A, NEW B, NEW C
    PROVE  Reg!Keys(A \cup B \cup C) = Reg!Keys(A) \cup Reg!Keys(B) \cup Reg!Keys(C)
BY DEF Reg!Keys

LEMMA SnapshotOf ==
    ASSUME NEW g \in Reg!Registry
    PROVE  /\ Reg!Snapshot(g) \in [records : SUBSET Reg!Record, numbers : [Reg!Name -> Nat],
                               mail : SUBSET Reg!Mail]
           /\ Reg!Snapshot(g).records = Filed(g) /\ Reg!Snapshot(g).mail = g.mail
           /\ \A r \in AllOf(g) : /\ r.name \in Reg!Name
                                  /\ Reg!Snapshot(g).numbers[r.name] = g.numbers[r.name]
           /\ \A n \in Reg!Names(AllOf(g)) : Reg!Snapshot(g).numbers[n] = g.numbers[n]
<1>1. Reg!Referable(g) = Reg!Names(AllOf(g))
  BY DEF Reg!Referable, AllOf, Filed
<1>2. AllOf(g) \subseteq Reg!Record
  BY DEF AllOf, Filed, Reg!Registry
<1>3. \A r \in AllOf(g) : r.name \in Reg!Name /\ r.name \in Reg!Names(AllOf(g))
  BY <1>2 DEF Reg!Record, Reg!Names
<1>4. Reg!Names(AllOf(g)) \subseteq Reg!Name
  BY <1>3 DEF Reg!Names
<1>5. [n \in Reg!Name |-> IF n \in Reg!Referable(g) THEN g.numbers[n] ELSE 0] \in [Reg!Name -> Nat]
  BY DEF Reg!Registry
<1>6. Filed(g) \subseteq Reg!Record /\ g.mail \in SUBSET Reg!Mail
  BY DEF Filed, Reg!Registry
<1>7. Filed(g) = g.awaiting \cup g.pending \cup g.live
  BY DEF Filed
<1> QED  BY <1>1, <1>3, <1>4, <1>5, <1>6, <1>7 DEF Reg!Snapshot

LEMMA WritesTyped ==
    ASSUME RegTyped, NEW new, NEW ends, Change(new, ends), Writes(new, ends)
    PROVE  /\ reg' \in Reg!Registry /\ recovery' \subseteq Reg!Record
                /\ endedFile' \subseteq Reg!Record
           /\ disk' \in [records : SUBSET Reg!Record, numbers : [Reg!Name -> Nat],
                mail : SUBSET Reg!Mail]
<1>1. reg \in Reg!Registry /\ new \in Reg!Registry
  BY DEF RegTyped, Change
<1>2. ends \subseteq Reg!Record /\ Reg!EndedHistory(reg) \subseteq Reg!Record
  BY <1>1 DEF Reg!Registry, Change, Reg!EndedHistory
<1> HIDE DEF Change
<1>3. recovery' \subseteq Reg!Record
  BY <1>2 DEF RegTyped, Writes
<1>4. endedFile' \subseteq Reg!Record
  BY <1>2, <1>3 DEF RegTyped, Writes
<1>5. disk' \in {disk, Reg!Snapshot(new), Reg!Snapshot(reg)} /\ reg' \in {reg, new}
  BY DEF Writes
<1> QED  BY <1>1, <1>3, <1>4, <1>5, SnapshotOf DEF RegTyped

(* The ended log has nothing the registry does not know of.                 *)
LEMMA EndedIsKnown ==
    ASSUME RegTyped, Placed, Up
    PROVE  Reg!Keys(recovery \cup endedFile) \subseteq Reg!Keys(AllOf(reg))
<1>1. recovery \cup reg.pending \cup reg.live \subseteq AllOf(reg)
  BY DEF Placed, AllOf, Filed
<1>2. \A A, B : A \subseteq B => Reg!Keys(A) \subseteq Reg!Keys(B)
  BY DEF Reg!Keys
<1>3. Reg!Keys(recovery \cup endedFile) = Reg!Keys(recovery) \cup Reg!Keys(endedFile)
  BY DEF Reg!Keys
<1>4. Reg!Keys(recovery) \subseteq Reg!Keys(AllOf(reg))
  BY <1>1, <1>2
<1>5. Reg!Keys(endedFile) \subseteq Reg!Keys(AllOf(reg))
  BY <1>1, <1>2 DEF Placed
<1> QED  BY <1>3, <1>4, <1>5

(* Of one key, one name and one number.                                     *)
LEMMA SameKey ==
    ASSUME NEW R, NEW r, Reg!Key(r) \in Reg!Keys(R)
    PROVE  \E s \in R : Reg!Key(s) = Reg!Key(r) /\ s.name = r.name /\ s.number = r.number
BY DEF Reg!Key, Reg!Keys

LEMMA WritesNumbered ==
    ASSUME RegTyped, Numbered, Placed, Up, NEW new,
           NEW ends, Change(new, ends), Writes(new, ends)
    PROVE  Numbered'
<1>1. reg \in Reg!Registry /\ new \in Reg!Registry /\ AllOf(reg) \subseteq Reg!Record
        /\ AllOf(new) \subseteq Reg!Record
  BY DEF RegTyped, Change, Reg!Registry, AllOf, Filed
<1>2. \A r \in AllOf(reg) \cup AllOf(new) : r.name \in Reg!Name /\ r.number \in Nat
  BY <1>1 DEF Reg!Record
<1>3. /\ reg.numbers \in [Reg!Name -> Nat] /\ new.numbers \in [Reg!Name -> Nat]
      /\ disk.numbers \in [Reg!Name -> Nat] /\ disk.records \subseteq Reg!Record
  BY <1>1 DEF RegTyped, Reg!Registry
<1>4. \A r \in AllOf(reg) : r.number <= new.numbers[r.name]
  <2> TAKE r \in AllOf(reg)
  <2>1. r.number <= reg.numbers[r.name] /\ reg.numbers[r.name] <= new.numbers[r.name]
    BY <1>2 DEF Numbered, Change
  <2>2. r.number \in Nat /\ reg.numbers[r.name] \in Nat /\ new.numbers[r.name] \in Nat
    BY <1>2, <1>3
  <2> QED  BY <2>1, <2>2
<1>5. \A r \in AllOf(reg') : r.number <= reg'.numbers[r.name]
  BY DEF Numbered, Change, Writes
<1>6. \A r \in AllOf(reg) : r.name \in Reg!Names(AllOf(reg)) /\ r.name \in Reg!Names(AllOf(new))
  BY DEF Reg!Names, Change
(* a record known before, whose number the disk has in whichever form *)
<1>7. \A r \in AllOf(reg) : r.number <= disk'.numbers[r.name]
  <2> TAKE r \in AllOf(reg)
  <2>1. CASE disk' = disk
    BY <2>1 DEF Numbered
  <2>2. CASE disk' = Reg!Snapshot(new)
    BY <1>1, <1>4, <1>6, <2>2, SnapshotOf
  <2>3. CASE disk' = Reg!Snapshot(reg)
    BY <1>1, <2>3, SnapshotOf DEF Numbered
  <2> QED  BY <2>1, <2>2, <2>3 DEF Writes
<1>8. \A r \in AllOf(reg') : r.number <= disk'.numbers[r.name]
  <2>1. CASE reg' = reg
    BY <1>7, <2>1
  <2>2. CASE disk' = Reg!Snapshot(new) /\ reg' = new
    BY <1>1, <2>2, SnapshotOf DEF Change
  <2>3. CASE disk' = disk /\ Lazy(new) /\ reg' = new
    <3> SUFFICES ASSUME NEW r \in AllOf(new) PROVE r.number <= disk'.numbers[r.name]
      BY <2>3
    <3>1. Reg!Key(r) \in Reg!Keys(AllOf(reg))
      BY <2>3 DEF Lazy, Reg!Keys
    <3>2. PICK s \in AllOf(reg) : s.name = r.name /\ s.number = r.number
      BY <3>1, SameKey
    <3> QED  BY <1>7, <3>2
  <2> QED  BY <2>1, <2>2, <2>3 DEF Writes
<1>9. \A r \in disk'.records : r.number <= disk'.numbers[r.name]
  <2>1. CASE disk' = disk
    BY <2>1 DEF Numbered
  <2>2. CASE disk' = Reg!Snapshot(new)
    <3>1. \A r \in AllOf(new) : r.number <= new.numbers[r.name]
      BY DEF Change
    <3>2. \A r \in Filed(new) : r \in AllOf(new)
      BY DEF AllOf
    <3> QED  BY <1>1, <2>2, <3>1, <3>2, SnapshotOf
  <2>3. CASE disk' = Reg!Snapshot(reg)
    <3>1. \A r \in AllOf(reg) : r.number <= reg.numbers[r.name]
      BY DEF Numbered
    <3>2. \A r \in Filed(reg) : r \in AllOf(reg)
      BY DEF AllOf
    <3> QED  BY <1>1, <2>3, <3>1, <3>2, SnapshotOf
  <2> QED  BY <2>1, <2>2, <2>3 DEF Writes
<1>10. \A r \in endedFile' : Reg!Key(r) \in Reg!Keys(AllOf(reg))
  <2>1. ends \subseteq AllOf(reg) /\ Reg!EndedHistory(reg) \subseteq AllOf(reg)
    BY DEF Change, AllOf, Filed, Reg!EndedHistory
  <2>2. \A r \in AllOf(reg) \cup recovery \cup endedFile : Reg!Key(r) \in Reg!Keys(AllOf(reg))
    BY EndedIsKnown DEF Reg!Keys
  <2>3. recovery' \subseteq AllOf(reg) \cup recovery
    BY <2>1 DEF Writes
  <2>4. endedFile' \subseteq AllOf(reg) \cup recovery \cup endedFile
    BY <2>1, <2>3 DEF Writes
  <2> QED  BY <2>2, <2>4
<1>11. \A r \in endedFile' : r.number <= disk'.numbers[r.name]
  <2> TAKE r \in endedFile'
  <2>1. PICK s \in AllOf(reg) : s.name = r.name /\ s.number = r.number
    BY <1>10, SameKey
  <2> QED  BY <1>7, <2>1
<1> QED  BY <1>5, <1>8, <1>9, <1>11 DEF Numbered, AllOf, Filed

(* An incarnation is on file once.                                          *)
LEMMA FiledOnce == ASSUME Placed PROVE OneKey(Filed(reg))
<1> SUFFICES ASSUME NEW r \in Filed(reg), NEW s \in Filed(reg), Reg!Key(r) = Reg!Key(s)
             PROVE  r = s
  BY DEF OneKey
<1>1. r.name = s.name
  BY DEF Reg!Key
<1>2. ASSUME NEW a \in reg.live, NEW b \in reg.awaiting \cup reg.pending
      PROVE  Reg!Key(a) # Reg!Key(b)
  BY DEF Placed, Reg!Key
<1> QED  BY <1>1, <1>2 DEF Placed, OneKey, OneName, Filed

LEMMA ChangedOnce ==
    ASSUME Placed, NEW new, NEW ends, Change(new, ends)
    PROVE  OneKey(Filed(new))
<1> SUFFICES ASSUME NEW r \in Filed(new), NEW s \in Filed(new), Reg!Key(r) = Reg!Key(s)
             PROVE  r = s
  BY DEF OneKey
<1>1. r.name = s.name
  BY DEF Reg!Key
<1>2. ASSUME NEW a \in new.live, NEW b \in reg.pending PROVE Reg!Key(a) # Reg!Key(b)
  <2>1. b \in reg.ended /\ Reg!Key(b) \in Reg!Keys(AllOf(reg))
    BY DEF Placed, Reg!Keys, AllOf
  <2>2. Reg!Key(a) = Reg!Key(b) => Reg!Key(a) \in Reg!Keys(reg.live)
    BY <2>1 DEF Change, Reg!Keys
  <2>3. \A o \in reg.live : Reg!Key(o) # Reg!Key(b)
    BY <2>1 DEF Placed
  <2> QED  BY <2>2, <2>3 DEF Reg!Keys
<1>3. ASSUME NEW a \in new.live, NEW b \in new.awaiting PROVE Reg!Key(a) # Reg!Key(b)
  BY DEF Change, Reg!Key
<1>4. \A a, b \in new.awaiting \cup reg.pending : Reg!Key(a) = Reg!Key(b) => a = b
  BY DEF Placed, Change, OneKey
<1>5. Filed(new) = new.awaiting \cup reg.pending \cup new.live
  BY DEF Filed, Change
<1>6. \A a, b \in new.live : a.name = b.name => a = b
  BY DEF Change, OneName
<1> QED  BY <1>1, <1>2, <1>3, <1>4, <1>5, <1>6

LEMMA WritesPlaced ==
    ASSUME RegTyped, Placed, Up, NEW new, NEW ends, Change(new, ends), Writes(new, ends)
    PROVE  Placed'
<1>1. reg \in Reg!Registry /\ new \in Reg!Registry
  BY DEF RegTyped, Change
<1>2. disk'.records \in {disk.records, Filed(reg), Filed(new)}
  BY <1>1, SnapshotOf DEF Writes
<1>3. reg' \in {reg, new}
  BY DEF Writes
<1>4. /\ OneKey(reg'.awaiting \cup reg'.pending) /\ OneKey(disk'.records) /\ OneName(reg'.live)
      /\ \A r \in reg'.live, a \in reg'.awaiting : r.name # a.name
  <2>1. OneKey(disk'.records)
    BY <1>2, FiledOnce, ChangedOnce DEF Placed
  <2> QED  BY <1>3, <2>1 DEF Placed, Change, OneKey
<1>5. reg'.pending = reg.pending /\ reg.pending \subseteq disk'.records
  BY <1>2, <1>3 DEF Placed, Change, Filed
<1>6. \A r \in reg.pending, s \in reg'.ended : Reg!Key(r) = Reg!Key(s) => r = s
  <2> SUFFICES ASSUME NEW r \in reg.pending, NEW s \in ends, Reg!Key(r) = Reg!Key(s) PROVE r = s
    BY <1>3 DEF Placed, Change
  <2>1. s \in Filed(reg) /\ r \in Filed(reg)
    BY DEF Filed, Change
  <2> QED  BY <2>1, FiledOnce DEF OneKey
<1>7. \A A, r : r \in A => Reg!Key(r) \in Reg!Keys(A)
  BY DEF Reg!Keys
<1>8. \A r \in reg'.live, s \in reg'.ended : Reg!Key(r) # Reg!Key(s)
  <2>1. CASE reg' = reg
    BY <2>1 DEF Placed
  <2>2. CASE reg' = new
    <3> SUFFICES ASSUME NEW r \in new.live,
                        NEW s \in reg.ended \cup ends, Reg!Key(r) = Reg!Key(s) PROVE FALSE
      BY <2>2 DEF Change
    <3>1. Reg!Key(r) \notin Reg!Keys(ends)
            /\ (Reg!Key(r) \in Reg!Keys(reg.live) \/ Reg!Key(r) \notin Reg!Keys(AllOf(reg)))
      BY <1>7 DEF Change
    <3>2. s \in reg.ended /\ Reg!Key(r) \in Reg!Keys(AllOf(reg))
      BY <1>7, <3>1 DEF AllOf
    <3>3. PICK o \in reg.live : Reg!Key(o) = Reg!Key(r)
      BY <3>1, <3>2 DEF Reg!Keys
    <3> QED  BY <3>2, <3>3 DEF Placed
  <2> QED  BY <1>3, <2>1, <2>2
<1>9. (\A r \in reg'.awaiting : r.name \in Resident) /\ \A r \in reg.pending : r.name \in Task
  BY <1>3 DEF Placed, Change
<1>10. recovery' \subseteq reg'.ended /\ reg.pending \subseteq reg'.ended
  BY DEF Placed, Change, Writes, Reg!EndedHistory
<1>11. Reg!Keys(endedFile') \subseteq Reg!Keys(recovery' \cup reg.pending \cup reg'.live)
  <2>3. Reg!Keys(endedFile)
          \subseteq Reg!Keys(recovery) \cup Reg!Keys(reg.pending) \cup Reg!Keys(reg.live)
    BY Keys3 DEF Placed
  <2>4. SUFFICES Reg!Keys(endedFile')
                   \subseteq Reg!Keys(recovery') \cup Reg!Keys(reg.pending) \cup Reg!Keys(reg'.live)
    BY Keys3
  <2>5. CASE reg' = new /\ recovery' = recovery \cup ends
    <3>1. endedFile' \in {endedFile} \/ endedFile' \subseteq recovery'
      BY <2>5 DEF Writes
    <3>2. Reg!Keys(reg.live) \subseteq Reg!Keys(new.live) \cup Reg!Keys(recovery')
      <4>1. Reg!Keys(new.live \cup ends) = Reg!Keys(new.live) \cup Reg!Keys(ends)
        BY Keys2
      <4>2. Reg!Keys(recovery') = Reg!Keys(recovery) \cup Reg!Keys(ends)
        BY <2>5, Keys2
      <4> QED  BY <4>1, <4>2 DEF Change
    <3>3. Reg!Keys(recovery) \subseteq Reg!Keys(recovery')
      BY <2>5, Keys2
    <3>4. endedFile' \subseteq recovery' => Reg!Keys(endedFile') \subseteq Reg!Keys(recovery')
      BY KeysOf
    <3> QED  BY <2>3, <2>5, <3>1, <3>2, <3>3, <3>4
  <2>6. CASE reg' = reg /\ recovery' = Reg!EndedHistory(reg) /\ ends \subseteq reg.live
    <3>1. recovery \subseteq recovery' \cup reg.pending
      BY <2>6 DEF Reg!EndedHistory, Placed
    <3>2. Reg!Keys(recovery) \subseteq Reg!Keys(recovery') \cup Reg!Keys(reg.pending)
      <4>1. Reg!Keys(recovery) \subseteq Reg!Keys(recovery' \cup reg.pending)
        BY <3>1, KeysOf
      <4> QED  BY <4>1, Keys2
    <3>3. \/ endedFile' = endedFile \/ endedFile' = recovery'
          \/ endedFile' \subseteq recovery \cup reg.live
      BY <2>6 DEF Writes
    <3>4. endedFile' \subseteq recovery \cup reg.live
            => Reg!Keys(endedFile') \subseteq Reg!Keys(recovery) \cup Reg!Keys(reg.live)
      <4>1. endedFile' \subseteq recovery \cup reg.live
              => Reg!Keys(endedFile') \subseteq Reg!Keys(recovery \cup reg.live)
        BY KeysOf
      <4> QED  BY <4>1, Keys2
    <3> QED  BY <2>3, <2>6, <3>2, <3>3, <3>4
  <2> QED  BY <2>5, <2>6 DEF Writes
<1> QED  BY <1>4, <1>5, <1>6, <1>8, <1>9, <1>10, <1>11 DEF Placed

-----------------------------------------------------------------------------
(* The requests are such changes.                                           *)

LEMMA WrittenWrites ==
    ASSUME NEW new, NEW ends,
           \/ Reg!Written(new, ends)
           \/ Reg!RolledBack(new, ends) /\ ends \subseteq reg.live
           \/ Reg!Recorded(new, ends) /\ Lazy(new)
    PROVE  Writes(new, ends)
<1>1. CASE Reg!Written(new, ends)
  BY <1>1 DEF Reg!Written, Writes
<1>2. CASE Reg!RolledBack(new, ends) /\ ends \subseteq reg.live
  BY <1>2 DEF Reg!RolledBack, Writes
<1>3. CASE Reg!Recorded(new, ends) /\ Lazy(new)
  BY <1>3 DEF Reg!Recorded, Writes
<1> QED  BY <1>1, <1>2, <1>3

(* A change that leaves the records' keys, and the other sets, alone.       *)
LEMMA KeysKept ==
    ASSUME RegTyped, Numbered, Placed, NEW new \in Reg!Registry,
           new.pending = reg.pending, new.ended = reg.ended, new.awaiting = reg.awaiting,
           new.numbers = reg.numbers,
           \A r \in reg.live : \E s \in new.live : s.name = r.name /\ s.number = r.number,
           \A s \in new.live : \E r \in reg.live : s.name = r.name /\ s.number = r.number,
           OneName(new.live)
    PROVE  Change(new, {}) /\ Lazy(new)
<1>1. Reg!Keys(new.live) = Reg!Keys(reg.live)
  BY DEF Reg!Keys, Reg!Key
<1>2. Reg!Keys(reg.live) \subseteq Reg!Keys(new.live \cup {}) /\ Reg!Keys({}) = {}
  BY <1>1 DEF Reg!Keys
<1>3. Reg!Keys(AllOf(new)) = Reg!Keys(AllOf(reg))
  <2>1. \A g : Reg!Keys(Filed(g))
                = Reg!Keys(g.awaiting) \cup Reg!Keys(g.pending) \cup Reg!Keys(g.live)
    BY Keys3 DEF Filed
  <2>2. Reg!Keys(Filed(new)) = Reg!Keys(Filed(reg))
    BY <1>1, <2>1
  <2>3. /\ Reg!Keys(AllOf(new)) = Reg!Keys(Filed(new)) \cup Reg!Keys(new.ended)
        /\ Reg!Keys(AllOf(reg)) = Reg!Keys(Filed(reg)) \cup Reg!Keys(reg.ended)
    BY Keys2 DEF AllOf
  <2> QED  BY <2>2, <2>3
<1>4. \A r \in new.live, a \in new.awaiting : r.name # a.name
  BY DEF Placed
<1>5. ASSUME NEW r \in AllOf(new)
      PROVE  r.number <= new.numbers[r.name]
  BY DEF Numbered, AllOf, Filed
<1>6. ASSUME NEW n \in Reg!Name
      PROVE  reg.numbers[n] <= new.numbers[n]
  BY DEF RegTyped, Reg!Registry
<1>7. Reg!Names(AllOf(reg)) \subseteq Reg!Names(AllOf(new))
  BY DEF Reg!Names, AllOf, Filed
<1>8. new.ended = reg.ended \cup {}
  OBVIOUS
<1> QED  BY <1>1, <1>2, <1>3, <1>4, <1>5, <1>6, <1>7, <1>8 DEF Change, Lazy

(* A record comes, with its name's next number.                             *)
LEMMA Comes ==
    ASSUME RegTyped, Numbered, Placed, NEW r \in Reg!Record, r.name \notin Reg!Live,
           r.number = reg.numbers[r.name] + 1, NEW new \in Reg!Registry,
           new.live = reg.live \cup {r}, new.pending = reg.pending, new.ended = reg.ended,
           new.awaiting \subseteq reg.awaiting, \A a \in new.awaiting : a.name # r.name,
           \A a \in reg.awaiting : a.name = r.name \/ a \in new.awaiting,
           new.numbers = [reg.numbers EXCEPT ![r.name] = r.number]
    PROVE  Change(new, {})
<1>1. r.name \in Reg!Name /\ reg.numbers \in [Reg!Name -> Nat]
  BY DEF Reg!Record, RegTyped, Reg!Registry
<1>2. \A n \in Reg!Name : reg.numbers[n] <= new.numbers[n]
  BY <1>1
<1>3. Reg!Keys(reg.live) \subseteq Reg!Keys(new.live \cup {}) /\ Reg!Keys({}) = {}
  BY DEF Reg!Keys
<1>4. AllOf(reg) \subseteq Reg!Record
  BY DEF RegTyped, Reg!Registry, AllOf, Filed
<1>5. Reg!Key(r) \notin Reg!Keys(AllOf(reg))
  <2> SUFFICES ASSUME Reg!Key(r) \in Reg!Keys(AllOf(reg)) PROVE FALSE
    OBVIOUS
  <2>1. PICK s \in AllOf(reg) : s.name = r.name /\ s.number = r.number
    BY SameKey
  <2>2. s.number <= reg.numbers[r.name] /\ reg.numbers[r.name] \in Nat
    BY <1>1, <2>1 DEF Numbered
  <2> QED  BY <2>1, <2>2
<1>6. \A k \in Reg!Keys(new.live) : k \in Reg!Keys(reg.live) \/ k \notin Reg!Keys(AllOf(reg))
  BY <1>5 DEF Reg!Keys
<1>7. OneName(new.live) /\ \A s \in new.live, a \in new.awaiting : s.name # a.name
  BY DEF OneName, Placed, Reg!Live, Reg!Names
<1>8. ASSUME NEW s \in AllOf(new)
      PROVE  s.number <= new.numbers[s.name]
  <2>1. CASE s = r
    BY <1>1, <2>1
  <2>2. CASE s # r
    <3>1. s \in AllOf(reg)
      BY <2>2 DEF AllOf, Filed
    <3>2. s.number <= reg.numbers[s.name] /\ s.name \in Reg!Name /\ s.number \in Nat
      BY <1>4, <3>1 DEF Numbered, Reg!Record
    <3>3. reg.numbers[s.name] <= new.numbers[s.name] /\ reg.numbers[s.name] \in Nat
            /\ new.numbers[s.name] \in Nat
      BY <1>1, <1>2, <3>2 DEF Reg!Registry
    <3> QED  BY <3>2, <3>3
  <2> QED  BY <2>1, <2>2
<1>9. Reg!Names(AllOf(reg)) \subseteq Reg!Names(AllOf(new))
  <2> SUFFICES ASSUME NEW s \in AllOf(reg) PROVE \E o \in AllOf(new) : o.name = s.name
    BY DEF Reg!Names
  <2>1. r \in AllOf(new)
    BY DEF AllOf, Filed
  <2> QED  BY <2>1 DEF AllOf, Filed
<1> QED  BY <1>2, <1>3, <1>6, <1>7, <1>8, <1>9 DEF Change

(* Agents end, whichever they are.                                          *)
Ending(gone) == {r \in reg.live : r.name \in gone}
After(r, gone) == IF r.spawner \in gone THEN [r EXCEPT !.orphan = TRUE] ELSE r

LEMMA WithoutFields ==
    ASSUME RegTyped, NEW gone
    PROVE  /\ Reg!Without(gone) \in Reg!Registry
           /\ Reg!Without(gone).awaiting = reg.awaiting
                /\ Reg!Without(gone).pending = reg.pending
           /\ Reg!Without(gone).ended = reg.ended \cup Ending(gone)
           /\ Reg!Without(gone).numbers = reg.numbers /\ Reg!Without(gone).mail = reg.mail
           /\ \A r \in reg.live : r.name \notin gone =>
                \E s \in Reg!Without(gone).live : s.name = r.name /\ s.number = r.number
           /\ \A s \in Reg!Without(gone).live :
                /\ s.name \notin gone
                /\ \E r \in reg.live : /\ s.name = r.name /\ s.number = r.number
                                       /\ s.to = r.to /\ s = After(r, gone)
<1> DEFINE after(r) == After(r, gone)
           stay == {s \in reg.live : s.name \notin gone}
           live == {after(r) : r \in stay}
<1>1. \A r \in Reg!Record : /\ after(r) \in Reg!Record /\ after(r).name = r.name
                            /\ after(r).number = r.number /\ after(r).to = r.to
  BY DEF Reg!Record, After
<1>2. reg \in Reg!Registry /\ reg.live \subseteq Reg!Record
  BY DEF RegTyped, Reg!Registry
<1>3. Reg!Without(gone) = [reg EXCEPT !.live = live, !.ended = @ \cup Ending(gone)]
  BY DEF Reg!Without, Ending, After
<1> HIDE DEF after
<1>4. live \subseteq Reg!Record
  BY <1>1, <1>2
<1>5. \A r \in stay : \E s \in live : s.name = r.name /\ s.number = r.number
  BY <1>1, <1>2
<1>6. \A s \in live : \E r \in stay : /\ s.name = r.name /\ s.number = r.number /\ s.to = r.to
                                      /\ s = after(r)
  BY <1>1, <1>2
<1> HIDE DEF live
<1>7. Reg!Without(gone) \in Reg!Registry /\ Reg!Without(gone).live = live
  BY <1>2, <1>3, <1>4 DEF Reg!Registry, Ending
<1>8. /\ Reg!Without(gone).awaiting = reg.awaiting /\ Reg!Without(gone).pending = reg.pending
      /\ Reg!Without(gone).ended = reg.ended \cup Ending(gone)
      /\ Reg!Without(gone).numbers = reg.numbers /\ Reg!Without(gone).mail = reg.mail
  BY <1>2, <1>3 DEF Reg!Registry
<1>9. \A s \in stay : s \in reg.live /\ s.name \notin gone
  OBVIOUS
<1> QED  BY <1>5, <1>6, <1>7, <1>8, <1>9 DEF after

LEMMA Goes ==
    ASSUME RegTyped, Numbered, Placed, NEW gone
    PROVE  Change(Reg!Without(gone), Ending(gone)) /\ Lazy(Reg!Without(gone))
<1> DEFINE new == Reg!Without(gone)
           ends == Ending(gone)
<1>1. ends \subseteq reg.live /\ \A r \in reg.live : r.name \in gone <=> r \in ends
  BY DEF Ending
<1> HIDE DEF new
<1>2. Reg!Keys(reg.live) \subseteq Reg!Keys(new.live \cup ends)
  BY <1>1, WithoutFields DEF Reg!Keys, Reg!Key, new
<1>3. \A k \in Reg!Keys(new.live) : k \notin Reg!Keys(ends) /\ k \in Reg!Keys(reg.live)
  <2> SUFFICES ASSUME NEW s \in new.live
               PROVE  Reg!Key(s) \notin Reg!Keys(ends) /\ Reg!Key(s) \in Reg!Keys(reg.live)
    BY DEF Reg!Keys
  <2>1. s.name \notin gone /\ \E r \in reg.live : s.name = r.name /\ s.number = r.number
    BY WithoutFields DEF new
  <2> QED  BY <2>1 DEF Reg!Keys, Reg!Key, Ending
<1>4. OneName(new.live) /\ \A r \in new.live, a \in new.awaiting : r.name # a.name
  <2>1. \A r \in new.live, a \in new.awaiting : r.name # a.name
    BY WithoutFields DEF new, Placed
  <2>2. ASSUME NEW r \in new.live, NEW s \in new.live, r.name = s.name PROVE r = s
    <3>1. PICK a \in reg.live : r.name = a.name /\ r = After(a, gone)
      BY WithoutFields DEF new
    <3>2. PICK b \in reg.live : s.name = b.name /\ s = After(b, gone)
      BY WithoutFields DEF new
    <3>3. a = b
      BY <2>2, <3>1, <3>2 DEF Placed, OneName
    <3> QED  BY <3>1, <3>2, <3>3
  <2> QED  BY <2>1, <2>2 DEF OneName
<1>5. /\ new \in Reg!Registry /\ new.pending = reg.pending /\ new.ended = reg.ended \cup ends
      /\ new.awaiting = reg.awaiting /\ new.numbers = reg.numbers
  BY WithoutFields DEF new
<1>6. \A r \in AllOf(new) : \E s \in AllOf(reg) : s.name = r.name /\ s.number = r.number
  BY <1>1, <1>5, WithoutFields DEF AllOf, Filed, new
<1>7. ASSUME NEW r \in AllOf(new)
      PROVE  r.number <= new.numbers[r.name]
  BY <1>5, <1>6 DEF Numbered
<1>8. ASSUME NEW n \in Reg!Name
      PROVE  reg.numbers[n] <= new.numbers[n]
  BY <1>5 DEF Reg!Registry
<1>9. Reg!Names(AllOf(reg)) \subseteq Reg!Names(AllOf(new))
  <2> SUFFICES ASSUME NEW s \in AllOf(reg) PROVE \E o \in AllOf(new) : o.name = s.name
    BY DEF Reg!Names
  <2>1. CASE s \in reg.live
    <3>1. CASE s.name \in gone
      BY <1>1, <1>5, <2>1, <3>1 DEF AllOf
    <3>2. CASE s.name \notin gone
      BY <2>1, <3>2, WithoutFields DEF AllOf, Filed, new
    <3> QED  BY <3>1, <3>2
  <2>2. CASE s \notin reg.live
    BY <1>5, <2>2 DEF AllOf, Filed
  <2> QED  BY <2>1, <2>2
<1>10. Reg!Keys(AllOf(new)) \subseteq Reg!Keys(AllOf(reg))
  BY <1>6 DEF Reg!Keys, Reg!Key
<1>11. new.awaiting \subseteq reg.awaiting
  BY <1>5
<1> HIDE DEF ends
<1> QED  BY <1>1, <1>2, <1>3, <1>4, <1>5, <1>7, <1>8, <1>9, <1>10, <1>11
            DEF Change, Lazy, new, ends

-----------------------------------------------------------------------------
(* Which change each request is.                                            *)

(* An end that is written is on the history's list; of one that is rolled   *)
(* back, at least what the files kept of it.                                *)
Closes(ends) ==
    \A k \in Reg!Keys(ends) \cap Reg!Keys(reg.live \cup reg.pending) :
      \/ k \in closed'
      \/ reg' = reg /\ k \in Reg!Keys(disk'.records)
           /\ k \notin Reg!Keys(endedFile' \cup recovery')

Does(new, ends) == Change(new, ends) /\ Writes(new, ends) /\ Closes(ends)

(* What holds whenever a step is taken.                                     *)
Base == RegTyped /\ StoresTyped /\ Numbered /\ Placed

LEMMA ClosesNone == Closes({})
BY DEF Closes, Reg!Keys

LEMMA SpawnDoes ==
    ASSUME Base, NEW n \in Task, NEW s \in Reg!Name,
           NEW follows \in BOOLEAN, Reg!Spawn(n, s, follows)
    PROVE  /\ Up /\ UNCHANGED phase
           /\ \E new : Does(new, {}) /\ new.mail = reg.mail
           /\ begun' = begun \/ (begun' = begun \cup {Reg!Spawned(n, s, follows)}
                                   /\ Reg!Spawned(n, s, follows) \in reg'.live
                                        /\ disk' = Reg!Snapshot(reg')
                                   /\ endedFile' = endedFile /\ recovery' = recovery
                                   /\ Reg!Key(Reg!Spawned(n, s, follows)) \notin Reg!Keys(AllOf(reg))
                                   /\ Reg!Spawned(n, s, follows) \in Reg!Record)
<1> DEFINE r == Reg!Spawned(n, s, follows)
           new == [reg EXCEPT !.live = @ \cup {r}, !.numbers[n] = r.number]
<1>1. n \in Reg!Name /\ n \notin Reg!Live /\ reg \in Reg!Registry
        /\ reg.numbers \in [Reg!Name -> Nat]
  BY DEF Reg!Spawn, Reg!Registrable, Base, RegTyped, Reg!Registry, Reg!Name
<1>2. r \in Reg!Record /\ r.name = n /\ r.number = reg.numbers[n] + 1
  BY <1>1 DEF Reg!Spawned, Reg!Record
<1> HIDE DEF r
<1>3. new \in Reg!Registry
  BY <1>1, <1>2 DEF Reg!Registry, Reg!Record
<1>4. /\ new.live = reg.live \cup {r} /\ new.pending = reg.pending /\ new.ended = reg.ended
      /\ new.awaiting = reg.awaiting /\ new.mail = reg.mail
      /\ new.numbers = [reg.numbers EXCEPT ![r.name] = r.number]
  BY <1>1, <1>2 DEF Reg!Registry
<1>5. (Reg!Written(new, {}) /\ begun' = begun \cup {r})
        \/ (Reg!RolledBack(new, {}) /\ begun' = begun)
  BY DEF Reg!Spawn, r
<1>6. Up /\ phase' = phase
  BY DEF Reg!Spawn, Reg!Free, Up
<1> HIDE DEF new
<1>7. \A a \in reg.awaiting : a.name # r.name
  BY <1>2, StoresConstants DEF Reg!RegistryConstants, Base, Placed
<1>8. Change(new, {})
  BY <1>1, <1>2, <1>3, <1>4, <1>7, Comes DEF Base
<1>9. Writes(new, {})
  BY <1>5, WrittenWrites
<1>10. Does(new, {}) /\ new.mail = reg.mail
  BY <1>4, <1>8, <1>9, ClosesNone DEF Does
<1>11. Reg!Written(new, {}) => /\ r \in reg'.live /\ disk' = Reg!Snapshot(reg')
                               /\ endedFile' = endedFile /\ recovery' = recovery
  BY <1>4 DEF Reg!Written, Filed
<1>12. Reg!Key(r) \notin Reg!Keys(AllOf(reg))
  <2> SUFFICES ASSUME Reg!Key(r) \in Reg!Keys(AllOf(reg)) PROVE FALSE
    OBVIOUS
  <2>1. PICK o \in AllOf(reg) : o.name = r.name /\ o.number = r.number
    BY SameKey
  <2>2. o.number <= reg.numbers[n] /\ reg.numbers[n] \in Nat
    BY <1>1, <1>2, <2>1 DEF Numbered, Base
  <2> QED  BY <1>2, <2>1, <2>2
<1> QED  BY <1>2, <1>5, <1>6, <1>10, <1>11, <1>12 DEF r

LEMMA EndingKeys ==
    ASSUME Placed, NEW gone
    PROVE  {k \in Reg!Keys(reg.live) : k[1] \in gone} = Reg!Keys(Ending(gone))
BY DEF Reg!Keys, Reg!Key, Ending

LEMMA RunEndsDoes ==
    ASSUME Base, NEW n \in Reg!Name, Reg!RunEnds(n)
    PROVE  /\ Up /\ UNCHANGED phase /\ begun' = begun
           /\ \E new, ends : Does(new, ends) /\ new.mail = reg.mail
<1> DEFINE gone == Reg!EndsWith(n)
<1> HIDE DEF gone
<1>1. Reg!Recorded(Reg!Without(gone), Ending(gone))
        /\ closed' = closed \cup Reg!Keys(Ending(gone))
  BY EndingKeys DEF Reg!RunEnds, Ending, gone, Base
<1>2. Change(Reg!Without(gone), Ending(gone)) /\ Lazy(Reg!Without(gone))
  BY Goes DEF Base
<1>3. Writes(Reg!Without(gone), Ending(gone))
  BY <1>1, <1>2, WrittenWrites
<1>4. Closes(Ending(gone))
  BY <1>1 DEF Closes
<1>5. Reg!Without(gone).mail = reg.mail
  BY WithoutFields DEF Base
<1>6. Up /\ phase' = phase /\ begun' = begun
  BY DEF Reg!RunEnds, Reg!Free, Up
<1> QED  BY <1>2, <1>3, <1>4, <1>5, <1>6 DEF Does

LEMMA StopAgentDoes ==
    ASSUME Base, NEW n \in Reg!Name, Reg!StopAgent(n)
    PROVE  /\ Up /\ UNCHANGED phase /\ begun' = begun
           /\ \E new, ends : Does(new, ends) /\ new.mail = reg.mail
<1> DEFINE gone == Reg!EndsWith(n)
<1> HIDE DEF gone
<1>1. \/ Reg!Written(Reg!Without(gone), Ending(gone))
           /\ closed' = closed \cup Reg!Keys(Ending(gone))
      \/ /\ Reg!RolledBack(Reg!Without(gone), Ending(gone))
         /\ closed' = closed \cup {k \in Reg!Keys(Ending(gone)) : \/ k \in Reg!Keys(endedFile')
                                                             \/ k \notin Reg!Keys(disk'.records)}
  BY DEF Reg!StopAgent, Ending, gone
<1>2. Change(Reg!Without(gone), Ending(gone)) /\ Lazy(Reg!Without(gone))
  BY Goes DEF Base
<1>3. Ending(gone) \subseteq reg.live
  BY DEF Ending
<1>4. Writes(Reg!Without(gone), Ending(gone))
  BY <1>1, <1>2, <1>3, WrittenWrites
<1>5. Closes(Ending(gone))
  <2> SUFFICES ASSUME NEW k \in Reg!Keys(Ending(gone)), k \notin closed'
               PROVE  reg' = reg /\ k \in Reg!Keys(disk'.records)
                        /\ k \notin Reg!Keys(endedFile' \cup recovery')
    BY DEF Closes
  <2>1. reg' = reg /\ recovery' = Reg!EndedHistory(reg) /\ k \in Reg!Keys(disk'.records)
          /\ k \notin Reg!Keys(endedFile')
    BY <1>1 DEF Reg!RolledBack
  <2>2. k \notin Reg!Keys(Reg!EndedHistory(reg))
    BY DEF Reg!Keys, Reg!EndedHistory, Ending, Base, Placed
  <2> QED  BY <2>1, <2>2, Keys2
<1>6. Reg!Without(gone).mail = reg.mail
  BY WithoutFields DEF Base
<1>7. Up /\ phase' = phase /\ begun' = begun
  BY DEF Reg!StopAgent, Reg!Free, Up
<1> QED  BY <1>2, <1>4, <1>5, <1>6, <1>7 DEF Does

LEMMA AdoptedIs ==
    ASSUME NEW r \in Reg!Record, NEW p \in Reg!Name
    PROVE  Reg!Adopted(r, p) \in Reg!Record /\ Reg!Adopted(r, p).name = r.name
             /\ Reg!Adopted(r, p).number = r.number
BY DEF Reg!Adopted, Reg!Record

LEMMA ReaddressedIs ==
    ASSUME NEW m \in Reg!Mail, NEW p \in Reg!Name
    PROVE  /\ [m EXCEPT !.to = p] \in Reg!Mail /\ [m EXCEPT !.to = p].to = p
           /\ [m EXCEPT !.to = p].id = m.id /\ [m EXCEPT !.to = p].from = m.from
           /\ [m EXCEPT !.to = p].kind = m.kind
BY DEF Reg!Mail

(* A request that is written, on disk at once, or rolled back.              *)
Asked(new) ==
    \/ reg' = new /\ disk' = Reg!Snapshot(new)
    \/ reg' = reg /\ disk' \in {disk, Reg!Snapshot(new), Reg!Snapshot(reg)}

LEMMA ReparentDoes ==
    ASSUME Base, NEW n \in Reg!Name, NEW p \in Reg!Name, Reg!Reparent(n, p)
    PROVE  /\ Up /\ UNCHANGED phase /\ begun' = begun
           /\ \E new : Does(new, {}) /\ new.mail = Reg!Readdressed(n, p) /\ Asked(new)
<1> DEFINE turned(r) == IF r.name = n THEN Reg!Adopted(r, p) ELSE r
           live == {turned(r) : r \in reg.live}
           new == [reg EXCEPT
                     !.live = {IF r.name = n THEN Reg!Adopted(r, p) ELSE r : r \in @},
                     !.mail = Reg!Readdressed(n, p)]
<1>1. reg \in Reg!Registry /\ reg.live \subseteq Reg!Record /\ reg.mail \subseteq Reg!Mail
  BY DEF Base, RegTyped, Reg!Registry
<1>2. \A r \in reg.live : turned(r) \in Reg!Record /\ turned(r).name = r.name
        /\ turned(r).number = r.number
  BY <1>1, AdoptedIs
<1>3. Reg!Readdressed(n, p) \subseteq Reg!Mail
  BY <1>1, ReaddressedIs DEF Reg!Readdressed
<1>4. new = [reg EXCEPT !.live = live, !.mail = Reg!Readdressed(n, p)]
  BY DEF turned
<1>5. Reg!Written(new, {}) \/ Reg!RolledBack(new, {})
  BY DEF Reg!Reparent
<1>6. Up /\ phase' = phase /\ begun' = begun
  BY DEF Reg!Reparent, Reg!Free, Up
<1> HIDE DEF new, turned
<1>7. live \subseteq Reg!Record
  BY <1>2
<1>8. /\ \A r \in reg.live : \E s \in live : s.name = r.name /\ s.number = r.number
      /\ \A s \in live : \E r \in reg.live : s.name = r.name /\ s.number = r.number
  BY <1>2
<1>9. OneName(live)
  BY <1>2 DEF OneName, Base, Placed
<1> HIDE DEF live
<1>10. /\ new \in Reg!Registry /\ new.live = live /\ new.awaiting = reg.awaiting
       /\ new.pending = reg.pending /\ new.ended = reg.ended /\ new.numbers = reg.numbers
       /\ new.mail = Reg!Readdressed(n, p)
  BY <1>1, <1>3, <1>4, <1>7 DEF Reg!Registry
<1>11. Change(new, {})
  BY <1>8, <1>9, <1>10, KeysKept DEF Base
<1>12. Writes(new, {})
  BY <1>5, WrittenWrites
<1>13. Asked(new)
  BY <1>5 DEF Reg!Written, Reg!RolledBack, Asked
<1> QED  BY <1>6, <1>10, <1>11, <1>12, <1>13, ClosesNone DEF Does

(* Only the mail changes, or nothing.                                       *)
LEMMA MailOnly ==
    ASSUME Base, NEW M \in SUBSET Reg!Mail
    PROVE  /\ Change([reg EXCEPT !.mail = M], {}) /\ Lazy([reg EXCEPT !.mail = M])
           /\ [reg EXCEPT !.mail = M].mail = M
<1> DEFINE new == [reg EXCEPT !.mail = M]
<1>1. reg \in Reg!Registry
  BY DEF Base, RegTyped
<1>2. /\ new \in Reg!Registry /\ new.live = reg.live /\ new.awaiting = reg.awaiting
      /\ new.pending = reg.pending /\ new.ended = reg.ended /\ new.numbers = reg.numbers
      /\ new.mail = M
  BY <1>1 DEF Reg!Registry
<1> HIDE DEF new
<1>3. OneName(new.live)
  BY <1>2 DEF Base, Placed
<1>4. Change(new, {}) /\ Lazy(new)
  BY <1>2, <1>3, KeysKept DEF Base
<1> QED  BY <1>2, <1>4 DEF new

LEMMA StillDoes ==
    ASSUME Base, reg' = reg, recovery' = recovery, endedFile' = endedFile,
           disk' \in {disk, Reg!Snapshot(reg)}
    PROVE  Does(reg, {})
<1>1. reg \in Reg!Registry /\ OneName(reg.live)
  BY DEF Base, RegTyped, Placed
<1>2. Change(reg, {}) /\ Lazy(reg)
  BY <1>1, KeysKept DEF Base
<1>3. Writes(reg, {})
  BY <1>2 DEF Writes
<1> QED  BY <1>2, <1>3, ClosesNone DEF Does

(* The mail a request is to hold.                                           *)
NewMail(n, to) ==
    [id |-> CHOOSE i \in Reg!Unused : \A j \in Reg!Unused : i <= j,
     from |-> Reg!Key(Reg!Inspect(n)),
     kind |-> IF n \in Task THEN "result" ELSE "message", to |-> to]

LEMMA HoldMailDoes ==
    ASSUME Base, NEW n \in Reg!Name, NEW to \in Reg!Name, Reg!HoldMail(n, to)
    PROVE  /\ Up /\ UNCHANGED phase /\ begun' = begun
           /\ NewMail(n, to) \in Reg!Mail /\ NewMail(n, to).id \in Reg!Unused
                /\ NewMail(n, to).to = to
           /\ \E new : /\ Does(new, {}) /\ Asked(new)
                       /\ new.mail = reg.mail \cup {NewMail(n, to)}
<1> DEFINE m == NewMail(n, to)
           new == Reg!WithMail(m)
<1>1. reg.mail \subseteq Reg!Mail
  BY DEF Base, RegTyped, Reg!Registry
<1>2. Reg!Unused \subseteq 1..MaxMail /\ Reg!Unused # {} /\ Reg!Unused \subseteq Nat
  BY StoresConstants DEF Reg!HoldMail, Reg!Unused, Reg!RegistryConstants
<1>3. \E i \in Reg!Unused : \A j \in Reg!Unused : i <= j
  BY <1>2, Least
<1>4. m.id \in Reg!Unused
  BY <1>3 DEF NewMail
<1>5. Reg!Inspect(n) \in Reg!Record
  BY InspectKnown DEF Reg!HoldMail, Base
<1>6. m.from \in Reg!Name \X Nat /\ m.kind \in {"message", "result"} /\ m.to = to
  BY <1>5 DEF NewMail, Reg!Key, Reg!Record
<1>7. m \in Reg!Mail
  BY <1>2, <1>4, <1>6 DEF Reg!Mail, NewMail
<1>8. Reg!Written(new, {}) \/ Reg!RolledBack(new, {})
  BY DEF Reg!HoldMail, NewMail
<1>9. Up /\ phase' = phase /\ begun' = begun
  BY DEF Reg!HoldMail, Reg!Free, Up
<1> HIDE DEF m
<1>10. Change(new, {}) /\ new.mail = reg.mail \cup {m}
  BY <1>1, <1>7, MailOnly DEF Reg!WithMail
<1>11. Writes(new, {})
  BY <1>8, WrittenWrites
<1>12. Asked(new)
  BY <1>8 DEF Reg!Written, Reg!RolledBack, Asked
<1> QED  BY <1>4, <1>6, <1>7, <1>9, <1>10, <1>11, <1>12, ClosesNone DEF Does, m

LEMMA ReleasedDoes ==
    ASSUME Base, NEW id, Reg!Recorded(Reg!Released(id), {})
    PROVE  Does(Reg!Released(id), {}) /\ Reg!Released(id).mail = {m \in reg.mail : m.id # id}
<1>1. {m \in reg.mail : m.id # id} \in SUBSET Reg!Mail
  BY DEF Base, RegTyped, Reg!Registry
<1>2. /\ Change(Reg!Released(id), {}) /\ Lazy(Reg!Released(id))
      /\ Reg!Released(id).mail = {m \in reg.mail : m.id # id}
  BY <1>1, MailOnly DEF Reg!Released
<1>3. Writes(Reg!Released(id), {})
  BY <1>2, WrittenWrites
<1> QED  BY <1>2, <1>3, ClosesNone DEF Does

LEMMA DeclareDoes ==
    ASSUME Base, NEW p \in Resident, Reg!Declare(p)
    PROVE  /\ Up /\ Up' /\ begun' = begun
           /\ \E new : Does(new, {}) /\ new.mail = reg.mail
<1> DEFINE r == [name |-> p, number |-> reg.numbers[p] + 1, spawner |-> NoAgent,
                 orphan |-> FALSE, follows |-> FALSE, to |-> NoAgent]
           new == [reg EXCEPT !.live = @ \cup {r}, !.numbers[p] = r.number,
                              !.awaiting = {a \in @ : a.name # p}]
<1>1. p \in Reg!Name /\ p \notin Reg!Live /\ reg \in Reg!Registry
        /\ reg.numbers \in [Reg!Name -> Nat]
  BY DEF Reg!Declare, Base, RegTyped, Reg!Registry, Reg!Name
<1>2. r \in Reg!Record /\ r.name = p /\ r.number = reg.numbers[p] + 1
  BY <1>1 DEF Reg!Record
<1>3. /\ Reg!Written(new, {}) \/ Reg!RolledBack(new, {})
      /\ phase = "declaring" /\ phase' \in {phase, "failed"} /\ begun' = begun
  BY DEF Reg!Declare, Reg!history
<1> HIDE DEF r
<1>4. /\ new \in Reg!Registry
      /\ new.live = reg.live \cup {r} /\ new.pending = reg.pending /\ new.ended = reg.ended
      /\ new.awaiting = {a \in reg.awaiting : a.name # p} /\ new.mail = reg.mail
      /\ new.numbers = [reg.numbers EXCEPT ![r.name] = r.number]
  BY <1>1, <1>2 DEF Reg!Registry, Reg!Record
<1> HIDE DEF new
<1>5. /\ new.awaiting \subseteq reg.awaiting /\ \A a \in new.awaiting : a.name # r.name
      /\ \A a \in reg.awaiting : a.name = r.name \/ a \in new.awaiting
  BY <1>2, <1>4
<1>6. Change(new, {})
  BY <1>1, <1>2, <1>4, <1>5, Comes DEF Base
<1>7. Writes(new, {})
  BY <1>3, WrittenWrites
<1> QED  BY <1>3, <1>4, <1>6, <1>7, ClosesNone DEF Does, Up

LEMMA ReconcileDoes ==
    ASSUME Base, Reg!Reconcile
    PROVE  /\ Up /\ begun' = begun
           /\ \E new, ends : Does(new, ends) /\ new.mail = reg.mail
<1> DEFINE new == [reg EXCEPT !.awaiting = {}, !.ended = @ \cup reg.awaiting]
           ends == reg.awaiting
<1>1. reg \in Reg!Registry
  BY DEF Base, RegTyped
<1>2. /\ phase = "declaring" /\ begun' = begun
      /\ \/ Reg!Written(new, ends)
         \/ /\ reg' = new /\ recovery' = recovery \cup ends
            /\ \/ /\ disk' = disk
                  /\ \E some \in SUBSET ends : endedFile' \in {endedFile, recovery \cup some}
               \/ disk' = Reg!Snapshot(new) /\ endedFile' = recovery'
  BY DEF Reg!Reconcile, Reg!history
<1>3. /\ new \in Reg!Registry /\ new.live = reg.live /\ new.pending = reg.pending
      /\ new.ended = reg.ended \cup ends /\ new.awaiting = {} /\ new.mail = reg.mail
      /\ new.numbers = reg.numbers
  BY <1>1 DEF Reg!Registry
<1> HIDE DEF new
<1>4. \A r \in reg.live, a \in ends : Reg!Key(r) # Reg!Key(a)
  BY DEF Base, Placed, Reg!Key
<1>5. \A k \in Reg!Keys(new.live) : k \notin Reg!Keys(ends) /\ k \in Reg!Keys(reg.live)
  BY <1>3, <1>4 DEF Reg!Keys
<1>6. Reg!Keys(reg.live) \subseteq Reg!Keys(new.live \cup ends)
  BY <1>3 DEF Reg!Keys
<1>7. AllOf(new) = AllOf(reg)
  BY <1>3 DEF AllOf, Filed
<1>8. \A r \in AllOf(new) : r.number <= new.numbers[r.name]
  BY <1>3, <1>7 DEF Base, Numbered
<1>9. \A m \in Reg!Name : reg.numbers[m] <= new.numbers[m]
  BY <1>1, <1>3 DEF Reg!Registry
<1>10. OneName(new.live) /\ \A r \in new.live, a \in new.awaiting : r.name # a.name
  BY <1>3 DEF Base, Placed
<1>11. Change(new, ends)
  BY <1>3, <1>5, <1>6, <1>7, <1>8, <1>9, <1>10 DEF Change
<1>12. Writes(new, ends)
  BY <1>2, <1>7 DEF Writes, Lazy, Reg!Written
<1>13. Closes(ends)
  <2> SUFFICES ASSUME NEW a \in ends,
                      NEW b \in reg.live \cup reg.pending, Reg!Key(a) = Reg!Key(b) PROVE FALSE
    BY DEF Closes, Reg!Keys
  <2>1. b \in reg.pending
    BY <1>4
  <2>2. a.name = b.name
    BY DEF Reg!Key
  <2> QED  BY <2>1, <2>2, StoresConstants DEF Reg!RegistryConstants, Base, Placed
<1> QED  BY <1>2, <1>3, <1>11, <1>12, <1>13 DEF Does, Up

(* A delivery releases its mail, or leaves the registry as it is.           *)
LEMMA LandedDoes ==
    ASSUME Base, NEW copy, Reg!Landed(copy)
    PROVE  \E new : /\ Does(new, {}) /\ reg' = new /\ disk' \in {disk, Reg!Snapshot(new)}
                    /\ \/ new.mail = reg.mail
                       \/ /\ new.mail = {m \in reg.mail : m.id # copy.id}
                          /\ onDisk' = Len(rows')
                          /\ \A m \in reg.mail : m.id = copy.id => Reg!Copy(m) = copy
<1>1. CASE UNCHANGED <<reg, Reg!files>>
  BY <1>1, StillDoes DEF Reg!files
<1>2. CASE /\ Reg!Recorded(Reg!Released(copy.id), {}) /\ onDisk' = Len(rows')
           /\ \A m \in reg.mail : m.id = copy.id => Reg!Copy(m) = copy
  <2>1. Does(Reg!Released(copy.id), {})
          /\ Reg!Released(copy.id).mail = {m \in reg.mail : m.id # copy.id}
    BY <1>2, ReleasedDoes
  <2>2. reg' = Reg!Released(copy.id) /\ disk' \in {disk, Reg!Snapshot(Reg!Released(copy.id))}
    BY <1>2 DEF Reg!Recorded
  <2> QED  BY <1>2, <2>1, <2>2
<1> QED  BY <1>1, <1>2 DEF Reg!Landed, Reg!files

LEMMA DeliverDoes ==
    ASSUME Base, NEW m \in reg.mail, Reg!Deliver(m)
    PROVE  /\ Up /\ UNCHANGED phase /\ begun' = begun
           /\ \E new : /\ Does(new, {}) /\ reg' = new /\ disk' \in {disk, Reg!Snapshot(new)}
                       /\ \/ new.mail = reg.mail
                          \/ /\ new.mail = {k \in reg.mail : k.id # m.id}
                             /\ onDisk' = Len(rows')
                             /\ rows' = Append(rows, Reg!Copy(m))
                                  \/ (rows' = rows /\ Reg!Stored(Reg!Copy(m)))
<1>1. Up /\ phase' = phase /\ begun' = begun
  BY DEF Reg!Deliver, Up, Reg!history
<1>2. Reg!Copy(m).id = m.id
  BY DEF Reg!Copy
<1>3. CASE /\ disk' \in {disk, Reg!Snapshot(reg)}
           /\ UNCHANGED <<reg, recovery, endedFile>>
  BY <1>1, <1>3, StillDoes
<1>4. CASE Reg!Landed(Reg!Copy(m))
             /\ (rows' = Append(rows, Reg!Copy(m)) \/ (rows' = rows /\ Reg!Stored(Reg!Copy(m))))
  BY <1>1, <1>2, <1>4, LandedDoes
<1> QED  BY <1>3, <1>4 DEF Reg!Deliver, Reg!files

LEMMA ReplayDoes ==
    ASSUME Base, NEW copy \in kept, Reg!Replay(copy)
    PROVE  /\ Up /\ UNCHANGED phase /\ begun' = begun
           /\ \E new : /\ Does(new, {}) /\ reg' = new /\ disk' \in {disk, Reg!Snapshot(new)}
                       /\ \/ new.mail = reg.mail
                          \/ /\ new.mail = {m \in reg.mail : m.id # copy.id}
                             /\ onDisk' = Len(rows')
                             /\ \A m \in reg.mail : m.id = copy.id => Reg!Copy(m) = copy
<1>1. Up /\ phase' = phase /\ begun' = begun /\ Reg!Landed(copy)
  BY DEF Reg!Replay, Reg!Free, Up, Reg!history
<1> QED  BY <1>1, LandedDoes

(* The steps that leave the registry alone.                                 *)
LEMMA RestDoes ==
    ASSUME Base, \/ Reg!StoreRefuses \/ UNCHANGED Reg!vars
                 \/ \E p \in Reg!Name : Reg!TellInterrupted(p)
    PROVE  /\ UNCHANGED phase /\ begun' = begun /\ UNCHANGED <<reg, Reg!files>>
           /\ Does(reg, {})
<1>1. UNCHANGED <<phase, begun>> /\ UNCHANGED <<reg, Reg!files>>
  BY DEF Reg!StoreRefuses, Reg!TellInterrupted, Reg!vars, Reg!history, Reg!files
<1> QED  BY <1>1, StillDoes DEF Reg!files

-----------------------------------------------------------------------------
(* A boot's end, a crash, a restart.                                        *)

(* What the end of the boot's settlement does: those let go of are in the   *)
(* ended log by then.                                                       *)
Lets(done, some) ==
    /\ some \subseteq done /\ done \subseteq reg.pending
    /\ reg' = [reg EXCEPT !.pending = @ \ some]
    /\ recovery' = recovery \cup done
    /\ disk' \in {disk, Reg!Snapshot(reg')}
    /\ \/ endedFile' = endedFile
       \/ recovery \subseteq endedFile' /\ endedFile' \subseteq recovery \cup done
    /\ some \subseteq endedFile'

LEMMA SettleDoes ==
    ASSUME Base, Reg!SettleInterrupted
    PROVE  /\ Up /\ phase' = "up" /\ begun' = begun
           /\ \E done, some : Lets(done, some)
           /\ UNCHANGED <<reg, Reg!files>> \/ onDisk' = Len(rows)
<1>1. Up /\ phase' = "up" /\ begun' = begun
  BY DEF Reg!SettleInterrupted, Up
<1>2. reg \in Reg!Registry
  BY DEF Base, RegTyped
<1>3. CASE UNCHANGED <<reg, Reg!files>>
  <2>1. reg = [reg EXCEPT !.pending = @ \ {}]
    BY <1>2 DEF Reg!Registry
  <2>2. Lets({}, {})
    BY <1>3, <2>1 DEF Lets, Reg!files
  <2> QED  BY <1>1, <1>3, <2>2
<1>4. CASE Reg!LetsGo /\ onDisk' = Len(rows)
  <2>1. PICK done \in SUBSET reg.pending :
          /\ recovery' = recovery \cup done
          /\ LET new == [reg EXCEPT !.pending = @ \ done] IN
               \/ /\ reg' = new
                  /\ disk' = Reg!Snapshot(new)
                  /\ endedFile' = IF done = {} THEN endedFile ELSE recovery'
                  /\ UNCHANGED faults
               \/ /\ Reg!Fault
                  /\ \E some \in SUBSET done :
                       /\ reg' = [reg EXCEPT !.pending = @ \ some]
                       /\ disk' \in {disk, Reg!Snapshot(reg')}
                       /\ \E more \in SUBSET done :
                            endedFile' \in {endedFile, recovery \cup some \cup more}
                       /\ some # {} => some \subseteq endedFile'
    BY <1>4 DEF Reg!LetsGo
  <2>2. CASE /\ reg' = [reg EXCEPT !.pending = @ \ done]
             /\ disk' = Reg!Snapshot([reg EXCEPT !.pending = @ \ done])
             /\ endedFile' = IF done = {} THEN endedFile ELSE recovery'
    <3>1. Lets(done, done)
      BY <2>1, <2>2 DEF Lets
    <3> QED  BY <1>1, <1>4, <3>1
  <2>3. CASE \E some \in SUBSET done :
                       /\ reg' = [reg EXCEPT !.pending = @ \ some]
                       /\ disk' \in {disk, Reg!Snapshot(reg')}
                       /\ \E more \in SUBSET done :
                            endedFile' \in {endedFile, recovery \cup some \cup more}
                       /\ some # {} => some \subseteq endedFile'
    <3>1. PICK some \in SUBSET done :
                       /\ reg' = [reg EXCEPT !.pending = @ \ some]
                       /\ disk' \in {disk, Reg!Snapshot(reg')}
                       /\ \E more \in SUBSET done :
                            endedFile' \in {endedFile, recovery \cup some \cup more}
                       /\ some # {} => some \subseteq endedFile'
      BY <2>3
    <3>2. endedFile' = endedFile
            \/ (recovery \subseteq endedFile' /\ endedFile' \subseteq recovery \cup done)
      BY <3>1
    <3>3. some \subseteq endedFile'
      BY <3>1
    <3>4. Lets(done, some)
      BY <2>1, <3>1, <3>2, <3>3 DEF Lets
    <3> QED  BY <1>1, <1>4, <3>4
  <2> QED  BY <2>1, <2>2, <2>3
<1> QED  BY <1>3, <1>4 DEF Reg!SettleInterrupted, Reg!files

LEMMA LetsFields ==
    ASSUME Base, NEW done, NEW some, Lets(done, some)
    PROVE  /\ reg' \in Reg!Registry /\ reg'.live = reg.live /\ reg'.awaiting = reg.awaiting
           /\ reg'.pending = reg.pending \ some /\ reg'.ended = reg.ended
           /\ reg'.numbers = reg.numbers /\ reg'.mail = reg.mail
           /\ AllOf(reg') = AllOf(reg) /\ Filed(reg') \subseteq Filed(reg)
<1>1. reg \in Reg!Registry
  BY DEF Base, RegTyped
<1>2. /\ reg' \in Reg!Registry /\ reg'.live = reg.live /\ reg'.awaiting = reg.awaiting
      /\ reg'.pending = reg.pending \ some /\ reg'.ended = reg.ended
      /\ reg'.numbers = reg.numbers /\ reg'.mail = reg.mail
  BY <1>1 DEF Lets, Reg!Registry
<1>3. reg.pending \subseteq reg.ended
  BY DEF Base, Placed
<1> QED  BY <1>2, <1>3 DEF AllOf, Filed

LEMMA LetsKeeps ==
    ASSUME Base, Up, NEW done, NEW some, Lets(done, some)
    PROVE  /\ recovery' \subseteq Reg!Record /\ endedFile' \subseteq Reg!Record
           /\ disk' \in [records : SUBSET Reg!Record, numbers : [Reg!Name -> Nat],
                mail : SUBSET Reg!Mail]
           /\ Numbered' /\ Placed'
<1>1. reg \in Reg!Registry /\ reg' \in Reg!Registry
  BY LetsFields DEF Base, RegTyped
<1>2. done \subseteq Reg!Record /\ recovery \subseteq Reg!Record
        /\ endedFile \subseteq Reg!Record
  BY <1>1 DEF Lets, Reg!Registry, Base, RegTyped
<1>3. recovery' \subseteq Reg!Record /\ endedFile' \subseteq Reg!Record
  BY <1>2 DEF Lets
<1>4. disk' \in [records : SUBSET Reg!Record, numbers : [Reg!Name -> Nat],
        mail : SUBSET Reg!Mail]
  BY <1>1, SnapshotOf DEF Lets, Base, RegTyped
<1>5. disk' = disk
        \/ (disk'.records = Filed(reg')
             /\ \A r \in AllOf(reg') : disk'.numbers[r.name] = reg'.numbers[r.name])
  <2>1. Reg!Snapshot(reg').records = Filed(reg')
    BY <1>1, SnapshotOf
  <2>2. \A r \in AllOf(reg') : Reg!Snapshot(reg').numbers[r.name] = reg'.numbers[r.name]
    BY <1>1, SnapshotOf
  <2>3. disk' = disk \/ disk' = Reg!Snapshot(reg')
    BY DEF Lets
  <2> QED  BY <2>1, <2>2, <2>3
<1>6. \A r \in AllOf(reg) : r.number <= reg.numbers[r.name] /\ r.number <= disk.numbers[r.name]
  BY DEF Base, Numbered
<1>7. \A r \in AllOf(reg) : r.number <= disk'.numbers[r.name]
  BY <1>5, <1>6, LetsFields
<1>8. Filed(reg') \subseteq AllOf(reg) /\ done \subseteq AllOf(reg)
        /\ recovery \subseteq AllOf(reg)
  BY LetsFields DEF AllOf, Filed, Lets, Base, Placed
<1>9. \A r \in disk'.records : r.number <= disk'.numbers[r.name]
  BY <1>5, <1>7, <1>8 DEF Base, Numbered
<1>10. \A r \in endedFile' : r.number <= disk'.numbers[r.name]
  <2>1. ASSUME NEW r \in endedFile PROVE r.number <= disk'.numbers[r.name]
    <3>1. Reg!Key(r) \in Reg!Keys(AllOf(reg))
      BY Keys2, EndedIsKnown DEF Base, Reg!Keys
    <3>2. PICK s \in AllOf(reg) : s.name = r.name /\ s.number = r.number
      BY <3>1, SameKey
    <3> QED  BY <1>7, <3>2
  <2> QED  BY <1>7, <1>8, <2>1 DEF Lets
<1>11. Numbered'
  BY <1>6, <1>7, <1>9, <1>10, LetsFields DEF Numbered
<1>12. OneKey(disk'.records)
  <2>1. OneKey(Filed(reg)) /\ OneKey(disk.records) /\ Filed(reg') \subseteq Filed(reg)
    BY FiledOnce, LetsFields DEF Base, Placed
  <2>2. disk'.records \in {disk.records, Filed(reg')}
    BY <1>5
  <2> QED  BY <2>1, <2>2 DEF OneKey
<1>13. reg'.pending \subseteq disk'.records
  BY <1>5, LetsFields DEF Base, Placed, Filed
<1>14. Reg!Keys(endedFile') \subseteq Reg!Keys(recovery' \cup reg'.pending \cup reg'.live)
  <2>1. Reg!Keys(recovery') = Reg!Keys(recovery) \cup Reg!Keys(done)
    BY Keys2 DEF Lets
  <2>2. Reg!Keys(endedFile)
          \subseteq Reg!Keys(recovery) \cup Reg!Keys(reg.pending) \cup Reg!Keys(reg.live)
    BY Keys3 DEF Base, Placed
  <2>3. Reg!Keys(reg.pending) \subseteq Reg!Keys(done) \cup Reg!Keys(reg'.pending)
    <3>1. Reg!Keys(reg.pending) \subseteq Reg!Keys(done \cup reg'.pending)
      BY KeysOf, LetsFields DEF Lets
    <3> QED  BY <3>1, Keys2
  <2>4. endedFile' = endedFile \/ Reg!Keys(endedFile') \subseteq Reg!Keys(recovery')
    BY KeysOf DEF Lets
  <2>5. Reg!Keys(endedFile')
          \subseteq Reg!Keys(recovery') \cup Reg!Keys(reg'.pending) \cup Reg!Keys(reg'.live)
    BY <2>1, <2>2, <2>3, <2>4, LetsFields
  <2> QED  BY <2>5, Keys3
<1>15. recovery' \subseteq reg'.ended
  BY LetsFields DEF Lets, Base, Placed
<1>16. Placed'
  <2>1. OneKey(reg'.awaiting \cup reg'.pending)
    <3>1. reg'.awaiting \cup reg'.pending \subseteq reg.awaiting \cup reg.pending
      BY LetsFields
    <3>2. OneKey(reg.awaiting \cup reg.pending)
      BY DEF Base, Placed
    <3> QED  BY <3>1, <3>2 DEF OneKey
  <2>2. OneName(reg'.live) /\ \A r \in reg'.live, a \in reg'.awaiting : r.name # a.name
    BY LetsFields DEF Base, Placed
  <2>3. /\ \A r \in reg'.pending, s \in reg'.ended : Reg!Key(r) = Reg!Key(s) => r = s
        /\ \A r \in reg'.live, s \in reg'.ended : Reg!Key(r) # Reg!Key(s)
    BY LetsFields DEF Base, Placed
  <2>4. /\ \A r \in reg'.awaiting : r.name \in Resident
        /\ \A r \in reg'.pending : r.name \in Task
        /\ reg'.pending \subseteq reg'.ended
    BY LetsFields DEF Base, Placed
  <2> QED  BY <1>12, <1>13, <1>14, <1>15, <2>1, <2>2, <2>3, <2>4 DEF Placed
<1> QED  BY <1>3, <1>4, <1>11, <1>16

LEMMA CrashKeeps ==
    ASSUME Base, Reg!Crash
    PROVE  RegTyped' /\ Numbered' /\ Placed'
<1>1. /\ reg' = Reg!Empty /\ recovery' = {} /\ phase' = "down"
      /\ UNCHANGED <<disk, endedFile, begun, moves>>
  BY DEF Reg!Crash, Reg!history
<1>2. /\ Reg!Empty \in Reg!Registry /\ AllOf(Reg!Empty) = {} /\ Reg!Empty.live = {}
           /\ Reg!Empty.awaiting = {}
      /\ Reg!Empty.pending = {} /\ Reg!Empty.ended = {}
  BY DEF Reg!Empty, Reg!Registry, AllOf, Filed
<1>3. RegTyped'
  BY <1>1, <1>2 DEF Base, RegTyped
<1>4. Numbered'
  BY <1>1, <1>2 DEF Base, Numbered, Up
<1>5. Placed'
  BY <1>1, <1>2 DEF Base, Placed, Up, OneKey, OneName
<1> QED  BY <1>3, <1>4, <1>5

(* Tasks on file that the ended log does not have, and the others.          *)
FiledTasks == {r \in disk.records : r.name \in Task}
Interrupted == {r \in FiledTasks : Reg!Key(r) \notin Reg!Keys(endedFile)}

LEMMA RestoreFields ==
    ASSUME Base, Reg!Restore
    PROVE  /\ reg' \in Reg!Registry /\ reg'.live = {}
                /\ reg'.awaiting = disk.records \ FiledTasks
           /\ reg'.pending = Interrupted /\ reg'.ended = endedFile \cup Interrupted
           /\ reg'.numbers = disk.numbers /\ reg'.mail = disk.mail
           /\ disk' \in {disk, Reg!Snapshot(reg')} /\ recovery' = endedFile
           /\ phase = "down" /\ phase' \in {"declaring", "failed"}
           /\ UNCHANGED <<endedFile, begun, moves>>
<1> DEFINE tasks == {r \in disk.records : r.name \in Task}
           gone == {r \in tasks : Reg!Key(r) \in Reg!Keys(endedFile)}
           new == [live |-> {}, awaiting |-> disk.records \ tasks,
                   pending |-> tasks \ gone,
                   ended |-> endedFile \cup (tasks \ gone),
                   numbers |-> disk.numbers, mail |-> disk.mail]
<1>1. reg' = new /\ disk' \in {disk, Reg!Snapshot(new)} /\ recovery' = endedFile
  BY DEF Reg!Restore
<1>2. tasks = FiledTasks /\ tasks \ gone = Interrupted
  BY DEF FiledTasks, Interrupted
<1>3. phase = "down" /\ phase' \in {"declaring", "failed"} /\ UNCHANGED <<endedFile, begun, moves>>
  BY DEF Reg!Restore, Reg!history
<1>4. Interrupted \subseteq Reg!Record /\ disk.records \ FiledTasks \subseteq Reg!Record
  BY DEF Interrupted, FiledTasks, Base, RegTyped
<1> HIDE DEF tasks, gone
<1>5. new \in Reg!Registry
  BY <1>2, <1>4 DEF Base, RegTyped, Reg!Registry
<1> QED  BY <1>1, <1>2, <1>3, <1>5

LEMMA RestoreKeeps ==
    ASSUME Base, Reg!Restore
    PROVE  RegTyped' /\ Numbered' /\ Placed'
<1>1. /\ reg' \in Reg!Registry /\ reg'.live = {} /\ reg'.awaiting = disk.records \ FiledTasks
      /\ reg'.pending = Interrupted /\ reg'.ended = endedFile \cup Interrupted
      /\ reg'.numbers = disk.numbers /\ disk' \in {disk, Reg!Snapshot(reg')}
           /\ recovery' = endedFile
      /\ phase' \in {"declaring", "failed"} /\ UNCHANGED <<endedFile, begun, moves>>
  BY RestoreFields
<1>2. Interrupted \subseteq disk.records /\ FiledTasks \subseteq disk.records
  BY DEF Interrupted, FiledTasks
<1>3. AllOf(reg') \subseteq disk.records \cup endedFile /\ Filed(reg') \subseteq disk.records
  BY <1>1, <1>2 DEF AllOf, Filed
<1>4. disk' = disk
        \/ (disk'.records = Filed(reg')
             /\ \A r \in AllOf(reg') : disk'.numbers[r.name] = reg'.numbers[r.name])
  BY <1>1, SnapshotOf
<1>5. disk' \in [records : SUBSET Reg!Record, numbers : [Reg!Name -> Nat],
        mail : SUBSET Reg!Mail]
  BY <1>1, SnapshotOf DEF Base, RegTyped
<1>6. RegTyped'
  BY <1>1, <1>5 DEF Base, RegTyped
<1>7. \A r \in AllOf(reg') : r.number <= reg'.numbers[r.name]
  BY <1>1, <1>3 DEF Base, Numbered
<1>8. Numbered'
  <2>1. \A r \in AllOf(reg') : r.number <= disk'.numbers[r.name]
    BY <1>1, <1>4, <1>7
  <2>2. disk' = disk \/ disk'.records \cup endedFile \subseteq AllOf(reg')
    BY <1>1, <1>4 DEF AllOf
  <2>3. \A r \in disk'.records \cup endedFile' : r.number <= disk'.numbers[r.name]
    BY <1>1, <2>1, <2>2 DEF Base, Numbered
  <2> QED  BY <1>7, <2>1, <2>3 DEF Numbered
<1>9. OneKey(disk'.records) /\ OneKey(reg'.awaiting \cup reg'.pending)
  BY <1>1, <1>2, <1>3, <1>4 DEF Base, Placed, OneKey
<1>10. \A r \in reg'.awaiting : r.name \in Resident
  <2>1. disk.records \subseteq Reg!Record
    BY DEF Base, RegTyped
  <2> QED  BY <1>1, <2>1 DEF FiledTasks, Reg!Record, Reg!Name
<1>11. \A r \in reg'.pending : r.name \in Task /\ Reg!Key(r) \notin Reg!Keys(endedFile)
  BY <1>1 DEF Interrupted, FiledTasks
<1>12. \A r \in reg'.pending, s \in reg'.ended : Reg!Key(r) = Reg!Key(s) => r = s
  <2> SUFFICES ASSUME NEW r \in Interrupted,
                      NEW s \in endedFile \cup Interrupted, Reg!Key(r) = Reg!Key(s) PROVE r = s
    BY <1>1
  <2>1. s \in Interrupted
    BY <1>1, <1>11 DEF Reg!Keys
  <2> QED  BY <1>2, <2>1 DEF Base, Placed, OneKey
<1>13. reg'.pending \subseteq disk'.records
  BY <1>1, <1>2, <1>4 DEF Filed
<1>14. Reg!Keys(endedFile') \subseteq Reg!Keys(recovery' \cup reg'.pending \cup reg'.live)
  BY <1>1, Keys3
<1>15. Placed'
  BY <1>1, <1>9, <1>10, <1>11, <1>12, <1>13, <1>14 DEF Placed, OneName
<1> QED  BY <1>6, <1>8, <1>15

-----------------------------------------------------------------------------
(* The rows.                                                                *)

LEMMA CopyIs ==
    ASSUME NEW m \in Reg!Mail
    PROVE  /\ Reg!Copy(m) \in Reg!Row /\ Reg!Copy(m).what = "mail" /\ Reg!Copy(m).id = m.id
           /\ Reg!Copy(m).to = m.to /\ Reg!Copy(m).from = m.from /\ Reg!Copy(m).kind = m.kind
           /\ m.id \in 1..MaxMail /\ m.to \in Reg!Name
BY DEF Reg!Copy, Reg!Mail, Reg!Row

LEMMA AppendRow ==
    ASSUME NEW L \in Seq(Reg!Row), NEW row \in Reg!Row
    PROVE  /\ Append(L, row) \in Seq(Reg!Row) /\ Len(Append(L, row)) = Len(L) + 1
           /\ Append(L, row)[Len(L) + 1] = row
           /\ \A i \in 1..Len(L) : Append(L, row)[i] = L[i]
           /\ DOMAIN L = 1..Len(L) /\ DOMAIN Append(L, row) = 1..(Len(L) + 1)
           /\ Len(L) \in Nat
OBVIOUS

(* One row more, of which the disk may have all.                            *)
Grows(row) ==
    /\ row \in Reg!Row /\ rows' = Append(rows, row)
    /\ onDisk' \in {onDisk, Len(rows')}
Stays == rows' = rows /\ onDisk' \in {onDisk, Len(rows)}

(* Those the disk has stay.                                                 *)
Persist ==
    /\ rows' \in Seq(Reg!Row) /\ onDisk' \in 0..Len(rows') /\ onDisk <= onDisk'
    /\ \A i \in 1..onDisk : i \in 1..onDisk' /\ rows'[i] = rows[i]

LEMMA GrowsPersists == ASSUME StoresTyped, NEW row, Grows(row) PROVE Persist
<1>1. /\ rows \in Seq(Reg!Row) /\ onDisk \in 0..Len(rows) /\ Len(rows) \in Nat
      /\ Len(rows') = Len(rows) + 1 /\ rows' \in Seq(Reg!Row)
      /\ \A i \in 1..Len(rows) : rows'[i] = rows[i]
  BY AppendRow DEF StoresTyped, Grows
<1>2. onDisk' \in 0..Len(rows') /\ onDisk <= onDisk'
  BY <1>1 DEF Grows
<1> QED  BY <1>1, <1>2 DEF Persist

LEMMA StaysPersists == ASSUME StoresTyped, Stays PROVE Persist
<1>1. rows \in Seq(Reg!Row) /\ onDisk \in 0..Len(rows) /\ Len(rows) \in Nat
  BY DEF StoresTyped
<1> QED  BY <1>1 DEF Persist, Stays

LEMMA CrashPersists ==
    ASSUME StoresTyped, Reg!Crash
    PROVE  /\ Persist /\ Len(rows') \in 0..Len(rows)
           /\ \A i \in 1..Len(rows') : rows'[i] = rows[i]
<1>1. rows \in Seq(Reg!Row) /\ onDisk \in 0..Len(rows) /\ Len(rows) \in Nat
  BY DEF StoresTyped
<1>2. PICK n \in onDisk..Len(rows) : rows' = SubSeq(rows, 1, n) /\ onDisk' = n
  BY DEF Reg!Crash
<1>3. n \in 0..Len(rows)
  BY <1>1
<1>4. rows' \in Seq(Reg!Row) /\ Len(rows') = n /\ \A i \in 1..n : rows'[i] = rows[i]
  BY <1>1, <1>2, <1>3
<1> QED  BY <1>1, <1>2, <1>3, <1>4 DEF Persist

LEMMA DeliverRows ==
    ASSUME Base, NEW m \in reg.mail, Reg!Deliver(m)
    PROVE  /\ \/ Stays /\ kept' \in {kept, kept \cup {Reg!Copy(m)}}
              \/ Grows(Reg!Copy(m)) /\ kept' = kept /\ ~(checks /\ Reg!Stored(Reg!Copy(m)))
           /\ (kept' # kept => ~(checks /\ Reg!Stored(Reg!Copy(m))) /\ m.to \in Reg!Live
                               /\ UNCHANGED <<reg, Reg!files, rows, onDisk>>)
           /\ todo' = todo \ {m.id} /\ checks' = checks /\ m.id \in todo /\ moves' = moves
<1>1. Reg!Copy(m) \in Reg!Row
  BY CopyIs DEF Base, RegTyped, Reg!Registry
<1>2. todo' = todo \ {m.id} /\ checks' = checks /\ m.id \in todo /\ moves' = moves
  BY DEF Reg!Deliver, Reg!history
<1>3. CASE UNCHANGED Reg!stores
  BY <1>2, <1>3 DEF Reg!stores, Stays
<1>4. CASE UNCHANGED <<rows, kept>> /\ Reg!Landed(Reg!Copy(m))
  BY <1>2, <1>4 DEF Reg!Landed, Stays
<1>5. CASE rows' = Append(rows, Reg!Copy(m)) /\ Reg!Landed(Reg!Copy(m)) /\ UNCHANGED kept
             /\ ~(checks /\ Reg!Stored(Reg!Copy(m)))
  BY <1>1, <1>2, <1>5 DEF Reg!Landed, Grows
<1>6. CASE kept' = kept \cup {Reg!Copy(m)} /\ UNCHANGED <<reg, Reg!files, rows, onDisk>>
             /\ m.to \in Reg!Live
           /\ ~(checks /\ Reg!Stored(Reg!Copy(m)))
  BY <1>2, <1>6 DEF Stays
<1> QED  BY <1>3, <1>4, <1>5, <1>6 DEF Reg!Deliver

LEMMA ReplayRows ==
    ASSUME Base, NEW copy \in kept, Reg!Replay(copy)
    PROVE  Grows(copy) /\ kept' = kept \ {copy} /\ todo = {} /\ todo' = {} /\ moves' = moves
             /\ checks' = checks
<1>1. copy \in Reg!Row /\ rows' = Append(rows, copy) /\ Reg!Landed(copy)
  BY DEF Reg!Replay, Base, StoresTyped
<1>2. kept' = kept \ {copy} /\ todo = {} /\ todo' = {} /\ moves' = moves /\ checks' = checks
  BY DEF Reg!Replay, Reg!Free, Reg!history
<1> QED  BY <1>1, <1>2 DEF Reg!Landed, Grows

(* The notice a boot tells p with.                                          *)
NoticeTo(p) == [what |-> "notice", of |-> Reg!Keys({r \in Reg!ToTell : r.to = p}), to |-> p]

LEMMA TellRows ==
    ASSUME Base, NEW p \in Reg!Name, Reg!TellInterrupted(p)
    PROVE  Grows(NoticeTo(p)) /\ UNCHANGED <<kept, todo, checks, moves, phase, reg, Reg!files>>
<1>1. rows' = Append(rows, NoticeTo(p)) /\ onDisk' = onDisk
  BY DEF Reg!TellInterrupted, NoticeTo
<1>2. reg.pending \subseteq Reg!Record
  BY DEF Base, RegTyped, Reg!Registry
<1>3. Reg!Keys({r \in Reg!ToTell : r.to = p}) \subseteq Reg!Name \X Nat
  BY <1>2 DEF Reg!Keys, Reg!Key, Reg!ToTell, Reg!Record
<1>4. NoticeTo(p) \in Reg!Row
  BY <1>3 DEF NoticeTo, Reg!Row
<1> QED  BY <1>1, <1>4 DEF Reg!TellInterrupted, Grows, Reg!history

LEMMA SettleRows ==
    ASSUME Base, Reg!SettleInterrupted
    PROVE  /\ Stays /\ kept' = kept /\ checks' = TRUE /\ moves' = moves
           /\ todo' = {m.id : m \in reg.mail} /\ todo' \subseteq 1..MaxMail
<1>1. todo' = {m.id : m \in reg.mail} /\ reg.mail \subseteq Reg!Mail
  BY DEF Reg!SettleInterrupted, Base, RegTyped, Reg!Registry
<1>2. todo' \subseteq 1..MaxMail
  BY <1>1 DEF Reg!Mail
<1> QED  BY <1>1, <1>2 DEF Reg!SettleInterrupted, Stays

LEMMA RequestRows ==
    ASSUME Base, \/ \E n \in Task, s \in Reg!Name, follows \in BOOLEAN : Reg!Spawn(n, s, follows)
                 \/ \E n \in Reg!Name : Reg!RunEnds(n) \/ Reg!StopAgent(n)
                 \/ \E n, p \in Reg!Name : Reg!Reparent(n, p) \/ Reg!HoldMail(n, p)
                 \/ Reg!StoreRefuses \/ Reg!Restore \/ Reg!Reconcile \/ UNCHANGED Reg!vars
                 \/ \E p \in Resident : Reg!Declare(p)
    PROVE  Stays /\ kept' \subseteq kept
<1>1. ASSUME NEW n \in Task, NEW s \in Reg!Name, NEW follows \in BOOLEAN, Reg!Spawn(n, s, follows)
      PROVE  UNCHANGED <<rows, onDisk>> /\ kept' \subseteq kept
  BY <1>1 DEF Reg!Spawn, Reg!stores
<1>2. ASSUME NEW n \in Reg!Name, Reg!RunEnds(n)
      PROVE  UNCHANGED <<rows, onDisk>> /\ kept' \subseteq kept
  BY <1>2 DEF Reg!RunEnds, Reg!KeptWithout
<1>3. ASSUME NEW n \in Reg!Name, Reg!StopAgent(n)
      PROVE  UNCHANGED <<rows, onDisk>> /\ kept' \subseteq kept
  BY <1>3 DEF Reg!StopAgent, Reg!KeptWithout
<1>4. ASSUME NEW n \in Reg!Name, NEW p \in Reg!Name, Reg!Reparent(n, p)
      PROVE  UNCHANGED <<rows, onDisk>> /\ kept' \subseteq kept
  BY <1>4 DEF Reg!Reparent, Reg!stores
<1>5. ASSUME NEW n \in Reg!Name, NEW p \in Reg!Name, Reg!HoldMail(n, p)
      PROVE  UNCHANGED <<rows, onDisk>> /\ kept' \subseteq kept
  BY <1>5 DEF Reg!HoldMail, Reg!stores
<1>6. ASSUME NEW p \in Resident, Reg!Declare(p)
      PROVE  UNCHANGED <<rows, onDisk>> /\ kept' \subseteq kept
  BY <1>6 DEF Reg!Declare, Reg!stores
<1>7. CASE Reg!StoreRefuses
  BY <1>7 DEF Reg!StoreRefuses, Reg!stores, Stays
<1>8. CASE Reg!Restore
  BY <1>8 DEF Reg!Restore, Reg!stores, Stays
<1>9. CASE Reg!Reconcile
  BY <1>9 DEF Reg!Reconcile, Reg!stores, Stays
<1>10. CASE UNCHANGED Reg!vars
  BY <1>10 DEF Reg!vars, Stays
<1>11. CASE UNCHANGED <<rows, onDisk>> /\ kept' \subseteq kept
  BY <1>11 DEF Stays
<1> QED  BY <1>1, <1>2, <1>3, <1>4, <1>5, <1>6, <1>7, <1>8, <1>9, <1>10, <1>11

LEMMA Persists == ASSUME Base, [Reg!Next]_(Reg!vars) PROVE Persist
<1>1. CASE Reg!Crash
  BY <1>1, CrashPersists DEF Base
<1>2. ASSUME NEW m \in reg.mail, Reg!Deliver(m) PROVE Persist
  BY <1>2, DeliverRows, StaysPersists, GrowsPersists DEF Base
<1>3. ASSUME NEW copy \in kept, Reg!Replay(copy) PROVE Persist
  BY <1>3, ReplayRows, GrowsPersists DEF Base
<1>4. ASSUME NEW p \in Reg!Name, Reg!TellInterrupted(p) PROVE Persist
  BY <1>4, TellRows, GrowsPersists DEF Base
<1>5. CASE Reg!SettleInterrupted
  BY <1>5, SettleRows, StaysPersists DEF Base
<1> QED  BY <1>1, <1>2, <1>3, <1>4, <1>5, RequestRows, StaysPersists DEF Reg!Next, Base

LEMMA StoresTypedStep == ASSUME Base, [Reg!Next]_(Reg!vars) PROVE StoresTyped'
<1>1. rows' \in Seq(Reg!Row) /\ onDisk' \in 0..Len(rows')
  BY Persists DEF Persist
<1>2. reg.mail \subseteq Reg!Mail
  BY DEF Base, RegTyped, Reg!Registry
<1>3. kept' \subseteq Reg!Row
  <2>1. ASSUME NEW m \in reg.mail, Reg!Deliver(m) PROVE kept' \subseteq Reg!Row
    BY <1>2, <2>1, DeliverRows, CopyIs DEF Base, StoresTyped
  <2>2. ASSUME NEW copy \in kept, Reg!Replay(copy) PROVE kept' \subseteq Reg!Row
    BY <2>2, ReplayRows DEF Base, StoresTyped
  <2>3. ASSUME NEW p \in Reg!Name, Reg!TellInterrupted(p) PROVE kept' \subseteq Reg!Row
    BY <2>3, TellRows DEF Base, StoresTyped
  <2>4. CASE Reg!SettleInterrupted
    BY <2>4, SettleRows DEF Base, StoresTyped
  <2>5. CASE Reg!Crash
    BY <2>5 DEF Reg!Crash
  <2> QED  BY <2>1, <2>2, <2>3, <2>4, <2>5, RequestRows DEF Reg!Next, Base, StoresTyped
<1>4. todo' \subseteq 1..MaxMail /\ checks' \in BOOLEAN
  <2>0. todo \subseteq 1..MaxMail /\ checks \in BOOLEAN
    BY DEF Base, StoresTyped
  <2>1. ASSUME NEW n \in Task, NEW s \in Reg!Name,
               NEW follows \in BOOLEAN, Reg!Spawn(n, s, follows)
        PROVE  todo' \subseteq 1..MaxMail /\ checks' \in BOOLEAN
    BY <1>2, <2>0, <2>1 DEF Reg!Spawn, Reg!Mail
  <2>2. ASSUME NEW n \in Reg!Name, Reg!RunEnds(n) \/ Reg!StopAgent(n)
        PROVE  todo' \subseteq 1..MaxMail /\ checks' \in BOOLEAN
    BY <2>0, <2>2 DEF Reg!RunEnds, Reg!StopAgent
  <2>3. ASSUME NEW n \in Reg!Name, NEW p \in Reg!Name, Reg!Reparent(n, p)
        PROVE  todo' \subseteq 1..MaxMail /\ checks' \in BOOLEAN
    BY <1>2, <2>0, <2>3 DEF Reg!Reparent, Reg!Undeliverable, Reg!Mail
  <2>4. ASSUME NEW n \in Reg!Name, NEW p \in Reg!Name, Reg!HoldMail(n, p)
        PROVE  todo' \subseteq 1..MaxMail /\ checks' \in BOOLEAN
    <3>1. NewMail(n, p).id \in 1..MaxMail
      BY <2>4, HoldMailDoes DEF Reg!Unused
    <3>2. todo' = {NewMail(n, p).id} \/ todo' = todo
      BY <2>4 DEF Reg!HoldMail, NewMail
    <3>3. checks' \in {FALSE, checks}
      BY <2>4 DEF Reg!HoldMail
    <3> QED  BY <2>0, <3>1, <3>2, <3>3
  <2>5. ASSUME NEW m \in reg.mail, Reg!Deliver(m)
        PROVE  todo' \subseteq 1..MaxMail /\ checks' \in BOOLEAN
    BY <2>0, <2>5, DeliverRows
  <2>6. ASSUME NEW copy \in kept, Reg!Replay(copy)
        PROVE  todo' \subseteq 1..MaxMail /\ checks' \in BOOLEAN
    BY <2>0, <2>6, ReplayRows
  <2>7. CASE Reg!SettleInterrupted
    BY <2>7, SettleRows
  <2>8. CASE Reg!StoreRefuses \/ Reg!Crash \/ Reg!Restore \/ Reg!Reconcile \/ UNCHANGED Reg!vars
    BY <2>0, <2>8 DEF Reg!StoreRefuses, Reg!Crash, Reg!Restore, Reg!Reconcile, Reg!vars
  <2>9. ASSUME NEW p \in Reg!Name, Reg!TellInterrupted(p) \/ (p \in Resident /\ Reg!Declare(p))
        PROVE  todo' \subseteq 1..MaxMail /\ checks' \in BOOLEAN
    BY <2>0, <2>9 DEF Reg!TellInterrupted, Reg!Declare
  <2> QED  BY <2>1, <2>2, <2>3, <2>4, <2>5, <2>6, <2>7, <2>8, <2>9 DEF Reg!Next, Reg!Name
<1> QED  BY <1>1, <1>3, <1>4 DEF StoresTyped

-----------------------------------------------------------------------------
(* Every step keeps types, numbers and places.                              *)

(* The steps of a process that runs, but for the end of its boot.           *)
Acts ==
    \/ \E n \in Task, s \in Reg!Name, follows \in BOOLEAN : Reg!Spawn(n, s, follows)
    \/ \E n \in Reg!Name : Reg!RunEnds(n) \/ Reg!StopAgent(n)
    \/ \E n, p \in Reg!Name : Reg!Reparent(n, p)
    \/ \E n, to \in Reg!Name : Reg!HoldMail(n, to)
    \/ \E m \in reg.mail : Reg!Deliver(m)
    \/ Reg!StoreRefuses
    \/ \E copy \in kept : Reg!Replay(copy)
    \/ \E p \in Resident : Reg!Declare(p)
    \/ Reg!Reconcile
    \/ \E p \in Reg!Name : Reg!TellInterrupted(p)

LEMMA ActsDo ==
    ASSUME Base, Acts
    PROVE  Up /\ Up' /\ \E new, ends : Does(new, ends)
<1>1. ASSUME NEW n \in Task, NEW s \in Reg!Name,
             NEW follows \in BOOLEAN, Reg!Spawn(n, s, follows)
      PROVE  Up /\ Up' /\ \E new, ends : Does(new, ends)
  BY <1>1, SpawnDoes DEF Up
<1>2. ASSUME NEW n \in Reg!Name, Reg!RunEnds(n) \/ Reg!StopAgent(n)
      PROVE  Up /\ Up' /\ \E new, ends : Does(new, ends)
  BY <1>2, RunEndsDoes, StopAgentDoes DEF Up
<1>3. ASSUME NEW n \in Reg!Name, NEW p \in Reg!Name, Reg!Reparent(n, p) \/ Reg!HoldMail(n, p)
      PROVE  Up /\ Up' /\ \E new, ends : Does(new, ends)
  BY <1>3, ReparentDoes, HoldMailDoes DEF Up
<1>4. ASSUME NEW m \in reg.mail, Reg!Deliver(m)
      PROVE  Up /\ Up' /\ \E new, ends : Does(new, ends)
  BY <1>4, DeliverDoes DEF Up
<1>5. ASSUME NEW copy \in kept, Reg!Replay(copy)
      PROVE  Up /\ Up' /\ \E new, ends : Does(new, ends)
  BY <1>5, ReplayDoes DEF Up
<1>6. CASE Reg!Reconcile
  <2>1. phase' \in {"telling", "failed"}
    BY <1>6 DEF Reg!Reconcile
  <2> QED  BY <1>6, <2>1, ReconcileDoes DEF Up
<1>7. ASSUME NEW p \in Resident, Reg!Declare(p)
      PROVE  Up /\ Up' /\ \E new, ends : Does(new, ends)
  BY <1>7, DeclareDoes DEF Up
<1>8. CASE Reg!StoreRefuses
  BY <1>8, RestDoes DEF Reg!StoreRefuses, Up
<1>9. ASSUME NEW p \in Reg!Name, Reg!TellInterrupted(p)
      PROVE  Up /\ Up' /\ \E new, ends : Does(new, ends)
  BY <1>9, RestDoes DEF Reg!TellInterrupted, Up
<1> QED  BY <1>1, <1>2, <1>3, <1>4, <1>5, <1>6, <1>7, <1>8, <1>9 DEF Acts

(* The next step is one of those, or the boot's end, a crash, a restart.    *)
LEMMA Steps == ASSUME [Reg!Next]_(Reg!vars)
               PROVE  Acts \/ Reg!SettleInterrupted \/ Reg!Crash \/ Reg!Restore
                        \/ UNCHANGED Reg!vars
BY DEF Reg!Next, Acts

LEMMA HistoryTyped ==
    ASSUME Base, [Reg!Next]_(Reg!vars)
    PROVE  /\ phase' \in {"down", "declaring", "telling", "up", "failed"}
           /\ begun' \subseteq Reg!Record /\ moves' \in [1..MaxMail -> Nat]
<1>1. phase' \in {"down", "declaring", "telling", "up", "failed"}
  <2> DEFINE Stage == {"down", "declaring", "telling", "up", "failed"}
  <2>1. phase \in Stage
    BY DEF Base, RegTyped
  <2> HIDE DEF Stage
  <2>2. ASSUME NEW n \in Task, NEW s \in Reg!Name, NEW follows \in BOOLEAN, Reg!Spawn(n, s, follows)
        PROVE  phase' = phase
    BY <2>2 DEF Reg!Spawn
  <2>3. ASSUME NEW n \in Reg!Name, Reg!RunEnds(n) PROVE phase' = phase
    BY <2>3 DEF Reg!RunEnds
  <2>4. ASSUME NEW n \in Reg!Name, Reg!StopAgent(n) PROVE phase' = phase
    BY <2>4 DEF Reg!StopAgent
  <2>5. ASSUME NEW n \in Reg!Name, NEW p \in Reg!Name, Reg!Reparent(n, p) PROVE phase' = phase
    BY <2>5 DEF Reg!Reparent
  <2>6. ASSUME NEW n \in Reg!Name, NEW to \in Reg!Name, Reg!HoldMail(n, to) PROVE phase' = phase
    BY <2>6 DEF Reg!HoldMail
  <2>7. ASSUME NEW m \in reg.mail, Reg!Deliver(m) PROVE phase' = phase
    BY <2>7 DEF Reg!Deliver
  <2>8. ASSUME NEW copy \in kept, Reg!Replay(copy) PROVE phase' = phase
    BY <2>8 DEF Reg!Replay
  <2>9. ASSUME NEW p \in Resident, Reg!Declare(p) PROVE phase' \in {phase, "failed"}
    BY <2>9 DEF Reg!Declare
  <2>10. ASSUME NEW p \in Reg!Name, Reg!TellInterrupted(p) PROVE phase' = phase
    BY <2>10 DEF Reg!TellInterrupted
  <2>11. CASE Reg!StoreRefuses
    BY <2>1, <2>11 DEF Reg!StoreRefuses, Stage
  <2>12. CASE Reg!Reconcile
    BY <2>12 DEF Reg!Reconcile
  <2>13. CASE Reg!SettleInterrupted
    BY <2>13, SettleDoes
  <2>14. CASE Reg!Crash
    BY <2>14 DEF Reg!Crash
  <2>15. CASE Reg!Restore
    BY <2>15 DEF Reg!Restore
  <2>16. CASE phase' = phase
    BY <2>1, <2>16 DEF Stage
  <2>17. CASE UNCHANGED Reg!vars
    BY <2>16, <2>17 DEF Reg!vars
  <2>18. CASE Acts
    BY <2>2, <2>3, <2>4, <2>5, <2>6, <2>7, <2>8, <2>9, <2>10, <2>11, <2>12, <2>16, <2>18 DEF Acts
  <2> QED  BY <2>13, <2>14, <2>15, <2>17, <2>18, Steps
<1>2. begun' \subseteq Reg!Record
  <2>1. ASSUME NEW n \in Task, NEW s \in Reg!Name,
               NEW follows \in BOOLEAN, Reg!Spawn(n, s, follows)
        PROVE  begun' \subseteq Reg!Record
    BY <2>1, SpawnDoes DEF Base, RegTyped
  <2>2. begun' = begun
          \/ \E n \in Task, s \in Reg!Name, follows \in BOOLEAN : Reg!Spawn(n, s, follows)
    BY DEF Reg!Next, Reg!RunEnds, Reg!StopAgent, Reg!Reparent, Reg!HoldMail, Reg!Deliver,
           Reg!StoreRefuses, Reg!Replay, Reg!Crash, Reg!Restore, Reg!Declare, Reg!Reconcile,
           Reg!TellInterrupted, Reg!SettleInterrupted, Reg!vars, Reg!history
  <2> QED  BY <2>1, <2>2 DEF Base, RegTyped
<1>3. moves' \in [1..MaxMail -> Nat]
  <2>1. ASSUME NEW n \in Reg!Name, NEW p \in Reg!Name, Reg!Reparent(n, p)
        PROVE  moves' \in [1..MaxMail -> Nat]
    <3>1. \A i \in 1..MaxMail : moves[i] \in Nat
      BY DEF Base, RegTyped
    <3> QED  BY <2>1, <3>1 DEF Reg!Reparent
  <2>2. ASSUME NEW n \in Reg!Name, NEW p \in Reg!Name, Reg!HoldMail(n, p)
        PROVE  moves' \in [1..MaxMail -> Nat]
    <3>1. moves' = [moves EXCEPT ![NewMail(n, p).id] = 1]
      BY <2>2 DEF Reg!HoldMail, NewMail
    <3> QED  BY <3>1 DEF Base, RegTyped
  <2>3. \/ moves' = moves \/ \E n, p \in Reg!Name : Reg!Reparent(n, p) \/ Reg!HoldMail(n, p)
    BY DEF Reg!Next, Reg!Spawn, Reg!RunEnds, Reg!StopAgent, Reg!Deliver, Reg!StoreRefuses,
           Reg!Replay, Reg!Crash, Reg!Restore, Reg!Declare, Reg!Reconcile, Reg!TellInterrupted,
           Reg!SettleInterrupted, Reg!vars, Reg!history
  <2> QED  BY <2>1, <2>2, <2>3 DEF Base, RegTyped
<1> QED  BY <1>1, <1>2, <1>3

LEMMA BaseStep == ASSUME Base, [Reg!Next]_(Reg!vars) PROVE Base'
<1>1. StoresTyped'
  BY StoresTypedStep
<1>2. CASE Acts
  <2>1. PICK new, ends : Does(new, ends)
    BY <1>2, ActsDo
  <2>2. Up /\ Change(new, ends) /\ Writes(new, ends)
    BY <1>2, <2>1, ActsDo DEF Does
  <2>3. RegTyped'
    BY <2>2, HistoryTyped, WritesTyped DEF Base, RegTyped
  <2>4. Numbered' /\ Placed'
    BY <2>2, WritesNumbered, WritesPlaced DEF Base
  <2> QED  BY <1>1, <2>3, <2>4 DEF Base
<1>3. CASE Reg!SettleInterrupted
  <2>1. PICK done, some : Lets(done, some)
    BY <1>3, SettleDoes
  <2>2. Up
    BY <1>3, SettleDoes
  <2>3. RegTyped'
    BY <2>1, <2>2, HistoryTyped, LetsFields, LetsKeeps DEF RegTyped
  <2> QED  BY <1>1, <2>1, <2>2, <2>3, LetsKeeps DEF Base
<1>4. CASE Reg!Crash
  BY <1>1, <1>4, CrashKeeps DEF Base
<1>5. CASE Reg!Restore
  BY <1>1, <1>5, RestoreKeeps DEF Base
<1>6. CASE UNCHANGED Reg!vars
  BY <1>6 DEF Base, RegTyped, StoresTyped, Numbered, Placed, Up, Reg!vars
<1> QED  BY <1>2, <1>3, <1>4, <1>5, <1>6, Steps

LEMMA BaseInit == ASSUME Reg!Init PROVE Base
<1> DEFINE first(p) == [name |-> p, number |-> 1, spawner |-> NoAgent, orphan |-> FALSE,
                        follows |-> FALSE, to |-> NoAgent]
           live == {first(p) : p \in Resident}
           numbers == [n \in Reg!Name |-> IF n \in Resident THEN 1 ELSE 0]
<1>1. /\ Reg!Resting.live = live /\ Reg!Resting.awaiting = {} /\ Reg!Resting.pending = {}
           /\ Reg!Resting.ended = {}
      /\ Reg!Resting.numbers = numbers /\ Reg!Resting.mail = {}
  BY DEF Reg!Resting, Reg!Empty
<1>2. \A p \in Resident : first(p) \in Reg!Record /\ first(p).name = p /\ first(p).number = 1
  BY DEF Reg!Record, Reg!Name
<1>3. numbers \in [Reg!Name -> Nat] /\ \A p \in Resident : numbers[p] = 1
  BY DEF Reg!Name
<1>4. Reg!Resting = [live |-> live, awaiting |-> {}, pending |-> {}, ended |-> {},
                 numbers |-> numbers, mail |-> {}]
  <2> DEFINE none == [n \in Reg!Name |-> 0]
  <2>1. Reg!Empty = [live |-> {}, awaiting |-> {}, pending |-> {}, ended |-> {}, numbers |-> none,
          mail |-> {}]
    BY DEF Reg!Empty
  <2>2. Reg!Resting = [Reg!Empty EXCEPT !.live = live, !.numbers = numbers]
    BY DEF Reg!Resting
  <2> HIDE DEF live, numbers, none
  <2> QED  BY <2>1, <2>2
<1> HIDE DEF first
<1>5. \A r \in live : r \in Reg!Record /\ r.name \in Resident /\ r.number = 1
  BY <1>2
<1>6. OneName(live)
  BY <1>2 DEF OneName
<1> HIDE DEF live, numbers
<1>7. Reg!Resting \in Reg!Registry
  BY <1>3, <1>4, <1>5 DEF Reg!Registry
<1>8. AllOf(Reg!Resting) = live /\ Filed(Reg!Resting) = live
  BY <1>1 DEF AllOf, Filed
<1>9. /\ phase = "up" /\ reg = Reg!Resting /\ recovery = {} /\ endedFile = {}
           /\ disk = Reg!Snapshot(Reg!Resting)
      /\ rows = <<>> /\ onDisk = 0 /\ kept = {} /\ todo = {} /\ checks = FALSE
      /\ begun = {} /\ moves = [i \in 1..MaxMail |-> 0]
  BY DEF Reg!Init
<1>10. RegTyped
  BY <1>7, <1>9, SnapshotOf DEF RegTyped
<1>11. StoresTyped
  <2>1. <<>> \in Seq(Reg!Row) /\ Len(<<>>) = 0 /\ 0 \in 0..0
    OBVIOUS
  <2> QED  BY <1>9, <2>1 DEF StoresTyped
<1>12. \A r \in live : r.number <= numbers[r.name] /\ r.number <= disk.numbers[r.name]
  BY <1>1, <1>3, <1>5, <1>7, <1>8, <1>9, SnapshotOf
<1>13. disk.records = live
  BY <1>7, <1>8, <1>9, SnapshotOf
<1>14. Numbered
  BY <1>1, <1>8, <1>9, <1>12, <1>13 DEF Numbered
<1>15. OneKey(live)
  BY <1>6 DEF OneKey, OneName, Reg!Key
<1>16. Reg!Keys({}) = {}
  BY DEF Reg!Keys
<1>17. Placed
  BY <1>1, <1>6, <1>9, <1>13, <1>15, <1>16 DEF Placed, OneKey
<1> QED  BY <1>10, <1>11, <1>14, <1>17 DEF Base

-----------------------------------------------------------------------------
(* Mail: what is held, on file, kept and stored.                            *)

Ids(M) == \A m, k \in M : m.id = k.id => m = k

(* Held mail is on file, at whatever address.                               *)
MailCovers(D, M) == \A m \in M : \E k \in D : k.id = m.id /\ k.from = m.from /\ k.kind = m.kind

Mailed == Ids(reg.mail) /\ Ids(disk.mail) /\ MailCovers(disk.mail, reg.mail)

(* A copy, or the mail itself, has that address somewhere.                  *)
InHand(id, to) ==
    \/ \E m \in reg.mail \cup disk.mail : m.id = id /\ m.to = to
    \/ \E c \in kept : c.id = id /\ c.to = to
    \/ \E i \in DOMAIN rows : rows[i].what = "mail" /\ rows[i].id = id /\ rows[i].to = to

(* An address that is anywhere was asked for, and so were two.              *)
Counted ==
    /\ \A id \in 1..MaxMail, to \in Reg!Name : InHand(id, to) => moves[id] > 0
    /\ \A id \in 1..MaxMail, to, o \in Reg!Name :
         InHand(id, to) /\ InHand(id, o) /\ to # o => moves[id] > 1

(* Copies are kept for live agents, by a process that is up.                *)
KeptLive ==
    /\ todo # {} \/ kept # {} => phase = "up"
    /\ \A c \in kept : c.what = "mail" /\ c.to \in Reg!Live

(* A kept copy is in no store yet, and a mail of the running call has       *)
(* neither, unless the call looks.                                          *)
Landing ==
    /\ \A c \in kept : Reg!Stored(c) => moves[c.id] > 2
    /\ \A m \in reg.mail : m.id \in todo /\ ~(moves[m.id] > 2) =>
         Reg!Copy(m) \notin kept /\ (~checks => ~Reg!Stored(Reg!Copy(m)))
    /\ Reg!LandsOnce

MailBase == Mailed /\ Counted /\ KeptLive

LEMMA AsksMail ==
    ASSUME Base, NEW new, new \in Reg!Registry, Asked(new)
    PROVE  \/ reg'.mail = new.mail /\ disk'.mail = new.mail
           \/ reg'.mail = reg.mail /\ disk'.mail \in {disk.mail, new.mail, reg.mail}
<1>1. reg \in Reg!Registry
  BY DEF Base, RegTyped
<1> QED  BY <1>1, SnapshotOf DEF Asked

(* Steps that leave the held mail alone, or release some.                   *)
Releases(id) ==
    \/ reg'.mail = reg.mail /\ disk'.mail \in {disk.mail, reg.mail}
    \/ /\ reg'.mail = {m \in reg.mail : m.id # id}
       /\ disk'.mail \in {disk.mail, reg'.mail}

LEMMA DoesMail ==
    ASSUME Base, NEW new, NEW ends, Does(new, ends), new.mail = reg.mail
    PROVE  reg'.mail = reg.mail /\ disk'.mail \in {disk.mail, reg.mail}
<1>1. reg \in Reg!Registry /\ new \in Reg!Registry
  BY DEF Base, RegTyped, Does, Change
<1> QED  BY <1>1, SnapshotOf DEF Does, Writes

LEMMA SpawnMail ==
    ASSUME Base, NEW n \in Task, NEW s \in Reg!Name,
           NEW follows \in BOOLEAN, Reg!Spawn(n, s, follows)
    PROVE  reg'.mail = reg.mail /\ disk'.mail \in {disk.mail, reg.mail}
BY SpawnDoes, DoesMail

LEMMA PlainMail ==
    ASSUME Base, \/ \E n \in Reg!Name : Reg!RunEnds(n) \/ Reg!StopAgent(n)
                 \/ \E p \in Resident : Reg!Declare(p)
                 \/ Reg!Reconcile \/ Reg!StoreRefuses \/ UNCHANGED Reg!vars
                      \/ Reg!SettleInterrupted
                 \/ \E p \in Reg!Name : Reg!TellInterrupted(p)
    PROVE  reg'.mail = reg.mail /\ disk'.mail \in {disk.mail, reg.mail}
<1>1. ASSUME NEW n \in Reg!Name, Reg!RunEnds(n) \/ Reg!StopAgent(n)
      PROVE  reg'.mail = reg.mail /\ disk'.mail \in {disk.mail, reg.mail}
  BY <1>1, RunEndsDoes, StopAgentDoes, DoesMail
<1>2. ASSUME NEW p \in Resident, Reg!Declare(p)
      PROVE  reg'.mail = reg.mail /\ disk'.mail \in {disk.mail, reg.mail}
  BY <1>2, DeclareDoes, DoesMail
<1>3. CASE Reg!Reconcile
  BY <1>3, ReconcileDoes, DoesMail
<1>4. CASE Reg!StoreRefuses \/ UNCHANGED Reg!vars \/ \E p \in Reg!Name : Reg!TellInterrupted(p)
  BY <1>4, RestDoes DEF Reg!files
<1>5. CASE Reg!SettleInterrupted
  <2>1. PICK done, some : Lets(done, some)
    BY <1>5, SettleDoes
  <2>2. reg' \in Reg!Registry /\ reg'.mail = reg.mail
    BY <2>1, LetsFields
  <2> QED  BY <2>1, <2>2, SnapshotOf DEF Lets
<1> QED  BY <1>1, <1>2, <1>3, <1>4, <1>5

LEMMA DeliverMail ==
    ASSUME Base, NEW m \in reg.mail, Reg!Deliver(m)
    PROVE  Releases(m.id)
<1>1. PICK new : /\ Does(new, {}) /\ reg' = new /\ disk' \in {disk, Reg!Snapshot(new)}
                 /\ new.mail = reg.mail \/ new.mail = {k \in reg.mail : k.id # m.id}
  BY DeliverDoes
<1>2. new \in Reg!Registry
  BY <1>1 DEF Does, Change
<1> QED  BY <1>1, <1>2, SnapshotOf DEF Releases

LEMMA ReplayMail ==
    ASSUME Base, NEW copy \in kept, Reg!Replay(copy)
    PROVE  Releases(copy.id)
<1>1. PICK new : /\ Does(new, {}) /\ reg' = new /\ disk' \in {disk, Reg!Snapshot(new)}
                 /\ new.mail = reg.mail \/ new.mail = {k \in reg.mail : k.id # copy.id}
  BY ReplayDoes
<1>2. new \in Reg!Registry
  BY <1>1 DEF Does, Change
<1> QED  BY <1>1, <1>2, SnapshotOf DEF Releases

LEMMA ReparentMail ==
    ASSUME Base, NEW n \in Reg!Name, NEW p \in Reg!Name, Reg!Reparent(n, p)
    PROVE  LET new == Reg!Readdressed(n, p) IN
           \/ reg'.mail = new /\ disk'.mail = new
           \/ reg'.mail = reg.mail /\ disk'.mail \in {disk.mail, new, reg.mail}
<1>1. PICK new : Does(new, {}) /\ new.mail = Reg!Readdressed(n, p) /\ Asked(new)
  BY ReparentDoes
<1>2. new \in Reg!Registry
  BY <1>1 DEF Does, Change
<1> QED  BY <1>1, <1>2, AsksMail

LEMMA HoldMailMail ==
    ASSUME Base, NEW n \in Reg!Name, NEW to \in Reg!Name, Reg!HoldMail(n, to)
    PROVE  LET new == reg.mail \cup {NewMail(n, to)} IN
           \/ reg'.mail = new /\ disk'.mail = new
           \/ reg'.mail = reg.mail /\ disk'.mail \in {disk.mail, new, reg.mail}
<1>1. PICK new : Does(new, {}) /\ new.mail = reg.mail \cup {NewMail(n, to)} /\ Asked(new)
  BY HoldMailDoes
<1>2. new \in Reg!Registry
  BY <1>1 DEF Does, Change
<1> QED  BY <1>1, <1>2, AsksMail

LEMMA CrashRestoreMail ==
    ASSUME Base, Reg!Crash \/ Reg!Restore
    PROVE  disk'.mail = disk.mail /\ reg'.mail \in {{}, disk.mail}
             /\ (Reg!Restore => reg'.mail = disk.mail)
<1>1. CASE Reg!Crash /\ ~Reg!Restore
  BY <1>1 DEF Reg!Crash, Reg!Empty
<1>2. CASE Reg!Restore
  BY <1>2, RestoreFields, SnapshotOf
<1> QED  BY <1>1, <1>2

(* Mail readdressed has the ids it had.                                     *)
LEMMA ReaddressedMail ==
    ASSUME Base, Mailed, NEW n \in Reg!Name, NEW p \in Reg!Name
    PROVE  /\ Reg!Readdressed(n, p) \subseteq Reg!Mail
           /\ \A m \in reg.mail : \E k \in Reg!Readdressed(n, p) :
                k.id = m.id /\ k.from = m.from /\ k.kind = m.kind
           /\ \A k \in Reg!Readdressed(n, p) : \E m \in reg.mail :
                /\ k.id = m.id /\ k.from = m.from /\ k.kind = m.kind
                /\ (m \in Reg!Undeliverable(n) => k.to = p)
                     /\ (m \notin Reg!Undeliverable(n) => k = m)
           /\ Ids(Reg!Readdressed(n, p))
<1> DEFINE turned(m) == IF m \in Reg!Undeliverable(n) THEN [m EXCEPT !.to = p] ELSE m
<1>1. reg.mail \subseteq Reg!Mail
  BY DEF Base, RegTyped, Reg!Registry
<1>2. \A m \in reg.mail : /\ turned(m) \in Reg!Mail /\ turned(m).id = m.id /\ turned(m).from = m.from
                          /\ turned(m).kind = m.kind
                          /\ (m \in Reg!Undeliverable(n) => turned(m).to = p)
                          /\ (m \notin Reg!Undeliverable(n) => turned(m) = m)
  BY <1>1, ReaddressedIs
<1>3. Reg!Readdressed(n, p) = {turned(m) : m \in reg.mail}
  BY DEF Reg!Readdressed
<1> HIDE DEF turned
<1>4. \A m, k \in reg.mail : turned(m).id = turned(k).id => turned(m) = turned(k)
  BY <1>2 DEF Mailed, Ids
<1>5. Ids(Reg!Readdressed(n, p))
  BY <1>3, <1>4 DEF Ids
<1> QED  BY <1>2, <1>3, <1>5

(* The steps, by what they do to the mail.                                  *)
LEMMA MailSteps ==
    ASSUME Base, [Reg!Next]_(Reg!vars)
    PROVE  \/ \E n, p \in Reg!Name : Reg!Reparent(n, p)
           \/ \E n, to \in Reg!Name : Reg!HoldMail(n, to)
           \/ \E m \in reg.mail : Reg!Deliver(m)
           \/ \E copy \in kept : Reg!Replay(copy)
           \/ Reg!Crash \/ Reg!Restore
           \/ reg'.mail = reg.mail /\ disk'.mail \in {disk.mail, reg.mail}
BY SpawnMail, PlainMail DEF Reg!Next

LEMMA MailedStep == ASSUME Base, Mailed, Counted, [Reg!Next]_(Reg!vars) PROVE Mailed'
<1>1. ASSUME NEW id, Releases(id) PROVE Mailed'
  BY <1>1 DEF Releases, Mailed, Ids, MailCovers
<1>2. ASSUME NEW n \in Reg!Name, NEW p \in Reg!Name, Reg!Reparent(n, p) PROVE Mailed'
  <2> DEFINE new == Reg!Readdressed(n, p)
  <2>1. \/ reg'.mail = new /\ disk'.mail = new
        \/ reg'.mail = reg.mail /\ disk'.mail \in {disk.mail, new, reg.mail}
    BY <1>2, ReparentMail
  <2>2. Ids(new) /\ MailCovers(new, new) /\ MailCovers(new, reg.mail)
          /\ MailCovers(reg.mail, reg.mail)
    BY ReaddressedMail DEF MailCovers
  <2> HIDE DEF new
  <2> QED  BY <2>1, <2>2 DEF Mailed
<1>3. ASSUME NEW n \in Reg!Name, NEW to \in Reg!Name, Reg!HoldMail(n, to) PROVE Mailed'
  <2> DEFINE m == NewMail(n, to)
             new == reg.mail \cup {m}
  <2>1. \/ reg'.mail = new /\ disk'.mail = new
        \/ reg'.mail = reg.mail /\ disk'.mail \in {disk.mail, new, reg.mail}
    BY <1>3, HoldMailMail
  <2>2. m.id \in 1..MaxMail /\ moves[m.id] = 0
    BY <1>3, HoldMailDoes DEF Reg!Unused
  <2>3. \A k \in reg.mail : k.id # m.id
    <3> SUFFICES ASSUME NEW k \in reg.mail, k.id = m.id PROVE FALSE
      OBVIOUS
    <3>1. k.to \in Reg!Name
      BY DEF Base, RegTyped, Reg!Registry, Reg!Mail
    <3>2. InHand(m.id, k.to)
      BY DEF InHand
    <3> QED  BY <2>2, <3>1, <3>2 DEF Counted
  <2> HIDE DEF m
  <2>4. Ids(new) /\ MailCovers(new, new) /\ MailCovers(new, reg.mail)
          /\ MailCovers(reg.mail, reg.mail)
    BY <2>3 DEF Ids, MailCovers, Mailed
  <2> HIDE DEF new
  <2> QED  BY <2>1, <2>4 DEF Mailed
<1>4. CASE Reg!Crash \/ Reg!Restore
  <2>1. MailCovers(disk.mail, disk.mail) /\ MailCovers(disk.mail, {}) /\ Ids({})
    BY DEF MailCovers, Ids
  <2> QED  BY <1>4, <2>1, CrashRestoreMail DEF Mailed
<1>5. CASE reg'.mail = reg.mail /\ disk'.mail \in {disk.mail, reg.mail}
  <2>1. MailCovers(reg.mail, reg.mail)
    BY DEF MailCovers
  <2> QED  BY <1>5, <2>1 DEF Mailed
<1> QED  BY <1>1, <1>2, <1>3, <1>4, <1>5, MailSteps, DeliverMail, ReplayMail

-----------------------------------------------------------------------------
(* Addresses.                                                               *)

LEMMA StillInHand ==
    ASSUME Base, NEW id \in 1..MaxMail, NEW to \in Reg!Name,
           reg'.mail \cup disk'.mail \subseteq reg.mail \cup disk.mail,
           \A c \in kept' : c \in kept \/ InHand(c.id, c.to),
           \A i \in DOMAIN rows' : \/ rows'[i].what # "mail" \/ InHand(rows'[i].id, rows'[i].to)
                                   \/ i \in DOMAIN rows /\ rows'[i] = rows[i],
           InHand(id, to)'
    PROVE  InHand(id, to)
BY DEF InHand

LEMMA MailSubset ==
    ASSUME \/ reg'.mail = reg.mail /\ disk'.mail \in {disk.mail, reg.mail}
           \/ \E id : Releases(id)
    PROVE  reg'.mail \cup disk'.mail \subseteq reg.mail \cup disk.mail
BY DEF Releases

LEMMA StayRows ==
    ASSUME StoresTyped, Stays
    PROVE  \A i \in DOMAIN rows' : i \in DOMAIN rows /\ rows'[i] = rows[i]
BY DEF Stays

LEMMA GrowRows ==
    ASSUME StoresTyped, NEW row, Grows(row)
    PROVE  /\ \A i \in DOMAIN rows' : rows'[i] = row
                \/ (i \in DOMAIN rows /\ rows'[i] = rows[i])
           /\ \E i \in DOMAIN rows' : rows'[i] = row
           /\ \A i \in DOMAIN rows : i \in DOMAIN rows' /\ rows'[i] = rows[i]
           /\ \A i, j \in DOMAIN rows' : rows'[i] = rows'[j] /\ i # j =>
                \/ i \in DOMAIN rows /\ j \in DOMAIN rows /\ rows'[i] = rows[i]
                     /\ rows'[j] = rows[j]
                \/ Reg!Stored(row) /\ rows'[i] = row
<1>1. /\ rows \in Seq(Reg!Row) /\ row \in Reg!Row /\ rows' = Append(rows, row)
  BY DEF StoresTyped, Grows
<1>2. /\ Len(rows) \in Nat /\ DOMAIN rows = 1..Len(rows) /\ DOMAIN rows' = 1..(Len(rows) + 1)
      /\ rows'[Len(rows) + 1] = row /\ \A i \in 1..Len(rows) : rows'[i] = rows[i]
  BY <1>1, AppendRow
<1>3. \A i \in DOMAIN rows' : i = Len(rows) + 1 \/ (i \in DOMAIN rows /\ rows'[i] = rows[i])
  BY <1>2
<1>4. \A i \in DOMAIN rows : i \in DOMAIN rows' /\ rows'[i] = rows[i]
  BY <1>2
<1>5. Len(rows) + 1 \in DOMAIN rows'
  BY <1>2
<1>6. ASSUME NEW i \in DOMAIN rows', NEW j \in DOMAIN rows', rows'[i] = rows'[j], i # j
      PROVE  \/ i \in DOMAIN rows /\ j \in DOMAIN rows /\ rows'[i] = rows[i]
                  /\ rows'[j] = rows[j]
             \/ Reg!Stored(row) /\ rows'[i] = row
  BY <1>2, <1>3, <1>6 DEF Reg!Stored
<1> QED  BY <1>2, <1>3, <1>4, <1>5, <1>6

LEMMA HeldInHand ==
    ASSUME NEW m \in reg.mail PROVE InHand(Reg!Copy(m).id, Reg!Copy(m).to)
BY DEF InHand, Reg!Copy

LEMMA KeptInHand ==
    ASSUME KeptLive, NEW c \in kept PROVE InHand(c.id, c.to) /\ c.what = "mail"
BY DEF InHand, KeptLive

(* An address in hand was there before, or has just been asked for.         *)
LEMMA FreshOrHeld ==
    ASSUME Base, Mailed, KeptLive, [Reg!Next]_(Reg!vars), NEW id \in 1..MaxMail,
           NEW to \in Reg!Name, InHand(id, to)'
    PROVE  /\ \A n, p \in Reg!Name : Reg!Reparent(n, p) =>
                InHand(id, to) \/ (to = p /\ \E m \in Reg!Undeliverable(n) : m.id = id)
           /\ \A n, p \in Reg!Name : Reg!HoldMail(n, p) =>
                InHand(id, to) \/ (to = p /\ id = NewMail(n, p).id)
           /\ \/ InHand(id, to) \/ \E n, p \in Reg!Name : Reg!Reparent(n, p)
                   \/ Reg!HoldMail(n, p)
<1>1. ASSUME NEW m \in reg.mail, Reg!Deliver(m) PROVE InHand(id, to)
  <2>1. reg'.mail \cup disk'.mail \subseteq reg.mail \cup disk.mail
    BY <1>1, DeliverMail, MailSubset
  <2>2. InHand(Reg!Copy(m).id, Reg!Copy(m).to)
    BY HeldInHand
  <2>3. \A c \in kept' : c \in kept \/ InHand(c.id, c.to)
    BY <1>1, <2>2, DeliverRows
  <2>4. \A i \in DOMAIN rows' : rows'[i] = Reg!Copy(m)
          \/ (i \in DOMAIN rows /\ rows'[i] = rows[i])
    BY <1>1, DeliverRows, StayRows, GrowRows DEF Base
  <2> QED  BY <2>1, <2>2, <2>3, <2>4, StillInHand
<1>2. ASSUME NEW copy \in kept, Reg!Replay(copy) PROVE InHand(id, to)
  <2>1. reg'.mail \cup disk'.mail \subseteq reg.mail \cup disk.mail
    BY <1>2, ReplayMail, MailSubset
  <2>2. InHand(copy.id, copy.to)
    BY KeptInHand
  <2>3. \A c \in kept' : c \in kept
    BY <1>2, ReplayRows
  <2>4. \A i \in DOMAIN rows' : rows'[i] = copy \/ (i \in DOMAIN rows /\ rows'[i] = rows[i])
    BY <1>2, ReplayRows, GrowRows DEF Base
  <2> QED  BY <2>1, <2>2, <2>3, <2>4, StillInHand
<1>3. ASSUME NEW p \in Reg!Name, Reg!TellInterrupted(p) PROVE InHand(id, to)
  <2>1. reg'.mail \cup disk'.mail \subseteq reg.mail \cup disk.mail
    BY <1>3, PlainMail, MailSubset
  <2>2. NoticeTo(p).what # "mail"
    BY DEF NoticeTo
  <2>3. \A c \in kept' : c \in kept
    BY <1>3, TellRows
  <2>4. \A i \in DOMAIN rows' : rows'[i] = NoticeTo(p)
          \/ (i \in DOMAIN rows /\ rows'[i] = rows[i])
    BY <1>3, TellRows, GrowRows DEF Base
  <2> QED  BY <2>1, <2>2, <2>3, <2>4, StillInHand
<1>4. ASSUME NEW n \in Reg!Name, NEW p \in Reg!Name, Reg!Reparent(n, p)
      PROVE  InHand(id, to) \/ (to = p /\ \E m \in Reg!Undeliverable(n) : m.id = id)
  <2>1. Stays /\ kept' \subseteq kept
    BY <1>4, RequestRows
  <2>2. \A i \in DOMAIN rows' : i \in DOMAIN rows /\ rows'[i] = rows[i]
    BY <2>1, StayRows DEF Base
  <2>3. \A k \in reg'.mail \cup disk'.mail : \/ k \in reg.mail \cup disk.mail
                                             \/ k.to = p
                                                  /\ \E m \in Reg!Undeliverable(n) : m.id = k.id
    <3>1. \A k \in Reg!Readdressed(n, p) : \/ k \in reg.mail
                                           \/ k.to = p
                                                /\ \E m \in Reg!Undeliverable(n) : m.id = k.id
      <4> TAKE k \in Reg!Readdressed(n, p)
      <4>1. PICK m \in reg.mail :
              /\ k.id = m.id /\ (m \in Reg!Undeliverable(n) => k.to = p)
              /\ (m \notin Reg!Undeliverable(n) => k = m)
        BY ReaddressedMail
      <4> QED  BY <4>1
    <3>2. \A k \in reg'.mail \cup disk'.mail : k \in reg.mail \cup disk.mail \cup Reg!Readdressed(n, p)
      BY <1>4, ReparentMail
    <3> QED  BY <3>1, <3>2
  <2>4. CASE \E k \in reg'.mail \cup disk'.mail : k.id = id /\ k.to = to
    BY <1>4, <2>3, <2>4 DEF InHand
  <2>5. CASE ~ \E k \in reg'.mail \cup disk'.mail : k.id = id /\ k.to = to
    BY <2>1, <2>2, <2>5 DEF InHand
  <2> QED  BY <2>4, <2>5
<1>5. ASSUME NEW n \in Reg!Name, NEW p \in Reg!Name, Reg!HoldMail(n, p)
      PROVE  InHand(id, to) \/ (to = p /\ id = NewMail(n, p).id)
  <2>1. Stays /\ kept' \subseteq kept
    BY <1>5, RequestRows
  <2>2. \A i \in DOMAIN rows' : i \in DOMAIN rows /\ rows'[i] = rows[i]
    BY <2>1, StayRows DEF Base
  <2>3. \A k \in reg'.mail \cup disk'.mail : k \in reg.mail \cup disk.mail \/ k = NewMail(n, p)
    BY <1>5, HoldMailMail
  <2>4. CASE \E k \in reg'.mail \cup disk'.mail : k.id = id /\ k.to = to
    <3>1. NewMail(n, p).to = p
      BY DEF NewMail
    <3> QED  BY <1>5, <2>3, <2>4, <3>1 DEF InHand
  <2>5. CASE ~ \E k \in reg'.mail \cup disk'.mail : k.id = id /\ k.to = to
    BY <2>1, <2>2, <2>5 DEF InHand
  <2> QED  BY <2>4, <2>5
<1>6. CASE Reg!Crash
  <2>1. reg'.mail \cup disk'.mail \subseteq reg.mail \cup disk.mail /\ kept' = {}
    BY <1>6, CrashRestoreMail DEF Reg!Crash
  <2>2. \A i \in DOMAIN rows' : i \in DOMAIN rows /\ rows'[i] = rows[i]
    <3>1. /\ rows' \in Seq(Reg!Row) /\ rows \in Seq(Reg!Row) /\ Len(rows') \in 0..Len(rows)
          /\ \A i \in 1..Len(rows') : rows'[i] = rows[i]
      BY <1>6, CrashPersists DEF Base, StoresTyped, Persist
    <3> QED  BY <3>1
  <2> QED  BY <2>1, <2>2, StillInHand
<1>7. CASE \/ reg'.mail \cup disk'.mail \subseteq reg.mail \cup disk.mail
              /\ Stays /\ kept' \subseteq kept
  <2>1. \A i \in DOMAIN rows' : i \in DOMAIN rows /\ rows'[i] = rows[i]
    BY <1>7, StayRows DEF Base
  <2> QED  BY <1>7, <2>1, StillInHand
<1>8. CASE Reg!Restore
  BY <1>7, <1>8, RequestRows, CrashRestoreMail
<1>9. CASE \/ \E n \in Task, s \in Reg!Name, follows \in BOOLEAN : Reg!Spawn(n, s, follows)
           \/ \E n \in Reg!Name : Reg!RunEnds(n) \/ Reg!StopAgent(n)
           \/ \E p \in Resident : Reg!Declare(p)
           \/ Reg!Reconcile \/ Reg!StoreRefuses \/ UNCHANGED Reg!vars
  BY <1>7, <1>9, RequestRows, SpawnMail, PlainMail, MailSubset
<1>10. CASE Reg!SettleInterrupted
  BY <1>7, <1>10, SettleRows, PlainMail, MailSubset
<1> QED  BY <1>1, <1>2, <1>3, <1>4, <1>5, <1>6, <1>8, <1>9, <1>10 DEF Reg!Next

(* How the counts go.                                                       *)
LEMMA MovesGo ==
    ASSUME Base, [Reg!Next]_(Reg!vars), NEW id \in 1..MaxMail
    PROVE  /\ moves[id] \in Nat /\ moves'[id] \in Nat
           /\ moves[id] > 0 => moves'[id] >= moves[id]
           /\ moves'[id] = moves[id] \/ \E n, p \in Reg!Name : Reg!Reparent(n, p)
                \/ Reg!HoldMail(n, p)
           /\ \A n, p \in Reg!Name : Reg!Reparent(n, p) =>
                moves'[id] = IF \E m \in Reg!Undeliverable(n) : m.id = id THEN moves[id] + 1 ELSE moves[id]
           /\ \A n, p \in Reg!Name : Reg!HoldMail(n, p) =>
                IF id = NewMail(n, p).id THEN moves[id] = 0
                  /\ moves'[id] = 1 ELSE moves'[id] = moves[id]
<1>1. moves \in [1..MaxMail -> Nat] /\ moves[id] \in Nat
  BY DEF Base, RegTyped
<1>2. ASSUME NEW n \in Reg!Name, NEW p \in Reg!Name, Reg!Reparent(n, p)
      PROVE  moves'[id] = IF \E m \in Reg!Undeliverable(n) : m.id = id THEN moves[id] + 1 ELSE moves[id]
  BY <1>1, <1>2 DEF Reg!Reparent
<1>3. ASSUME NEW n \in Reg!Name, NEW p \in Reg!Name, Reg!HoldMail(n, p)
      PROVE  IF id = NewMail(n, p).id THEN moves[id] = 0
               /\ moves'[id] = 1 ELSE moves'[id] = moves[id]
  <2>1. moves' = [moves EXCEPT ![NewMail(n, p).id] = 1]
    BY <1>3 DEF Reg!HoldMail, NewMail
  <2>2. NewMail(n, p).id \in Reg!Unused
    BY <1>3, HoldMailDoes
  <2> QED  BY <1>1, <2>1, <2>2 DEF Reg!Unused
<1>4. moves' = moves \/ \E n, p \in Reg!Name : Reg!Reparent(n, p) \/ Reg!HoldMail(n, p)
  BY DEF Reg!Next, Reg!Spawn, Reg!RunEnds, Reg!StopAgent, Reg!Deliver, Reg!StoreRefuses,
         Reg!Replay, Reg!Crash, Reg!Restore, Reg!Declare, Reg!Reconcile, Reg!TellInterrupted,
         Reg!SettleInterrupted, Reg!vars, Reg!history
<1>5. moves[id] > 0 => moves'[id] >= moves[id]
  <2>1. ASSUME NEW n \in Reg!Name, NEW p \in Reg!Name, Reg!Reparent(n, p)
        PROVE  moves'[id] >= moves[id]
    BY <1>1, <1>2, <2>1
  <2>2. ASSUME NEW n \in Reg!Name, NEW p \in Reg!Name, Reg!HoldMail(n, p), moves[id] > 0
        PROVE  moves'[id] >= moves[id]
    BY <1>1, <1>3, <2>2
  <2>3. CASE moves' = moves
    BY <1>1, <2>3
  <2> QED  BY <1>4, <2>1, <2>2, <2>3
<1>6. moves'[id] \in Nat
  <2>1. ASSUME NEW n \in Reg!Name, NEW p \in Reg!Name, Reg!Reparent(n, p)
        PROVE  moves'[id] \in Nat
    BY <1>1, <1>2, <2>1
  <2>2. ASSUME NEW n \in Reg!Name, NEW p \in Reg!Name, Reg!HoldMail(n, p)
        PROVE  moves'[id] \in Nat
    BY <1>1, <1>3, <2>2
  <2> QED  BY <1>1, <1>4, <2>1, <2>2
<1> QED  BY <1>1, <1>2, <1>3, <1>4, <1>5, <1>6

LEMMA CountedStep == ASSUME Base, Mailed, Counted, KeptLive, [Reg!Next]_(Reg!vars)
                     PROVE  Counted'
<1> SUFFICES ASSUME NEW id \in 1..MaxMail, NEW to \in Reg!Name, NEW o \in Reg!Name,
                    InHand(id, to)', InHand(id, o)'
             PROVE  moves'[id] > 0 /\ (to # o => moves'[id] > 1)
  BY DEF Counted
<1>0. moves[id] \in Nat
  BY MovesGo
<1>1. CASE InHand(id, to) /\ InHand(id, o)
  <2>1. moves[id] > 0 /\ (to # o => moves[id] > 1)
    BY <1>1 DEF Counted
  <2>2. moves'[id] >= moves[id] /\ moves'[id] \in Nat
    BY <2>1, MovesGo
  <2> QED  BY <1>0, <2>1, <2>2
<1>2. ASSUME NEW n \in Reg!Name,
             NEW p \in Reg!Name, Reg!Reparent(n, p), ~(InHand(id, to) /\ InHand(id, o))
      PROVE  moves'[id] > 0 /\ (to # o => moves'[id] > 1)
  <2>1. PICK m \in Reg!Undeliverable(n) : m.id = id
    BY <1>2, FreshOrHeld
  <2>2. m.to \in Reg!Name /\ m \in reg.mail
    BY DEF Reg!Undeliverable, Base, RegTyped, Reg!Registry, Reg!Mail
  <2>3. moves[id] > 0
    BY <2>1, <2>2 DEF InHand, Counted
  <2>4. moves'[id] = moves[id] + 1
    BY <1>2, <2>1, MovesGo
  <2> QED  BY <1>0, <2>3, <2>4
<1>3. ASSUME NEW n \in Reg!Name,
             NEW p \in Reg!Name, Reg!HoldMail(n, p), ~(InHand(id, to) /\ InHand(id, o))
      PROVE  moves'[id] > 0 /\ (to # o => moves'[id] > 1)
  <2>1. id = NewMail(n, p).id
    BY <1>3, FreshOrHeld
  <2>2. moves[id] = 0 /\ moves'[id] = 1
    BY <1>3, <2>1, MovesGo
  <2>3. ~InHand(id, to) /\ ~InHand(id, o)
    BY <2>2 DEF Counted
  <2>4. to = p /\ o = p
    BY <1>3, <2>3, FreshOrHeld
  <2> QED  BY <2>2, <2>4
<1> QED  BY <1>1, <1>2, <1>3, FreshOrHeld

-----------------------------------------------------------------------------
(* Who is live.                                                             *)

LEMMA LiveStays ==
    ASSUME Base, \/ \E new : Does(new, {})
                 \/ \E done, some : Lets(done, some)
    PROVE  Reg!Live \subseteq Reg!Live'
<1>1. ASSUME NEW new, Does(new, {}) PROVE Reg!Live \subseteq Reg!Live'
  <2>1. Reg!Keys(reg.live) \subseteq Reg!Keys(new.live) /\ reg' \in {reg, new}
    BY <1>1, Keys2 DEF Does, Change, Writes
  <2>2. \A r \in reg.live : \E s \in reg'.live : s.name = r.name
    BY <2>1, SameKey DEF Reg!Keys
  <2> QED  BY <2>2 DEF Reg!Live, Reg!Names
<1>2. ASSUME NEW done, NEW some, Lets(done, some) PROVE Reg!Live \subseteq Reg!Live'
  BY <1>2, LetsFields DEF Reg!Live
<1> QED  BY <1>1, <1>2

LEMMA LiveWithout ==
    ASSUME Base, NEW gone, reg' = Reg!Without(gone)
    PROVE  \A n \in Reg!Live : n \in gone \/ n \in Reg!Live'
<1> SUFFICES ASSUME NEW r \in reg.live, r.name \notin gone
             PROVE  \E s \in reg'.live : s.name = r.name
  BY DEF Reg!Live, Reg!Names
<1> QED  BY WithoutFields DEF Base

LEMMA KeptLiveStep == ASSUME Base, KeptLive, [Reg!Next]_(Reg!vars) PROVE KeptLive'
<1>1. ASSUME NEW n \in Task, NEW s \in Reg!Name,
             NEW follows \in BOOLEAN, Reg!Spawn(n, s, follows) PROVE KeptLive'
  <2>1. phase' = "up" /\ kept' = kept
    BY <1>1 DEF Reg!Spawn, Reg!Free, Reg!stores
  <2> QED  BY <1>1, <2>1, SpawnDoes, LiveStays DEF KeptLive
<1>2. ASSUME NEW n \in Reg!Name, Reg!RunEnds(n) \/ Reg!StopAgent(n) PROVE KeptLive'
  <2> DEFINE gone == Reg!EndsWith(n)
  <2> HIDE DEF gone
  <2>1. /\ phase' = "up"
        /\ \/ reg' = Reg!Without(gone) /\ kept' = Reg!KeptWithout(gone)
           \/ reg' = reg /\ kept' = kept
    BY <1>2
       DEF Reg!RunEnds, Reg!StopAgent, Reg!Free, Reg!Recorded, Reg!Written, Reg!RolledBack, gone
  <2>2. CASE reg' = Reg!Without(gone) /\ kept' = Reg!KeptWithout(gone)
    BY <2>1, <2>2, LiveWithout DEF KeptLive, Reg!KeptWithout
  <2>3. CASE reg' = reg /\ kept' = kept
    BY <2>1, <2>3 DEF KeptLive, Reg!Live
  <2> QED  BY <2>1, <2>2, <2>3
<1>3. ASSUME NEW n \in Reg!Name, NEW p \in Reg!Name, Reg!Reparent(n, p) \/ Reg!HoldMail(n, p)
      PROVE  KeptLive'
  <2>1. phase' = "up" /\ kept' = kept
    BY <1>3 DEF Reg!Reparent, Reg!HoldMail, Reg!Free, Reg!stores
  <2>2. \E new : Does(new, {})
    BY <1>3, ReparentDoes, HoldMailDoes
  <2> QED  BY <2>1, <2>2, LiveStays DEF KeptLive
<1>4. ASSUME NEW m \in reg.mail, Reg!Deliver(m) PROVE KeptLive'
  <2>1. phase' = "up"
    BY <1>4 DEF Reg!Deliver
  <2>2. Reg!Copy(m).what = "mail" /\ Reg!Copy(m).to = m.to
    BY DEF Reg!Copy
  <2>3. Reg!Live \subseteq Reg!Live'
    BY <1>4, DeliverDoes, LiveStays
  <2>4. \A c \in kept' : c \in kept \/ (c = Reg!Copy(m) /\ m.to \in Reg!Live)
    BY <1>4, DeliverRows
  <2> QED  BY <2>1, <2>2, <2>3, <2>4 DEF KeptLive
<1>5. ASSUME NEW copy \in kept, Reg!Replay(copy) PROVE KeptLive'
  <2>1. phase' = "up"
    BY <1>5 DEF Reg!Replay, Reg!Free
  <2>2. Reg!Live \subseteq Reg!Live'
    BY <1>5, ReplayDoes, LiveStays
  <2> QED  BY <1>5, <2>1, <2>2, ReplayRows DEF KeptLive
<1>6. CASE Reg!SettleInterrupted
  <2>1. phase' = "up" /\ kept' = kept
    BY <1>6 DEF Reg!SettleInterrupted
  <2> QED  BY <1>6, <2>1, SettleDoes, LiveStays DEF KeptLive
<1>7. ASSUME NEW p \in Reg!Name, Reg!TellInterrupted(p) PROVE KeptLive'
  BY <1>7, TellRows DEF KeptLive, Reg!Live
<1>8. CASE Reg!StoreRefuses
  BY <1>8 DEF Reg!StoreRefuses, Reg!stores, KeptLive, Reg!Live
<1>9. CASE Reg!Crash
  BY <1>9 DEF Reg!Crash, KeptLive
<1>10. CASE Reg!Restore \/ Reg!Reconcile \/ \E p \in Resident : Reg!Declare(p)
  <2>1. phase # "up" /\ kept' = kept /\ todo' = todo
    BY <1>10 DEF Reg!Restore, Reg!Reconcile, Reg!Declare, Reg!stores
  <2> QED  BY <2>1 DEF KeptLive
<1>11. CASE UNCHANGED Reg!vars
  BY <1>11 DEF Reg!vars, KeptLive, Reg!Live
<1> QED  BY <1>1, <1>2, <1>3, <1>4, <1>5, <1>6, <1>7, <1>8, <1>9, <1>10, <1>11 DEF Reg!Next

-----------------------------------------------------------------------------
(* Mail reaches a recipient once.                                           *)

(* How a mail's count goes is all the exception asks.                       *)
Often(id) == moves[id] > 2

LEMMA OftenStays ==
    ASSUME Base, Counted, [Reg!Next]_(Reg!vars), NEW id \in 1..MaxMail, Often(id)
    PROVE  moves'[id] > 2
<1>1. moves[id] \in Nat /\ moves'[id] \in Nat /\ moves'[id] >= moves[id]
  BY MovesGo DEF Often
<1> QED  BY <1>1 DEF Often

LEMMA RowMail ==
    ASSUME StoresTyped
    PROVE  /\ \A i \in DOMAIN rows : rows[i].what = "mail" => rows[i].id \in 1..MaxMail
           /\ \A c \in kept : c.what = "mail" => c.id \in 1..MaxMail
BY DEF StoresTyped, Reg!Row

(* Where no row comes, a row that was twice stays the exception.            *)
LEMMA StaysOnce ==
    ASSUME Base, Counted, Landing, [Reg!Next]_(Reg!vars),
           \A i \in DOMAIN rows' : i \in DOMAIN rows /\ rows'[i] = rows[i]
    PROVE  Reg!LandsOnce'
<1> SUFFICES ASSUME NEW i \in DOMAIN rows', NEW j \in DOMAIN rows', rows'[i] = rows'[j],
                    rows'[i].what = "mail", i # j
             PROVE  moves'[rows'[i].id] > 2
  BY DEF Reg!LandsOnce
<1>1. i \in DOMAIN rows /\ j \in DOMAIN rows /\ rows[i] = rows[j] /\ rows'[i] = rows[i]
  OBVIOUS
<1>2. Often(rows[i].id) /\ rows[i].id \in 1..MaxMail
  BY <1>1, RowMail DEF Landing, Reg!LandsOnce, Often, Base
<1> QED  BY <1>1, <1>2, OftenStays

(* Where one comes that was not there, or is the exception.                 *)
LEMMA GrowsOnce ==
    ASSUME Base, Counted, Landing, [Reg!Next]_(Reg!vars), NEW row, Grows(row),
           row.what # "mail" \/ (Reg!Stored(row) => Often(row.id))
    PROVE  Reg!LandsOnce'
<1> SUFFICES ASSUME NEW i \in DOMAIN rows', NEW j \in DOMAIN rows', rows'[i] = rows'[j],
                    rows'[i].what = "mail", i # j
             PROVE  moves'[rows'[i].id] > 2
  BY DEF Reg!LandsOnce
<1>1. \/ i \in DOMAIN rows /\ j \in DOMAIN rows /\ rows'[i] = rows[i] /\ rows'[j] = rows[j]
      \/ Reg!Stored(row) /\ rows'[i] = row
  BY GrowRows DEF Base
<1>2. CASE i \in DOMAIN rows /\ j \in DOMAIN rows /\ rows'[i] = rows[i] /\ rows'[j] = rows[j]
  <2>1. Often(rows[i].id) /\ rows[i].id \in 1..MaxMail
    BY <1>2, RowMail DEF Landing, Reg!LandsOnce, Often, Base
  <2> QED  BY <1>2, <2>1, OftenStays
<1>3. CASE Reg!Stored(row) /\ rows'[i] = row
  <2>1. Often(row.id) /\ row.id \in 1..MaxMail
    <3>1. row.what = "mail" /\ row \in Reg!Row
      BY <1>3 DEF Grows
    <3> QED  BY <1>3, <3>1 DEF Reg!Row
  <2> QED  BY <1>3, <2>1, OftenStays
<1> QED  BY <1>1, <1>2, <1>3

LEMMA StoredStays ==
    ASSUME NEW c, \A i \in DOMAIN rows' : i \in DOMAIN rows
             /\ rows'[i] = rows[i], Reg!Stored(c)'
    PROVE  Reg!Stored(c)
BY DEF Reg!Stored

LEMMA StoredGrows ==
    ASSUME StoresTyped, NEW row, Grows(row), NEW c, Reg!Stored(c)'
    PROVE  Reg!Stored(c) \/ c = row
BY GrowRows DEF Reg!Stored

LEMMA CopyInHand ==
    ASSUME NEW m, KeptLive, Reg!Copy(m) \in kept \/ Reg!Stored(Reg!Copy(m))
    PROVE  InHand(m.id, m.to)
<1>1. Reg!Copy(m).what = "mail" /\ Reg!Copy(m).id = m.id /\ Reg!Copy(m).to = m.to
  BY DEF Reg!Copy
<1> QED  BY <1>1 DEF InHand, Reg!Stored

(* Kept copies, where no row comes.                                         *)
LEMMA KeptStays ==
    ASSUME Base, Counted, KeptLive, Landing, [Reg!Next]_(Reg!vars), kept' \subseteq kept,
           \A i \in DOMAIN rows' : i \in DOMAIN rows /\ rows'[i] = rows[i]
    PROVE  \A c \in kept' : Reg!Stored(c)' => moves'[c.id] > 2
<1> SUFFICES ASSUME NEW c \in kept, Reg!Stored(c)' PROVE moves'[c.id] > 2
  OBVIOUS
<1>1. Often(c.id)
  BY StoredStays DEF Landing, Often
<1>2. c.id \in 1..MaxMail
  BY RowMail DEF KeptLive, Base
<1> QED  BY <1>1, <1>2, OftenStays

(* What the invariant says of the running call's mail.                      *)
CallClear ==
    \A m \in reg.mail : m.id \in todo /\ ~Often(m.id) =>
         Reg!Copy(m) \notin kept /\ (~checks => ~Reg!Stored(Reg!Copy(m)))

LEMMA LandingIs == Landing <=> /\ \A c \in kept : Reg!Stored(c) => Often(c.id)
                               /\ CallClear /\ Reg!LandsOnce
BY DEF Landing, CallClear, Often

LEMMA SpawnClear ==
    ASSUME Base, Mailed, KeptLive, NEW n \in Task, NEW s \in Reg!Name, NEW follows \in BOOLEAN,
           Reg!Spawn(n, s, follows)
    PROVE  CallClear'
<1>1. todo' = {} \/ (todo' = {m.id : m \in {x \in reg.mail : x.to = n}} /\ checks' = TRUE)
  BY DEF Reg!Spawn, Reg!Free
<1>2. reg'.mail = reg.mail /\ kept' = kept /\ n \notin Reg!Live
  BY SpawnMail DEF Reg!Spawn, Reg!stores, Reg!Registrable
<1>3. CASE todo' = {}
  BY <1>3 DEF CallClear
<1>4. CASE todo' = {m.id : m \in {x \in reg.mail : x.to = n}} /\ checks' = TRUE
  <2> SUFFICES ASSUME NEW m \in reg.mail, m.id \in todo' PROVE Reg!Copy(m) \notin kept
    BY <1>2, <1>4 DEF CallClear
  <2>1. PICK k \in reg.mail : k.id = m.id /\ k.to = n
    BY <1>4
  <2>2. Reg!Copy(m).to = n
    BY <2>1 DEF Mailed, Ids, Reg!Copy
  <2> QED  BY <1>2, <2>2 DEF KeptLive
<1> QED  BY <1>1, <1>3, <1>4

LEMMA ReparentClear ==
    ASSUME Base, Mailed, Counted, KeptLive, NEW n \in Reg!Name,
           NEW p \in Reg!Name, Reg!Reparent(n, p), [Reg!Next]_(Reg!vars)
    PROVE  CallClear'
<1>1. \/ todo' = {}
      \/ /\ todo' = {m.id : m \in Reg!Undeliverable(n)}
         /\ reg'.mail = Reg!Readdressed(n, p)
  <2>1. todo = {}
    BY DEF Reg!Reparent, Reg!Free
  <2>2. CASE todo' = todo
    BY <2>1, <2>2
  <2>3. CASE todo' # todo
    <3> DEFINE new == [reg EXCEPT
                     !.live = {IF r.name = n THEN Reg!Adopted(r, p) ELSE r : r \in @},
                     !.mail = Reg!Readdressed(n, p)]
    <3>1. reg' = new /\ todo' = {m.id : m \in Reg!Undeliverable(n)}
      BY <2>3 DEF Reg!Reparent, Reg!Written
    <3>2. new.mail = Reg!Readdressed(n, p)
      BY DEF Base, RegTyped, Reg!Registry
    <3> QED  BY <3>1, <3>2
  <2> QED  BY <2>2, <2>3
<1>2. p \in Reg!Live /\ kept' = kept /\ rows' = rows
  BY DEF Reg!Reparent, Reg!stores
<1>3. CASE todo' = {}
  BY <1>3 DEF CallClear
<1>4. CASE todo' = {m.id : m \in Reg!Undeliverable(n)} /\ reg'.mail = Reg!Readdressed(n, p)
  <2> SUFFICES ASSUME NEW k \in Reg!Readdressed(n, p), k.id \in todo', ~(moves'[k.id] > 2)
               PROVE  Reg!Copy(k) \notin kept /\ ~Reg!Stored(Reg!Copy(k))
    BY <1>2, <1>4 DEF CallClear, Often, Reg!Stored
  <2>1. PICK m \in Reg!Undeliverable(n) : m.id = k.id
    BY <1>4
  <2>2. PICK o \in reg.mail : k.id = o.id /\ (o \in Reg!Undeliverable(n) => k.to = p)
    BY ReaddressedMail
  <2>3. o = m /\ k.to = p /\ m.to \notin Reg!Live /\ m \in reg.mail
    BY <2>1, <2>2 DEF Mailed, Ids, Reg!Undeliverable
  <2>4. m.id \in 1..MaxMail /\ m.to \in Reg!Name /\ m.to # p
    BY <1>2, <2>3 DEF Base, RegTyped, Reg!Registry, Reg!Mail
  <2>5. moves'[m.id] = moves[m.id] + 1 /\ moves[m.id] \in Nat
    BY <2>1, <2>4, MovesGo
  <2>6. InHand(m.id, m.to)
    BY <2>3 DEF InHand
  <2>7. ~InHand(m.id, p)
    BY <2>1, <2>4, <2>5, <2>6 DEF Counted
  <2> QED  BY <2>1, <2>3, <2>7, CopyInHand
<1> QED  BY <1>1, <1>3, <1>4

LEMMA HoldMailClear ==
    ASSUME Base, Mailed, Counted, KeptLive, NEW n \in Reg!Name,
           NEW p \in Reg!Name, Reg!HoldMail(n, p), [Reg!Next]_(Reg!vars)
    PROVE  CallClear'
<1> DEFINE m == NewMail(n, p)
<1>1. todo' = {} \/ todo' = {m.id}
  BY DEF Reg!HoldMail, Reg!Free, NewMail
<1>2. kept' = kept /\ rows' = rows
  BY DEF Reg!HoldMail, Reg!stores
<1>3. m.id \in 1..MaxMail /\ moves[m.id] = 0
  BY HoldMailDoes DEF Reg!Unused
<1>4. reg'.mail \subseteq reg.mail \cup {m}
  BY HoldMailMail
<1>5. m.to = p
  BY DEF NewMail
<1> HIDE DEF m
<1>6. CASE todo' = {}
  BY <1>6 DEF CallClear
<1>7. CASE todo' = {m.id}
  <2> SUFFICES ASSUME NEW k \in reg'.mail, k.id = m.id
               PROVE  Reg!Copy(k) \notin kept /\ ~Reg!Stored(Reg!Copy(k))
    BY <1>2, <1>7 DEF CallClear, Reg!Stored
  <2>1. k.to \in Reg!Name
    BY <1>4, <1>5 DEF Base, RegTyped, Reg!Registry, Reg!Mail
  <2>2. ~InHand(m.id, k.to)
    BY <1>3, <2>1 DEF Counted
  <2> QED  BY <2>2, CopyInHand
<1> QED  BY <1>1, <1>6, <1>7

LEMMA DeliverLanding ==
    ASSUME Base, Mailed, Counted, KeptLive, Landing, [Reg!Next]_(Reg!vars),
           NEW m \in reg.mail, Reg!Deliver(m)
    PROVE  Landing'
<1>1. m.id \in todo /\ todo' = todo \ {m.id} /\ checks' = checks /\ moves' = moves
  BY DeliverRows
<1>2. reg'.mail \subseteq reg.mail
  BY DeliverMail DEF Releases
<1>3. \A k \in reg.mail : k.id # m.id => Reg!Copy(k) # Reg!Copy(m)
  BY DEF Reg!Copy
<1>4. CallClear /\ m.id \in 1..MaxMail
  BY LandingIs DEF Base, RegTyped, Reg!Registry, Reg!Mail
<1>5. CASE Stays /\ kept' = kept
  <2>1. \A i \in DOMAIN rows' : i \in DOMAIN rows /\ rows'[i] = rows[i]
    BY <1>5, StayRows DEF Base
  <2>2. rows' = rows
    BY <1>5 DEF Stays
  <2>3. CallClear'
    BY <1>1, <1>2, <1>4, <1>5, <2>2 DEF CallClear, Reg!Stored, Often
  <2>4. \A c \in kept' : Reg!Stored(c)' => moves'[c.id] > 2
    BY <1>5, <2>1, KeptStays
  <2>5. Reg!LandsOnce'
    BY <2>1, StaysOnce
  <2> QED  BY <2>3, <2>4, <2>5 DEF Landing, CallClear, Often
<1>6. CASE Stays /\ kept' # kept
  <2>1. \A i \in DOMAIN rows' : i \in DOMAIN rows /\ rows'[i] = rows[i]
    BY <1>6, StayRows DEF Base
  <2>2. rows' = rows /\ kept' = kept \cup {Reg!Copy(m)} /\ ~(checks /\ Reg!Stored(Reg!Copy(m)))
    BY <1>6, DeliverRows DEF Stays
  <2>3. CallClear'
    BY <1>1, <1>2, <1>3, <1>4, <2>2 DEF CallClear, Reg!Stored, Often
  <2>4. Reg!Stored(Reg!Copy(m)) => Often(m.id)
    BY <1>1, <1>4, <2>2 DEF CallClear
  <2>5. \A c \in kept' : Reg!Stored(c)' => moves'[c.id] > 2
    <3> SUFFICES ASSUME NEW c \in kept', Reg!Stored(c) PROVE moves[c.id] > 2
      BY <1>1, <2>2 DEF Reg!Stored
    <3>1. Reg!Copy(m).id = m.id
      BY DEF Reg!Copy
    <3> QED  BY <2>2, <2>4, <3>1 DEF Landing, Often
  <2>6. Reg!LandsOnce'
    BY <2>1, StaysOnce
  <2> QED  BY <2>3, <2>5, <2>6 DEF Landing, CallClear, Often
<1>7. CASE Grows(Reg!Copy(m)) /\ kept' = kept /\ ~(checks /\ Reg!Stored(Reg!Copy(m)))
  <2>1. Reg!Copy(m).id = m.id
    BY DEF Reg!Copy
  <2>2. Reg!Stored(Reg!Copy(m)) => Often(m.id)
    BY <1>1, <1>4, <1>7 DEF CallClear
  <2>3. Reg!LandsOnce'
    BY <1>7, <2>1, <2>2, GrowsOnce
  <2>4. \A c : Reg!Stored(c)' => Reg!Stored(c) \/ c = Reg!Copy(m)
    BY <1>7, StoredGrows DEF Base
  <2>5. CallClear'
    BY <1>1, <1>2, <1>3, <1>4, <1>7, <2>4 DEF CallClear, Often
  <2>6. \A c \in kept' : Reg!Stored(c)' => moves'[c.id] > 2
    <3> SUFFICES ASSUME NEW c \in kept, Reg!Stored(c)' PROVE moves[c.id] > 2
      BY <1>1, <1>7
    <3>1. CASE Reg!Stored(c)
      BY <3>1 DEF Landing
    <3>2. CASE c = Reg!Copy(m)
      BY <1>1, <1>4, <2>1, <3>2 DEF CallClear, Often
    <3> QED  BY <2>4, <3>1, <3>2
  <2> QED  BY <2>3, <2>5, <2>6 DEF Landing, CallClear, Often
<1> QED  BY <1>5, <1>6, <1>7, DeliverRows

LEMMA ReplayLanding ==
    ASSUME Base, Mailed, Counted, KeptLive, Landing, [Reg!Next]_(Reg!vars),
           NEW copy \in kept, Reg!Replay(copy)
    PROVE  Landing'
<1>1. Grows(copy) /\ kept' = kept \ {copy} /\ todo' = {} /\ moves' = moves
  BY ReplayRows
<1>2. copy.what = "mail" /\ (Reg!Stored(copy) => Often(copy.id))
  BY DEF KeptLive, Landing, Often
<1>3. Reg!LandsOnce'
  BY <1>1, <1>2, GrowsOnce
<1>4. CallClear'
  BY <1>1 DEF CallClear
<1>5. \A c \in kept' : Reg!Stored(c)' => moves'[c.id] > 2
  <2> SUFFICES ASSUME NEW c \in kept, c # copy, Reg!Stored(c)' PROVE moves[c.id] > 2
    BY <1>1
  <2>1. Reg!Stored(c)
    BY <1>1, StoredGrows DEF Base
  <2> QED  BY <2>1 DEF Landing
<1> QED  BY <1>3, <1>4, <1>5 DEF Landing, CallClear, Often

LEMMA LandingStep ==
    ASSUME Base, Mailed, Counted, KeptLive, Landing, [Reg!Next]_(Reg!vars)
    PROVE  Landing'
<1>1. ASSUME CallClear', kept' \subseteq kept,
             \A i \in DOMAIN rows' : i \in DOMAIN rows /\ rows'[i] = rows[i]
      PROVE  Landing'
  <2>1. \A c \in kept' : Reg!Stored(c)' => moves'[c.id] > 2
    BY <1>1, KeptStays
  <2>2. Reg!LandsOnce'
    BY <1>1, StaysOnce
  <2> QED  BY <1>1, <2>1, <2>2 DEF Landing, CallClear, Often
<1>2. ASSUME Stays PROVE \A i \in DOMAIN rows' : i \in DOMAIN rows /\ rows'[i] = rows[i]
  BY <1>2, StayRows DEF Base
<1>3. ASSUME todo' = {} PROVE CallClear'
  BY <1>3 DEF CallClear
<1>4. ASSUME NEW n \in Task, NEW s \in Reg!Name,
             NEW follows \in BOOLEAN, Reg!Spawn(n, s, follows) PROVE Landing'
  BY <1>1, <1>2, <1>4, SpawnClear, RequestRows
<1>5. ASSUME NEW n \in Reg!Name, NEW p \in Reg!Name, Reg!Reparent(n, p) \/ Reg!HoldMail(n, p)
      PROVE  Landing'
  BY <1>1, <1>2, <1>5, ReparentClear, HoldMailClear, RequestRows
<1>6. ASSUME NEW m \in reg.mail, Reg!Deliver(m) PROVE Landing'
  BY <1>6, DeliverLanding
<1>7. ASSUME NEW copy \in kept, Reg!Replay(copy) PROVE Landing'
  BY <1>7, ReplayLanding
<1>8. CASE Reg!SettleInterrupted
  <2>1. kept = {} /\ phase # "up"
    BY <1>8 DEF Reg!SettleInterrupted, KeptLive
  <2>2. Stays /\ kept' = {} /\ checks' = TRUE
    BY <1>8, <2>1, SettleRows
  <2>3. CallClear'
    BY <2>2 DEF CallClear
  <2> QED  BY <1>1, <1>2, <2>2, <2>3
<1>9. ASSUME NEW p \in Reg!Name, Reg!TellInterrupted(p) PROVE Landing'
  <2>1. todo' = {} /\ kept' = {} /\ Grows(NoticeTo(p))
    BY <1>9, TellRows DEF Reg!TellInterrupted, KeptLive
  <2>2. NoticeTo(p).what # "mail"
    BY DEF NoticeTo
  <2>3. Reg!LandsOnce'
    BY <2>1, <2>2, GrowsOnce
  <2> QED  BY <2>1, <2>3 DEF Landing
<1>10. CASE Reg!Crash
  <2>1. todo' = {} /\ kept' = {}
    BY <1>10 DEF Reg!Crash
  <2>2. \A i \in DOMAIN rows' : i \in DOMAIN rows /\ rows'[i] = rows[i]
    <3>1. /\ rows' \in Seq(Reg!Row) /\ rows \in Seq(Reg!Row) /\ Len(rows') \in 0..Len(rows)
          /\ \A i \in 1..Len(rows') : rows'[i] = rows[i]
      BY <1>10, CrashPersists DEF Base, StoresTyped, Persist
    <3> QED  BY <3>1
  <2> QED  BY <1>1, <1>3, <2>1, <2>2
<1>11. CASE Reg!Restore \/ Reg!Reconcile \/ (\E p \in Resident : Reg!Declare(p))
              \/ Reg!StoreRefuses
            \/ \E n \in Reg!Name : Reg!RunEnds(n) \/ Reg!StopAgent(n)
  <2>1. todo' = {}
    BY <1>11
       DEF Reg!Restore, Reg!Reconcile, Reg!Declare, Reg!StoreRefuses, Reg!RunEnds,
           Reg!StopAgent, Reg!Free, KeptLive
  <2> QED  BY <1>1, <1>2, <1>3, <1>11, <2>1, RequestRows
<1>12. CASE UNCHANGED Reg!vars
  BY <1>12 DEF Reg!vars, Landing, Reg!LandsOnce, Reg!Stored, Reg!stores, Reg!history
<1> QED  BY <1>4, <1>5, <1>6, <1>7, <1>8, <1>9, <1>10, <1>11, <1>12 DEF Reg!Next

-----------------------------------------------------------------------------
(* Mail that is held is never lost.                                         *)

OnRowMail(id) == \E i \in 1..onDisk : rows[i].what = "mail" /\ rows[i].id = id
OnRowOf(m) == \E i \in 1..onDisk : rows[i].what = "mail" /\ rows[i].id = m.id
  /\ rows[i].from = m.from

(* An accepted mail is in a store on disk, or held, in memory while the     *)
(* process runs.                                                            *)
Safe ==
    \A id \in accepted :
      \/ OnRowMail(id)
      \/ \E m \in (IF Up THEN reg.mail ELSE disk.mail) : m.id = id

LEMMA RowsPersist ==
    ASSUME Base, [Reg!Next]_(Reg!vars), NEW id, OnRowMail(id)
    PROVE  OnRowMail(id)'
<1>1. PICK i \in 1..onDisk : rows[i].what = "mail" /\ rows[i].id = id
  BY DEF OnRowMail
<1>2. i \in 1..onDisk' /\ rows'[i] = rows[i]
  BY Persists DEF Persist
<1> QED  BY <1>1, <1>2 DEF OnRowMail

LEMMA DeliverReleases ==
    ASSUME Base, NEW m \in reg.mail, Reg!Deliver(m)
    PROVE  reg'.mail = reg.mail \/ (OnRowOf(m)' /\ reg'.mail = {k \in reg.mail : k.id # m.id})
<1>1. PICK new : /\ reg' = new
                 /\ \/ new.mail = reg.mail
                    \/ /\ new.mail = {k \in reg.mail : k.id # m.id}
                       /\ onDisk' = Len(rows')
                       /\ rows' = Append(rows, Reg!Copy(m))
                            \/ (rows' = rows /\ Reg!Stored(Reg!Copy(m)))
  BY DeliverDoes
<1>2. CASE onDisk' = Len(rows')
             /\ (rows' = Append(rows, Reg!Copy(m)) \/ (rows' = rows /\ Reg!Stored(Reg!Copy(m))))
  <2>1. Reg!Copy(m) \in Reg!Row /\ Reg!Copy(m).what = "mail" /\ Reg!Copy(m).id = m.id
          /\ Reg!Copy(m).from = m.from
    BY CopyIs DEF Base, RegTyped, Reg!Registry
  <2>2. \E i \in 1..Len(rows') : rows'[i] = Reg!Copy(m)
    <3>1. CASE rows' = Append(rows, Reg!Copy(m))
      <4>1. Len(rows') = Len(rows) + 1 /\ rows'[Len(rows) + 1] = Reg!Copy(m)
              /\ Len(rows) \in Nat
        BY <2>1, <3>1, AppendRow DEF Base, StoresTyped
      <4> QED  BY <4>1
    <3>2. CASE rows' = rows /\ Reg!Stored(Reg!Copy(m))
      BY <3>2 DEF Reg!Stored, Base, StoresTyped
    <3> QED  BY <1>2, <3>1, <3>2
  <2>3. OnRowOf(m)'
    BY <1>2, <2>1, <2>2 DEF OnRowOf
  <2> QED  BY <1>1, <2>3
<1> QED  BY <1>1, <1>2

LEMMA ReplayReleases ==
    ASSUME Base, KeptLive, NEW copy \in kept, Reg!Replay(copy)
    PROVE  \/ reg'.mail = reg.mail
           \/ /\ reg'.mail = {k \in reg.mail : k.id # copy.id}
              /\ \A m \in reg.mail : m.id = copy.id => OnRowOf(m)'
<1>1. PICK new : /\ reg' = new
                 /\ \/ new.mail = reg.mail
                    \/ /\ new.mail = {k \in reg.mail : k.id # copy.id}
                       /\ onDisk' = Len(rows')
                       /\ \A m \in reg.mail : m.id = copy.id => Reg!Copy(m) = copy
  BY ReplayDoes
<1>2. CASE onDisk' = Len(rows') /\ \A m \in reg.mail : m.id = copy.id => Reg!Copy(m) = copy
  <2>1. copy \in Reg!Row /\ rows' = Append(rows, copy) /\ copy.what = "mail"
    BY ReplayRows DEF Grows, KeptLive
  <2>2. Len(rows') = Len(rows) + 1 /\ rows'[Len(rows) + 1] = copy /\ Len(rows) \in Nat
    BY <2>1, AppendRow DEF Base, StoresTyped
  <2>3. ASSUME NEW m \in reg.mail, m.id = copy.id PROVE OnRowOf(m)'
    <3>1. copy.from = m.from
      BY <1>2, <2>3 DEF Reg!Copy
    <3> QED  BY <1>2, <2>1, <2>2, <2>3, <3>1 DEF OnRowOf
  <2> QED  BY <1>1, <2>3
<1> QED  BY <1>1, <1>2

(* What of the held mail a step keeps, by id: all but what it stored.       *)
LEMMA HeldStays ==
    ASSUME Base, Mailed, KeptLive, [Reg!Next]_(Reg!vars),
           NEW m \in (IF Up THEN reg.mail ELSE disk.mail)
    PROVE  \/ OnRowOf(m)'
           \/ \E k \in (IF Up' THEN reg'.mail ELSE disk'.mail) : k.id = m.id /\ k.from = m.from
                /\ k.kind = m.kind
<1>1. CASE Reg!Crash
  <2>1. Up /\ ~Up' /\ disk'.mail = disk.mail
    BY <1>1, CrashRestoreMail DEF Reg!Crash, Up
  <2> QED  BY <2>1 DEF Mailed, MailCovers
<1>2. CASE Reg!Restore
  <2>1. ~Up /\ Up' /\ reg'.mail = disk.mail
    BY <1>2, CrashRestoreMail DEF Reg!Restore, Up
  <2> QED  BY <2>1
<1>3. CASE UNCHANGED Reg!vars
  BY <1>3 DEF Reg!vars, Up
<1>4. ASSUME NEW n \in Reg!Name, NEW p \in Reg!Name, Reg!Reparent(n, p)
      PROVE  \E k \in (IF Up' THEN reg'.mail ELSE disk'.mail) : k.id = m.id /\ k.from = m.from
               /\ k.kind = m.kind
  <2>1. Up /\ Up' /\ reg'.mail \in {reg.mail, Reg!Readdressed(n, p)}
    BY <1>4, ReparentMail, ReparentDoes DEF Up
  <2>2. CASE reg'.mail = reg.mail
    BY <2>1, <2>2
  <2>3. CASE reg'.mail = Reg!Readdressed(n, p)
    <3>1. \E k \in Reg!Readdressed(n, p) : k.id = m.id /\ k.from = m.from /\ k.kind = m.kind
      BY <2>1, ReaddressedMail
    <3> QED  BY <2>1, <2>3, <3>1
  <2> QED  BY <2>1, <2>2, <2>3
<1>5. ASSUME NEW n \in Reg!Name, NEW p \in Reg!Name, Reg!HoldMail(n, p)
      PROVE  \E k \in (IF Up' THEN reg'.mail ELSE disk'.mail) : k.id = m.id /\ k.from = m.from
               /\ k.kind = m.kind
  <2>1. Up /\ Up' /\ reg.mail \subseteq reg'.mail
    BY <1>5, HoldMailMail, HoldMailDoes DEF Up
  <2> QED  BY <2>1
<1>6. ASSUME NEW d \in reg.mail, Reg!Deliver(d)
      PROVE  \/ OnRowOf(m)'
             \/ \E k \in (IF Up' THEN reg'.mail ELSE disk'.mail) : k.id = m.id
                  /\ k.from = m.from /\ k.kind = m.kind
  <2>1. Up /\ Up'
    BY <1>6, DeliverDoes DEF Up
  <2> QED  BY <1>6, <2>1, DeliverReleases DEF Mailed, Ids
<1>7. ASSUME NEW copy \in kept, Reg!Replay(copy)
      PROVE  \/ OnRowOf(m)'
             \/ \E k \in (IF Up' THEN reg'.mail ELSE disk'.mail) : k.id = m.id
                  /\ k.from = m.from /\ k.kind = m.kind
  <2>1. Up /\ Up'
    BY <1>7, ReplayDoes DEF Up
  <2> QED  BY <1>7, <2>1, ReplayReleases
<1>8. CASE \/ \E n \in Task, s \in Reg!Name, follows \in BOOLEAN : Reg!Spawn(n, s, follows)
           \/ \E n \in Reg!Name : Reg!RunEnds(n) \/ Reg!StopAgent(n)
           \/ \E p \in Resident : Reg!Declare(p)
           \/ Reg!Reconcile \/ Reg!StoreRefuses \/ Reg!SettleInterrupted
           \/ \E p \in Reg!Name : Reg!TellInterrupted(p)
  <2>1. reg'.mail = reg.mail
    BY <1>8, SpawnMail, PlainMail
  <2>2. Up /\ Up'
    <3>1. CASE Reg!SettleInterrupted
      BY <3>1, SettleDoes DEF Up
    <3> QED  BY <1>8, <3>1, ActsDo DEF Acts
  <2> QED  BY <2>1, <2>2
<1> QED  BY <1>1, <1>2, <1>3, <1>4, <1>5, <1>6, <1>7, <1>8 DEF Reg!Next

LEMMA SafeStep ==
    ASSUME Base, Mailed, KeptLive, Safe, [Reg!Next]_(Reg!vars)
    PROVE  Safe'
<1>1. ASSUME NEW n \in Reg!Name, NEW p \in Reg!Name, Reg!HoldMail(n, p)
      PROVE  accepted' = accepted \/ (/\ accepted' = accepted \cup {NewMail(n, p).id}
                                      /\ Up' /\ NewMail(n, p) \in reg'.mail)
  <2>1. phase' = "up"
    BY <1>1 DEF Reg!HoldMail, Reg!Free
  <2>2. CASE accepted' = accepted
    BY <2>2
  <2>3. CASE accepted' # accepted
    <3>1. accepted' = accepted \cup {NewMail(n, p).id} /\ reg' = Reg!WithMail(NewMail(n, p))
      BY <1>1, <2>3 DEF Reg!HoldMail, NewMail, Reg!Written
    <3>2. NewMail(n, p) \in reg'.mail
      <4>1. NewMail(n, p) \in Reg!Mail /\ reg.mail \cup {NewMail(n, p)} \in SUBSET Reg!Mail
        BY <1>1, HoldMailDoes DEF Base, RegTyped, Reg!Registry
      <4> QED  BY <3>1, <4>1, MailOnly DEF Reg!WithMail
    <3> QED  BY <2>1, <3>1, <3>2 DEF Up
  <2> QED  BY <2>2, <2>3
<1>2. \/ accepted' = accepted
      \/ \E k \in reg'.mail : accepted' = accepted \cup {k.id} /\ Up'
  <2>1. accepted' = accepted \/ \E n, p \in Reg!Name : Reg!HoldMail(n, p)
    BY DEF Reg!Next, Reg!Spawn, Reg!RunEnds, Reg!StopAgent, Reg!Reparent, Reg!Deliver,
           Reg!StoreRefuses, Reg!Replay, Reg!Crash, Reg!Restore, Reg!Declare, Reg!Reconcile,
           Reg!TellInterrupted, Reg!SettleInterrupted, Reg!vars, Reg!history
  <2> QED  BY <1>1, <2>1
<1> SUFFICES ASSUME NEW id \in accepted'
             PROVE  \/ OnRowMail(id)'
                    \/ \E m \in (IF Up' THEN reg'.mail ELSE disk'.mail) : m.id = id
  BY DEF Safe
<1>3. CASE id \in accepted
  <2>1. OnRowMail(id) \/ \E m \in (IF Up THEN reg.mail ELSE disk.mail) : m.id = id
    BY <1>3 DEF Safe
  <2>2. \A m : OnRowOf(m)' => OnRowMail(m.id)'
    BY DEF OnRowOf, OnRowMail
  <2> QED  BY <2>1, <2>2, RowsPersist, HeldStays
<1>4. CASE id \notin accepted
  BY <1>2, <1>4
<1> QED  BY <1>3, <1>4

LEMMA SafeIsKept == ASSUME Mailed, Safe PROVE Reg!AcceptedIsKept
BY DEF Safe, Reg!AcceptedIsKept, OnRowMail, Mailed, MailCovers

-----------------------------------------------------------------------------
(* Notices.                                                                 *)

(* Whom a notice names is pending or ended, and live no more; one that is   *)
(* pending still works for the notice's recipient.                          *)
Noticed ==
    \A i \in DOMAIN rows : rows[i].what = "notice" => \A k \in rows[i].of :
      /\ k[1] \in Task
      /\ Up => /\ k \in Reg!Keys(reg.pending \cup endedFile) /\ k \notin Reg!Keys(reg.live)
               /\ \A r \in reg.pending : Reg!Key(r) = k => r.to = rows[i].to
      /\ ~Up => /\ k \in Reg!Keys(disk.records \cup endedFile)
                /\ \A r \in disk.records : Reg!Key(r) = k /\ k \notin Reg!Keys(endedFile)
                     => r.to = rows[i].to

ToldOnce ==
    \A i, j \in DOMAIN rows :
      rows[i].what = "notice" /\ rows[j].what = "notice" /\ i # j
        => rows[i].of \cap rows[j].of = {}

(* One notice that stays, by what a step does to the registry.              *)
NoticeHolds(k, to) ==
    /\ k \in Reg!Keys(reg.pending \cup endedFile) /\ k \notin Reg!Keys(reg.live)
    /\ \A r \in reg.pending : Reg!Key(r) = k => r.to = to

LEMMA WritesNotice ==
    ASSUME Base, Up, Up', NEW new, NEW ends, Does(new, ends), NEW k, NEW to, NoticeHolds(k, to)
    PROVE  NoticeHolds(k, to)'
<1> USE DEF NoticeHolds
<1>1. Change(new, ends) /\ Writes(new, ends)
  BY DEF Does
<1>2. reg' \in {reg, new} /\ reg'.pending = reg.pending
  BY <1>1 DEF Change, Writes
<1>3. k \in Reg!Keys(AllOf(reg))
  <2>1. Reg!Keys(reg.pending \cup endedFile) = Reg!Keys(reg.pending) \cup Reg!Keys(endedFile)
    BY Keys2
  <2>2. Reg!Keys(recovery \cup endedFile) = Reg!Keys(recovery) \cup Reg!Keys(endedFile)
    BY Keys2
  <2>3. Reg!Keys(reg.pending) \subseteq Reg!Keys(AllOf(reg))
    BY KeysOf DEF AllOf, Filed
  <2> QED  BY <2>1, <2>2, <2>3, EndedIsKnown DEF Base
<1>4. k \notin Reg!Keys(reg'.live)
  BY <1>1, <1>2, <1>3 DEF Change
<1>5. k \in Reg!Keys(recovery) \cup Reg!Keys(reg.pending)
  <2>1. Reg!Keys(endedFile)
          \subseteq Reg!Keys(recovery) \cup Reg!Keys(reg.pending) \cup Reg!Keys(reg.live)
    <3>1. Reg!Keys(endedFile) \subseteq Reg!Keys(recovery \cup reg.pending \cup reg.live)
      BY DEF Base, Placed
    <3> QED  BY <3>1, Keys3
  <2>2. k \in Reg!Keys(reg.pending) \cup Reg!Keys(endedFile)
    BY Keys2
  <2> QED  BY <2>1, <2>2
<1>6. k \in Reg!Keys(reg.pending) \/ (k \in Reg!Keys(recovery') /\ k \in Reg!Keys(recovery))
  <2> SUFFICES ASSUME k \in Reg!Keys(recovery), k \notin Reg!Keys(reg.pending)
               PROVE  k \in Reg!Keys(recovery')
    BY <1>5
  <2>1. PICK r \in recovery : Reg!Key(r) = k
    BY DEF Reg!Keys
  <2>2. r \in reg.ended /\ r \notin reg.pending
    BY <2>1 DEF Base, Placed, Reg!Keys
  <2>3. r \in recovery'
    BY <1>1, <2>2 DEF Writes, Reg!EndedHistory
  <2> QED  BY <2>1, <2>3 DEF Reg!Keys
<1>7. k \in Reg!Keys(reg.pending) \cup Reg!Keys(endedFile')
  <2>1. CASE k \in Reg!Keys(reg.pending)
    BY <2>1
  <2>2. CASE k \notin Reg!Keys(reg.pending)
    <3>1. k \in Reg!Keys(endedFile) /\ k \in Reg!Keys(recovery') /\ k \in Reg!Keys(recovery)
      BY <1>6, <2>2, Keys2
    <3>2. ASSUME NEW some, endedFile' = recovery \cup some PROVE k \in Reg!Keys(endedFile')
      BY <3>1, <3>2, Keys2
    <3> QED  BY <1>1, <3>1, <3>2 DEF Writes
  <2> QED  BY <2>1, <2>2
<1> QED  BY <1>2, <1>4, <1>7, Keys2

LEMMA LetsNotice ==
    ASSUME Base, Up, \E done, some : Lets(done, some), NEW k, NEW to, NoticeHolds(k, to)
    PROVE  NoticeHolds(k, to)'
<1> USE DEF NoticeHolds
<1>1. PICK done, some : Lets(done, some)
  OBVIOUS
<1>2. reg'.live = reg.live /\ reg'.pending = reg.pending \ some
  BY <1>1, LetsFields
<1>3. Reg!Keys(reg.pending) \subseteq Reg!Keys(reg'.pending) \cup Reg!Keys(endedFile')
  <2>1. reg.pending \subseteq reg'.pending \cup endedFile'
    BY <1>2, <1>1 DEF Lets
  <2>2. Reg!Keys(reg.pending) \subseteq Reg!Keys(reg'.pending \cup endedFile')
    BY <2>1, KeysOf
  <2> QED  BY <2>2, Keys2
<1>4. Reg!Keys(endedFile)
        \subseteq Reg!Keys(recovery) \cup Reg!Keys(reg.pending) \cup Reg!Keys(reg.live)
  <2>1. Reg!Keys(endedFile) \subseteq Reg!Keys(recovery \cup reg.pending \cup reg.live)
    BY DEF Base, Placed
  <2> QED  BY <2>1, Keys3
<1>5. endedFile' = endedFile \/ Reg!Keys(recovery) \subseteq Reg!Keys(endedFile')
  BY <1>1, KeysOf DEF Lets
<1>6. k \in Reg!Keys(reg.pending) \cup Reg!Keys(endedFile)
  BY Keys2
<1>7. k \in Reg!Keys(reg'.pending) \cup Reg!Keys(endedFile')
  BY <1>3, <1>4, <1>5, <1>6
<1> QED  BY <1>2, <1>7, Keys2

(* The rows a step leaves or adds, but for a boot's notice.                 *)
LEMMA NoticesStay ==
    ASSUME Base, KeptLive, [Reg!Next]_(Reg!vars), ~ \E p \in Reg!Name : Reg!TellInterrupted(p)
    PROVE  \A i \in DOMAIN rows' : rows'[i].what = "notice" => i \in DOMAIN rows
             /\ rows'[i] = rows[i]
<1>1. ASSUME Stays
      PROVE  \A i \in DOMAIN rows' : rows'[i].what = "notice" => i \in DOMAIN rows
               /\ rows'[i] = rows[i]
  BY <1>1, StayRows DEF Base
<1>2. ASSUME NEW row, Grows(row), row.what = "mail"
      PROVE  \A i \in DOMAIN rows' : rows'[i].what = "notice" => i \in DOMAIN rows
               /\ rows'[i] = rows[i]
  BY <1>2, GrowRows DEF Base
<1>3. ASSUME NEW m \in reg.mail, Reg!Deliver(m)
      PROVE  \A i \in DOMAIN rows' : rows'[i].what = "notice" => i \in DOMAIN rows
               /\ rows'[i] = rows[i]
  <2>1. Reg!Copy(m).what = "mail"
    BY DEF Reg!Copy
  <2> QED  BY <1>1, <1>2, <1>3, <2>1, DeliverRows
<1>4. ASSUME NEW copy \in kept, Reg!Replay(copy)
      PROVE  \A i \in DOMAIN rows' : rows'[i].what = "notice" => i \in DOMAIN rows
               /\ rows'[i] = rows[i]
  BY <1>2, <1>4, ReplayRows DEF KeptLive
<1>5. CASE Reg!SettleInterrupted
  BY <1>1, <1>5, SettleRows
<1>6. CASE Reg!Crash
  <2>1. /\ rows' \in Seq(Reg!Row) /\ rows \in Seq(Reg!Row) /\ Len(rows') \in 0..Len(rows)
        /\ \A i \in 1..Len(rows') : rows'[i] = rows[i]
    BY <1>6, CrashPersists DEF Base, StoresTyped, Persist
  <2> QED  BY <2>1
<1> QED  BY <1>1, <1>3, <1>4, <1>5, <1>6, RequestRows DEF Reg!Next

LEMMA NoticedStep ==
    ASSUME Base, KeptLive, Noticed, [Reg!Next]_(Reg!vars)
    PROVE  Noticed'
<1>1. ASSUME NEW i \in DOMAIN rows, rows[i].what = "notice",
             NEW k \in rows[i].of, rows'[i] = rows[i]
      PROVE  /\ Up' => /\ k \in Reg!Keys(reg'.pending \cup endedFile') /\ k \notin Reg!Keys(reg'.live)
                       /\ \A r \in reg'.pending : Reg!Key(r) = k => r.to = rows[i].to
             /\ ~Up' => /\ k \in Reg!Keys(disk'.records \cup endedFile')
                        /\ \A r \in disk'.records : Reg!Key(r) = k
                             /\ k \notin Reg!Keys(endedFile') => r.to = rows[i].to
  <2>1. CASE Acts
    <3>1. Up /\ Up'
      BY <2>1, ActsDo
    <3>2. PICK new, ends : Does(new, ends)
      BY <2>1, ActsDo
    <3>3. NoticeHolds(k, rows[i].to)
      BY <1>1, <3>1 DEF Noticed, NoticeHolds
    <3>4. NoticeHolds(k, rows[i].to)'
      BY <1>1, <3>1, <3>2, <3>3, WritesNotice
    <3> QED  BY <1>1, <3>1, <3>4 DEF NoticeHolds
  <2>2. CASE Reg!SettleInterrupted
    <3>1. Up /\ Up'
      BY <2>2, SettleDoes DEF Up
    <3>2. \E done, some : Lets(done, some)
      BY <2>2, SettleDoes
    <3>3. NoticeHolds(k, rows[i].to)
      BY <1>1, <3>1 DEF Noticed, NoticeHolds
    <3>4. NoticeHolds(k, rows[i].to)'
      BY <1>1, <3>1, <3>2, <3>3, LetsNotice
    <3> QED  BY <1>1, <3>1, <3>4 DEF NoticeHolds
  <2>3. CASE Reg!Crash
    <3>1. Up /\ ~Up' /\ UNCHANGED <<disk, endedFile>>
      BY <2>3 DEF Reg!Crash, Up
    <3>2. /\ k \in Reg!Keys(reg.pending) \cup Reg!Keys(endedFile)
          /\ \A r \in reg.pending : Reg!Key(r) = k => r.to = rows[i].to
      BY <1>1, <3>1, Keys2 DEF Noticed
    <3>3. Reg!Keys(reg.pending) \subseteq Reg!Keys(disk.records)
            /\ reg.pending \subseteq disk.records
      BY <3>1, KeysOf DEF Base, Placed
    <3>4. ASSUME NEW r \in disk.records, Reg!Key(r) = k, k \notin Reg!Keys(endedFile)
          PROVE  r.to = rows[i].to
      <4>1. PICK o \in reg.pending : Reg!Key(o) = k
        BY <3>2, <3>4 DEF Reg!Keys
      <4>2. o = r
        BY <3>3, <3>4, <4>1 DEF Base, Placed, OneKey
      <4> QED  BY <3>2, <3>4, <4>2
    <3>5. k \in Reg!Keys(disk.records) \cup Reg!Keys(endedFile)
      BY <3>2, <3>3
    <3> QED  BY <3>1, <3>4, <3>5, Keys2
  <2>4. CASE Reg!Restore
    <3>1. ~Up /\ Up' /\ reg'.live = {} /\ reg'.pending = Interrupted /\ endedFile' = endedFile
      BY <2>4, RestoreFields DEF Up
    <3>2. /\ k[1] \in Task /\ k \in Reg!Keys(disk.records) \cup Reg!Keys(endedFile)
          /\ \A r \in disk.records : Reg!Key(r) = k /\ k \notin Reg!Keys(endedFile)
               => r.to = rows[i].to
      BY <1>1, <3>1, Keys2 DEF Noticed
    <3>3. ASSUME k \notin Reg!Keys(endedFile) PROVE k \in Reg!Keys(Interrupted)
      <4>1. PICK r \in disk.records : Reg!Key(r) = k
        BY <3>2, <3>3 DEF Reg!Keys
      <4>2. r \in Interrupted
        BY <3>2, <3>3, <4>1 DEF Interrupted, FiledTasks, Reg!Key
      <4> QED  BY <4>1, <4>2 DEF Reg!Keys
    <3>4. \A r \in Interrupted : r \in disk.records /\ Reg!Key(r) \notin Reg!Keys(endedFile)
      BY DEF Interrupted, FiledTasks
    <3>5. k \in Reg!Keys(Interrupted) \cup Reg!Keys(endedFile) /\ Reg!Keys({}) = {}
      BY <3>3 DEF Reg!Keys
    <3> QED  BY <3>1, <3>2, <3>4, <3>5, Keys2
  <2>5. CASE UNCHANGED Reg!vars
    BY <1>1, <2>5 DEF Reg!vars, Noticed, Up, Reg!files
  <2> QED  BY <2>1, <2>2, <2>3, <2>4, <2>5, Steps
<1>2. CASE ~ \E p \in Reg!Name : Reg!TellInterrupted(p)
  BY <1>1, <1>2, NoticesStay DEF Noticed
<1>3. ASSUME NEW p \in Reg!Name, Reg!TellInterrupted(p) PROVE Noticed'
  <2>1. /\ UNCHANGED <<phase, reg, Reg!files>> /\ Up
        /\ \A i \in DOMAIN rows' : rows'[i] = NoticeTo(p)
             \/ (i \in DOMAIN rows /\ rows'[i] = rows[i])
    BY <1>3, TellRows, GrowRows DEF Base, Reg!TellInterrupted, Up
  <2>2. ASSUME NEW k \in NoticeTo(p).of
        PROVE  /\ k[1] \in Task
               /\ k \in Reg!Keys(reg.pending \cup endedFile) /\ k \notin Reg!Keys(reg.live)
               /\ \A r \in reg.pending : Reg!Key(r) = k => r.to = p
    <3>1. PICK o \in reg.pending : Reg!Key(o) = k /\ o.to = p
      BY DEF NoticeTo, Reg!Keys, Reg!ToTell
    <3>2. k[1] \in Task
      BY <3>1 DEF Base, Placed, Reg!Key
    <3>3. \A r \in reg.pending : Reg!Key(r) = k => r = o
      BY <3>1 DEF Base, Placed, OneKey
    <3>4. k \notin Reg!Keys(reg.live)
      BY <3>1 DEF Reg!Keys, Base, Placed
    <3>5. k \in Reg!Keys(reg.pending \cup endedFile)
      BY <3>1 DEF Reg!Keys
    <3> QED  BY <3>1, <3>2, <3>3, <3>4, <3>5
  <2>3. NoticeTo(p).to = p
    BY DEF NoticeTo
  <2> SUFFICES ASSUME NEW i \in DOMAIN rows', rows'[i].what = "notice", NEW k \in rows'[i].of
               PROVE  /\ k[1] \in Task
                      /\ k \in Reg!Keys(reg.pending \cup endedFile)
                           /\ k \notin Reg!Keys(reg.live)
                      /\ \A r \in reg.pending : Reg!Key(r) = k => r.to = rows'[i].to
    BY <2>1 DEF Noticed, Up, Reg!files
  <2>4. CASE rows'[i] = NoticeTo(p)
    BY <2>2, <2>3, <2>4
  <2>5. CASE i \in DOMAIN rows /\ rows'[i] = rows[i]
    BY <2>1, <2>5 DEF Noticed
  <2> QED  BY <2>1, <2>4, <2>5
<1> QED  BY <1>2, <1>3

LEMMA ToldOnceStep ==
    ASSUME Base, KeptLive, Noticed, ToldOnce, [Reg!Next]_(Reg!vars)
    PROVE  ToldOnce'
<1>1. CASE ~ \E p \in Reg!Name : Reg!TellInterrupted(p)
  BY <1>1, NoticesStay DEF ToldOnce
<1>2. ASSUME NEW p \in Reg!Name, Reg!TellInterrupted(p) PROVE ToldOnce'
  <2>1. Grows(NoticeTo(p)) /\ Up
    BY <1>2, TellRows DEF Reg!TellInterrupted, Up
  <2>2. rows \in Seq(Reg!Row) /\ rows' = Append(rows, NoticeTo(p)) /\ NoticeTo(p) \in Reg!Row
    BY <2>1 DEF Grows, Base, StoresTyped
  <2>3. /\ DOMAIN rows = 1..Len(rows) /\ DOMAIN rows' = 1..(Len(rows) + 1) /\ Len(rows) \in Nat
        /\ rows'[Len(rows) + 1] = NoticeTo(p) /\ \A i \in DOMAIN rows : rows'[i] = rows[i]
    BY <2>2, AppendRow
  <2>4. ASSUME NEW i \in DOMAIN rows, rows[i].what = "notice"
        PROVE  rows[i].of \cap NoticeTo(p).of = {}
    <3> SUFFICES ASSUME NEW k \in rows[i].of, k \in NoticeTo(p).of PROVE FALSE
      OBVIOUS
    <3>1. PICK o \in Reg!ToTell : Reg!Key(o) = k /\ o.to = p
      BY DEF NoticeTo, Reg!Keys
    <3>2. o.to = rows[i].to
      BY <2>1, <2>4, <3>1 DEF Noticed, Reg!ToTell
    <3> QED  BY <2>4, <3>1, <3>2 DEF Reg!ToTell, Reg!Told
  <2> SUFFICES ASSUME NEW i \in DOMAIN rows', NEW j \in DOMAIN rows', i # j,
                      rows'[i].what = "notice", rows'[j].what = "notice"
               PROVE  rows'[i].of \cap rows'[j].of = {}
    BY DEF ToldOnce
  <2>5. (i \in DOMAIN rows \/ i = Len(rows) + 1) /\ (j \in DOMAIN rows \/ j = Len(rows) + 1)
    BY <2>3
  <2>6. CASE i \in DOMAIN rows /\ j \in DOMAIN rows
    BY <2>3, <2>6 DEF ToldOnce
  <2>7. CASE i = Len(rows) + 1 /\ j \in DOMAIN rows
    BY <2>3, <2>4, <2>7
  <2>8. CASE i \in DOMAIN rows /\ j = Len(rows) + 1
    BY <2>3, <2>4, <2>8
  <2> QED  BY <2>5, <2>6, <2>7, <2>8
<1> QED  BY <1>1, <1>2
-----------------------------------------------------------------------------
(* Tasks that were interrupted.                                             *)

(* The disk has a row that tells of an incarnation, or one of its own; a    *)
(* result of it is held; it is on record.                                   *)
OnRow(k) ==
    \E i \in 1..onDisk : \/ rows[i].what = "notice" /\ k \in rows[i].of
                         \/ rows[i].what = "mail" /\ rows[i].from = k
ByMail(k) == \E m \in (IF Up THEN reg.mail ELSE disk.mail) : m.from = k /\ m.kind = "result"
OnRecord(k) ==
    /\ k \in Reg!Keys(disk.records) /\ k \notin Reg!Keys(endedFile)
    /\ Up => k \in Reg!Keys(reg.live \cup reg.pending) /\ k \notin Reg!Keys(recovery)

Followed ==
    \A r \in begun :
      /\ r.name \in Task
      /\ \/ Reg!Key(r) \in closed \cup excused
         \/ OnRow(Reg!Key(r)) \/ ByMail(Reg!Key(r)) \/ OnRecord(Reg!Key(r))

LEMMA OnRowStays ==
    ASSUME Base, [Reg!Next]_(Reg!vars), NEW k, OnRow(k)
    PROVE  OnRow(k)'
<1>1. PICK i \in 1..onDisk : \/ rows[i].what = "notice" /\ k \in rows[i].of
                             \/ rows[i].what = "mail" /\ rows[i].from = k
  BY DEF OnRow
<1>2. i \in 1..onDisk' /\ rows'[i] = rows[i]
  BY Persists DEF Persist
<1> QED  BY <1>1, <1>2 DEF OnRow

LEMMA ByMailStays ==
    ASSUME Base, Mailed, KeptLive, [Reg!Next]_(Reg!vars), NEW k, ByMail(k)
    PROVE  OnRow(k)' \/ ByMail(k)'
<1>1. PICK m \in (IF Up THEN reg.mail ELSE disk.mail) : m.from = k /\ m.kind = "result"
  BY DEF ByMail
<1>2. OnRowOf(m)' => OnRow(k)'
  BY <1>1 DEF OnRowOf, OnRow
<1> QED  BY <1>1, <1>2, HeldStays DEF ByMail

(* An incarnation on record stays there unless its end is on the history's  *)
(* list.                                                                    *)
LEMMA DoesRecord ==
    ASSUME Base, Up, Up', \E new, ends : Does(new, ends), NEW k, OnRecord(k)
    PROVE  k \in closed' \/ OnRecord(k)'
<1>1. PICK new, ends : Does(new, ends)
  OBVIOUS
<1>2. Change(new, ends) /\ Writes(new, ends) /\ Closes(ends)
  BY <1>1 DEF Does
<1>3. /\ k \in Reg!Keys(disk.records) /\ k \notin Reg!Keys(endedFile)
           /\ k \notin Reg!Keys(recovery)
      /\ k \in Reg!Keys(reg.live \cup reg.pending)
  BY DEF OnRecord
<1>4. CASE k \in Reg!Keys(ends)
  <2>1. CASE k \notin closed'
    <3>1. reg' = reg /\ k \in Reg!Keys(disk'.records)
            /\ k \notin Reg!Keys(endedFile' \cup recovery')
      BY <1>2, <1>3, <1>4, <2>1 DEF Closes
    <3>2. k \notin Reg!Keys(endedFile') /\ k \notin Reg!Keys(recovery')
      BY <3>1, Keys2
    <3> QED  BY <1>3, <3>1, <3>2 DEF OnRecord
  <2> QED  BY <2>1
<1>5. CASE k \notin Reg!Keys(ends)
  <2>1. k \in Reg!Keys(new.live) \cup Reg!Keys(new.pending)
          /\ k \in Reg!Keys(reg.live) \cup Reg!Keys(reg.pending)
    <3>1. k \in Reg!Keys(reg.live) \cup Reg!Keys(reg.pending)
      BY <1>3, Keys2
    <3>2. Reg!Keys(reg.live) \subseteq Reg!Keys(new.live) \cup Reg!Keys(ends)
      BY <1>2, Keys2 DEF Change
    <3>3. new.pending = reg.pending
      BY <1>2 DEF Change
    <3> QED  BY <1>5, <3>1, <3>2, <3>3
  <2>2. k \in Reg!Keys(Filed(new)) /\ k \in Reg!Keys(Filed(reg))
    BY <2>1, Keys3 DEF Filed
  <2>3. reg \in Reg!Registry /\ new \in Reg!Registry
    BY <1>2 DEF Change, Base, RegTyped
  <2>4. disk'.records \in {disk.records, Filed(new), Filed(reg)} /\ reg' \in {reg, new}
    BY <1>2, <2>3, SnapshotOf DEF Writes
  <2>5. k \notin Reg!Keys(Reg!EndedHistory(reg))
    <3> SUFFICES ASSUME NEW s \in reg.ended, s \notin reg.pending, Reg!Key(s) = k PROVE FALSE
      BY DEF Reg!Keys, Reg!EndedHistory
    <3>1. \E r \in reg.live \cup reg.pending : Reg!Key(r) = k
      BY <2>1 DEF Reg!Keys
    <3> QED  BY <3>1 DEF Base, Placed
  <2>6. \A some \in SUBSET ends : k \notin Reg!Keys(recovery \cup some)
    <3> TAKE some \in SUBSET ends
    <3>1. k \notin Reg!Keys(some)
      BY <1>5 DEF Reg!Keys
    <3> QED  BY <1>3, <3>1, Keys2
  <2>7. k \notin Reg!Keys(recovery') /\ k \notin Reg!Keys(endedFile')
    <3>1. recovery' = recovery \cup ends \/ recovery' = Reg!EndedHistory(reg)
      BY <1>2 DEF Writes
    <3>2. k \notin Reg!Keys(recovery')
      BY <3>1, <2>5, <2>6
    <3> QED  BY <1>2, <1>3, <2>6, <3>2 DEF Writes
  <2>8. k \in Reg!Keys(reg'.live \cup reg'.pending)
    BY <2>1, <2>4, Keys2
  <2>9. k \in Reg!Keys(disk'.records)
    BY <1>3, <2>2, <2>4
  <2> QED  BY <2>7, <2>8, <2>9 DEF OnRecord
<1> QED  BY <1>4, <1>5

(* The end of the boot lets go of those told of, held or excused.           *)
LEMMA SettleRecord ==
    ASSUME Base, Reg!SettleInterrupted, NEW k, OnRecord(k)
    PROVE  k \in excused' \/ OnRow(k)' \/ ByMail(k)' \/ OnRecord(k)'
<1>1. /\ Up /\ Up'
      /\ UNCHANGED <<reg, Reg!files>> \/ onDisk' = Len(rows)
  BY SettleDoes DEF Up
<1>2. PICK done, some : Lets(done, some)
  BY SettleDoes
<1>3. /\ reg' \in Reg!Registry /\ reg'.live = reg.live /\ reg'.pending = reg.pending \ some
      /\ reg'.mail = reg.mail
  BY <1>2, LetsFields
<1>4. Reg!ToTell = {} /\ excused' = excused \cup Reg!Keys(Reg!Excused) /\ rows' = rows
  BY DEF Reg!SettleInterrupted
<1>5. /\ k \in Reg!Keys(disk.records) /\ k \notin Reg!Keys(endedFile)
           /\ k \notin Reg!Keys(recovery)
      /\ k \in Reg!Keys(reg.live) \cup Reg!Keys(reg.pending)
  BY <1>1, Keys2 DEF OnRecord
<1>6. CASE UNCHANGED <<reg, Reg!files>>
  BY <1>1, <1>6 DEF OnRecord, Reg!files
<1>7. CASE k \in Reg!Keys(reg.live)
  <2>1. k \notin Reg!Keys(done)
    <3>1. done \subseteq reg.ended
      BY <1>2 DEF Lets, Base, Placed
    <3> QED  BY <1>7, <3>1 DEF Reg!Keys, Base, Placed
  <2>2. k \notin Reg!Keys(recovery \cup done)
    BY <1>5, <2>1, Keys2
  <2>3. k \notin Reg!Keys(recovery') /\ k \notin Reg!Keys(endedFile')
    <3>1. Reg!Keys(endedFile') \subseteq Reg!Keys(recovery \cup done) \/ endedFile' = endedFile
      BY <1>2, KeysOf DEF Lets
    <3> QED  BY <1>2, <1>5, <2>2, <3>1 DEF Lets
  <2>4. k \in Reg!Keys(reg'.live \cup reg'.pending)
    BY <1>3, <1>7, Keys2
  <2>5. k \in Reg!Keys(disk'.records)
    <3>1. k \in Reg!Keys(Filed(reg'))
      BY <1>3, <1>7, Keys3 DEF Filed
    <3>2. disk'.records \in {disk.records, Filed(reg')}
      BY <1>2, <1>3, SnapshotOf DEF Lets
    <3> QED  BY <1>5, <3>1, <3>2
  <2> QED  BY <2>3, <2>4, <2>5 DEF OnRecord
<1>8. CASE k \in Reg!Keys(reg.pending) /\ onDisk' = Len(rows)
  <2>1. PICK r \in reg.pending : Reg!Key(r) = k
    BY <1>8 DEF Reg!Keys
  <2>2. r.to \notin Reg!Live \/ Reg!HandedOver(r) \/ Reg!Told(r)
    BY <1>4, <2>1 DEF Reg!ToTell
  <2>3. DOMAIN rows = 1..onDisk'
    BY <1>8 DEF Base, StoresTyped
  <2>4. CASE r \in Reg!Excused
    BY <1>4, <2>1, <2>4 DEF Reg!Keys
  <2>5. CASE r \notin Reg!Excused
    <3>1. r.to \in Reg!Live
      BY <2>1, <2>5 DEF Reg!Excused
    <3>2. \A m \in reg.mail : m.from[1] = r.name /\ m.kind = "result" => m.from = k
      BY <2>1, <2>5 DEF Reg!Excused
    <3>3. CASE Reg!Told(r)
      BY <1>4, <2>1, <2>3, <3>3 DEF Reg!Told, OnRow
    <3>4. CASE \E m \in reg.mail : m.from[1] = r.name /\ m.kind = "result"
      BY <1>1, <1>3, <3>2, <3>4 DEF ByMail
    <3>5. CASE \E i \in DOMAIN rows : /\ rows[i].what = "mail" /\ rows[i].kind = "result"
                                      /\ rows[i].from = Reg!Key(r) /\ rows[i].to = r.to
      BY <1>4, <2>1, <2>3, <3>5 DEF OnRow
    <3> QED  BY <2>2, <3>1, <3>3, <3>4, <3>5 DEF Reg!HandedOver
  <2> QED  BY <2>4, <2>5
<1> QED  BY <1>1, <1>5, <1>6, <1>7, <1>8

(* A crash leaves what is on file, a restart interrupts it.                 *)
LEMMA RestartRecord ==
    ASSUME Base, Reg!Crash \/ Reg!Restore, NEW k, k[1] \in Task, OnRecord(k)
    PROVE  OnRecord(k)'
<1>1. CASE Reg!Crash
  BY <1>1 DEF Reg!Crash, Up, OnRecord
<1>2. CASE Reg!Restore
  <2>1. /\ reg' \in Reg!Registry /\ reg'.live = {} /\ reg'.pending = Interrupted
        /\ disk' \in {disk, Reg!Snapshot(reg')} /\ recovery' = endedFile
             /\ endedFile' = endedFile
    BY <1>2, RestoreFields
  <2>2. PICK o \in disk.records : Reg!Key(o) = k
    BY DEF OnRecord, Reg!Keys
  <2>3. o \in Interrupted
    BY <2>2 DEF OnRecord, Interrupted, FiledTasks, Reg!Key
  <2>4. o \in reg'.live \cup reg'.pending /\ o \in disk'.records
    <3>1. disk'.records \in {disk.records, Filed(reg')}
      BY <2>1, SnapshotOf
    <3> QED  BY <2>1, <2>2, <2>3, <3>1 DEF Filed
  <2> QED  BY <2>1, <2>2, <2>4 DEF OnRecord, Reg!Keys
<1> QED  BY <1>1, <1>2

LEMMA HistoryGrows ==
    ASSUME [Reg!Next]_(Reg!vars)
    PROVE  closed \subseteq closed' /\ excused \subseteq excused'
BY DEF Reg!Next, Reg!Spawn, Reg!RunEnds, Reg!StopAgent, Reg!Reparent, Reg!HoldMail, Reg!Deliver,
       Reg!StoreRefuses, Reg!Replay, Reg!Crash, Reg!Restore, Reg!Declare, Reg!Reconcile,
       Reg!TellInterrupted, Reg!SettleInterrupted, Reg!vars, Reg!history

LEMMA SpawnFollowed ==
    ASSUME Base, NEW n \in Task, NEW s \in Reg!Name,
           NEW follows \in BOOLEAN, Reg!Spawn(n, s, follows),
           NEW r \in begun', r \notin begun
    PROVE  r.name \in Task /\ OnRecord(Reg!Key(r))'
<1>1. r = Reg!Spawned(n, s, follows) /\ r.name = n
  <2>1. r = Reg!Spawned(n, s, follows)
    BY SpawnDoes
  <2> QED  BY <2>1 DEF Reg!Spawned
<1>2. /\ Up /\ Up' /\ r \in reg'.live /\ disk' = Reg!Snapshot(reg') /\ endedFile' = endedFile
      /\ recovery' = recovery /\ Reg!Key(r) \notin Reg!Keys(AllOf(reg))
  BY <1>1, SpawnDoes DEF Up
<1>3. Reg!Key(r) \notin Reg!Keys(recovery) \cup Reg!Keys(endedFile)
  BY <1>2, EndedIsKnown, Keys2 DEF Base
<1>4. r \in disk'.records /\ r \in reg'.live \cup reg'.pending
  BY <1>2 DEF Reg!Snapshot
<1>5. Reg!Key(r) \in Reg!Keys(disk'.records)
        /\ Reg!Key(r) \in Reg!Keys(reg'.live \cup reg'.pending)
  BY <1>4 DEF Reg!Keys
<1> QED  BY <1>1, <1>2, <1>3, <1>5 DEF OnRecord

LEMMA FollowedStep ==
    ASSUME Base, Mailed, KeptLive, Followed, [Reg!Next]_(Reg!vars)
    PROVE  Followed'
<1> SUFFICES ASSUME NEW r \in begun'
             PROVE  /\ r.name \in Task
                    /\ \/ Reg!Key(r) \in closed' \cup excused'
                       \/ OnRow(Reg!Key(r))' \/ ByMail(Reg!Key(r))' \/ OnRecord(Reg!Key(r))'
  BY DEF Followed
<1>1. CASE r \notin begun
  <2>1. \E n \in Task, s \in Reg!Name, follows \in BOOLEAN : Reg!Spawn(n, s, follows)
    BY <1>1
       DEF Reg!Next, Reg!RunEnds, Reg!StopAgent, Reg!Reparent, Reg!HoldMail, Reg!Deliver,
           Reg!StoreRefuses, Reg!Replay, Reg!Crash, Reg!Restore, Reg!Declare, Reg!Reconcile,
           Reg!TellInterrupted, Reg!SettleInterrupted, Reg!vars, Reg!history
  <2> QED  BY <1>1, <2>1, SpawnFollowed
<1>2. CASE r \in begun
  <2>1. /\ r.name \in Task /\ Reg!Key(r)[1] = r.name
        /\ \/ Reg!Key(r) \in closed \cup excused
           \/ OnRow(Reg!Key(r)) \/ ByMail(Reg!Key(r)) \/ OnRecord(Reg!Key(r))
    BY <1>2 DEF Followed, Reg!Key
  <2>2. CASE Reg!Key(r) \in closed \cup excused
    BY <2>1, <2>2, HistoryGrows
  <2>3. CASE OnRow(Reg!Key(r)) \/ ByMail(Reg!Key(r))
    BY <2>1, <2>3, OnRowStays, ByMailStays
  <2>4. CASE OnRecord(Reg!Key(r))
    <3>1. CASE Acts
      <4>1. Up /\ Up' /\ \E new, ends : Does(new, ends)
        BY <3>1, ActsDo
      <4> QED  BY <2>1, <2>4, <4>1, DoesRecord
    <3>2. CASE Reg!SettleInterrupted
      BY <2>1, <2>4, <3>2, SettleRecord
    <3>3. CASE Reg!Crash \/ Reg!Restore
      BY <2>1, <2>4, <3>3, RestartRecord
    <3>4. CASE UNCHANGED Reg!vars
      BY <2>1, <2>4, <3>4 DEF OnRecord, Up, Reg!vars
    <3> QED  BY <3>1, <3>2, <3>3, <3>4, Steps
  <2> QED  BY <2>1, <2>2, <2>3, <2>4
<1> QED  BY <1>1, <1>2

LEMMA FollowedTells ==
    ASSUME Mailed, Followed, ToldOnce
    PROVE  Reg!InterruptedIsToldOnce
<1>1. ASSUME NEW r \in begun, Reg!Key(r) \notin closed \cup excused
      PROVE  \/ Reg!Key(r) \in Reg!Keys(disk.records)
             \/ \E i \in 1..onDisk : rows[i].what = "notice" /\ Reg!Key(r) \in rows[i].of
             \/ \E m \in disk.mail : m.from = Reg!Key(r) /\ m.kind = "result"
             \/ \E i \in 1..onDisk : rows[i].what = "mail" /\ rows[i].from = Reg!Key(r)
  <2>1. OnRow(Reg!Key(r)) \/ ByMail(Reg!Key(r)) \/ OnRecord(Reg!Key(r))
    BY <1>1 DEF Followed
  <2>2. CASE ByMail(Reg!Key(r))
    BY <2>2 DEF ByMail, Mailed, MailCovers
  <2> QED  BY <2>1, <2>2 DEF OnRow, OnRecord
<1> QED  BY <1>1 DEF Reg!InterruptedIsToldOnce, ToldOnce

-----------------------------------------------------------------------------
(* The whole of it.                                                         *)

RegistryInv ==
    /\ Base /\ Mailed /\ Counted /\ KeptLive /\ Landing
    /\ Safe /\ Noticed /\ ToldOnce /\ Followed

LEMMA RegistryInit == ASSUME Reg!Init PROVE RegistryInv
<1>1. /\ reg.mail = {} /\ disk.mail = {} /\ rows = <<>> /\ DOMAIN rows = {} /\ onDisk = 0
      /\ kept = {} /\ todo = {} /\ accepted = {} /\ begun = {} /\ phase = "up"
  <2>1. Reg!Resting.mail = {} /\ Reg!Snapshot(Reg!Resting).mail = Reg!Resting.mail
    BY DEF Reg!Resting, Reg!Snapshot, Reg!Empty
  <2>2. reg = Reg!Resting /\ disk = Reg!Snapshot(Reg!Resting) /\ rows = <<>> /\ onDisk = 0
    BY DEF Reg!Init
  <2>3. kept = {} /\ todo = {} /\ accepted = {} /\ begun = {} /\ phase = "up"
    BY DEF Reg!Init
  <2> QED  BY <2>1, <2>2, <2>3
<1>2. Mailed
  BY <1>1 DEF Mailed, Ids, MailCovers
<1>3. Counted
  BY <1>1 DEF Counted, InHand
<1>4. KeptLive /\ Landing
  BY <1>1 DEF KeptLive, Landing, Reg!LandsOnce, Up
<1>5. Safe /\ Noticed /\ ToldOnce /\ Followed
  BY <1>1 DEF Safe, Noticed, ToldOnce, Followed
<1> QED  BY <1>2, <1>3, <1>4, <1>5, BaseInit DEF RegistryInv

LEMMA RegistryStep == ASSUME RegistryInv, [Reg!Next]_(Reg!vars) PROVE RegistryInv'
BY BaseStep, MailedStep, CountedStep, KeptLiveStep, LandingStep, SafeStep, NoticedStep,
   ToldOnceStep, FollowedStep DEF RegistryInv

LEMMA RegistryKeeps ==
    ASSUME RegistryInv
    PROVE  Reg!AcceptedIsKept /\ Reg!LandsOnce /\ Reg!InterruptedIsToldOnce
BY SafeIsKept, FollowedTells DEF RegistryInv, Landing

-----------------------------------------------------------------------------
(* The parts side by side: a step is one part's, and leaves the registry's  *)
(* variables alone when it is another's.                                    *)

LEMMA RegistryPartInit == ASSUME StoresInit PROVE RegistryInv
BY RegistryInit DEF StoresInit

LEMMA RegistryPartStep ==
    ASSUME RegistryInv, [StoresNext]_<<part, vars, registryVars, pushVars>>
    PROVE  RegistryInv'
<1>1. [Reg!Next]_(Reg!vars)
  BY DEF StoresNext, registryVars, Reg!vars
<1> QED  BY <1>1, RegistryStep

LEMMA RegistryAlways == StoresSpec => []RegistryInv
<1>1. StoresInit => RegistryInv
  BY RegistryPartInit
<1>2. RegistryInv /\ [StoresNext]_<<part, vars, registryVars, pushVars>> => RegistryInv'
  BY RegistryPartStep
<1> QED  BY <1>1, <1>2, PTL DEF StoresSpec

(* Mail whose sender was told it is held stays on file until a copy is on   *)
(* disk in its recipient's store, through failed writes, rolled back        *)
(* requests, refused deliveries and crashes (registry.ts holdMail and       *)
(* releaseMail, framework.ts storeHeldMail).                                *)
THEOREM AcceptedMailIsKept == StoresSpec => []AcceptedIsKept
<1>1. RegistryInv => AcceptedIsKept
  BY RegistryKeeps DEF AcceptedIsKept
<1> QED  BY <1>1, RegistryAlways, PTL

(* However a crash, a failed sync, a surgery's hold or an agent's end comes *)
(* between a copy and its mail's release, no recipient gets a mail twice    *)
(* that was not addressed three times (framework.ts deliverHeldMail).       *)
THEOREM MailLandsOnce == StoresSpec => []LandsOnce
<1>1. RegistryInv => LandsOnce
  BY RegistryKeeps DEF LandsOnce
<1> QED  BY <1>1, RegistryAlways, PTL

(* A task that was live at a crash is on record until its recipient's       *)
(* notice or its own result is on disk, through any number of boots that    *)
(* are cut short, and no two notices name it (framework.ts                  *)
(* tellInterrupted, registry.ts settleInterrupted).                         *)
THEOREM InterruptedAreToldOnce == StoresSpec => []InterruptedIsToldOnce
<1>1. RegistryInv => InterruptedIsToldOnce
  BY RegistryKeeps DEF InterruptedIsToldOnce
<1> QED  BY <1>1, RegistryAlways, PTL
-----------------------------------------------------------------------------
(* The pushes.                                                              *)

LEMMA PushGiven == Push!PushConstants
BY StoresConstants


(* Recursion over an interval.                                              *)

(* What holds of the first number and of each when of the one before, holds *)
(* of all.                                                                  *)
LEMMA UpFrom ==
    ASSUME NEW a \in Nat, NEW b \in Nat, NEW T, a \in T,
           \A i \in (a + 1)..b : i - 1 \in T => i \in T
    PROVE  a..b \subseteq T
<1> DEFINE U == {i \in a..b : i \notin T}
<1>1. U = {}
  <2> SUFFICES ASSUME U # {} PROVE FALSE
    OBVIOUS
  <2>1. U \subseteq Nat
    OBVIOUS
  <2>2. PICK i \in U : \A k \in U : i <= k
    <3> HIDE DEF U
    <3> QED  BY <2>1, Least
  <2>3. i \in a..b /\ i \notin T /\ i # a
    OBVIOUS
  <2>4. i \in (a + 1)..b /\ i - 1 \in a..b /\ ~ (i <= i - 1)
    BY <2>3
  <2>5. i - 1 \in T
    BY <2>2, <2>4
  <2> QED  BY <2>3, <2>4, <2>5
<1> QED  BY <1>1

(* The values a recursion goes through.                                     *)
Recurs(a, b, s, F, g) ==
    g[a] = s /\ \A i \in (a + 1)..b : g[i] = F[<<i, g[i - 1]>>]

LEMMA Recursion ==
    ASSUME NEW a \in Nat, NEW b \in Nat, a <= b, NEW S, NEW s \in S,
           NEW F \in [((a + 1)..b) \X S -> S]
    PROVE  \E g \in [a..b -> S] : Recurs(a, b, s, F, g)
<1> DEFINE T == {n \in a..b : \E g \in [a..n -> S] : Recurs(a, n, s, F, g)}
<1>1. a \in T
  <2> DEFINE g == [i \in a..a |-> s]
  <2>1. g \in [a..a -> S] /\ g[a] = s /\ (a + 1)..a = {}
    OBVIOUS
  <2> HIDE DEF g
  <2>2. Recurs(a, a, s, F, g)
    BY <2>1 DEF Recurs
  <2> QED  BY <2>1, <2>2
<1>2. ASSUME NEW n \in (a + 1)..b, n - 1 \in T PROVE n \in T
  <2>1. PICK g \in [a..(n - 1) -> S] : Recurs(a, n - 1, s, F, g)
    BY <1>2
  <2>2. n \in Nat /\ n - 1 \in a..(n - 1) /\ g[n - 1] \in S /\ <<n, g[n - 1]>> \in ((a + 1)..b) \X S
    OBVIOUS
  <2> DEFINE last == F[<<n, g[n - 1]>>]
             h == [i \in a..n |-> IF i = n THEN last ELSE g[i]]
  <2>3. last \in S
    BY <2>2
  <2> HIDE DEF last
  <2>4. \A i \in a..n : i = n \/ i \in a..(n - 1)
    BY <2>2
  <2>5. h \in [a..n -> S] /\ h[n] = last /\ \A i \in a..(n - 1) : h[i] = g[i]
    BY <2>2, <2>3, <2>4
  <2> HIDE DEF h
  <2>6. h[a] = s
    BY <2>1, <2>2, <2>5 DEF Recurs
  <2>7. ASSUME NEW i \in (a + 1)..n PROVE h[i] = F[<<i, h[i - 1]>>]
    <3>1. i - 1 \in a..(n - 1)
      BY <2>2
    <3>2. CASE i = n
      BY <2>5, <3>1, <3>2 DEF last
    <3>3. CASE i # n
      <4>1. i \in (a + 1)..(n - 1) /\ i \in a..(n - 1)
        BY <3>3, <2>2
      <4> QED  BY <2>1, <2>5, <3>1, <4>1 DEF Recurs
    <3> QED  BY <3>2, <3>3
  <2>8. Recurs(a, n, s, F, h)
    BY <2>6, <2>7 DEF Recurs
  <2> QED  BY <2>5, <2>8
<1>3. b \in T
  <2> HIDE DEF T
  <2>1. a..b \subseteq T
    BY <1>1, <1>2, UpFrom
  <2> QED  BY <2>1
<1> QED  BY <1>3

(* A sequence's part in a set.                                              *)
Among(s, n, a) == \E i \in 1..n : s[i] = a
Before(s, n, a, b) == \E i, j \in 1..n : i < j /\ s[i] = a /\ s[j] = b

IsWithin(f, s, S) ==
    f = [i \in 0..Len(s) |->
          IF i = 0 THEN <<>> ELSE IF s[i] \in S THEN Append(f[i - 1], s[i]) ELSE f[i - 1]]

Selects(f, s, S, Y) ==
    /\ f \in [0..Len(s) -> Y]
    /\ f[0] = <<>>
    /\ \A i \in 1..Len(s) : f[i] = IF s[i] \in S THEN Append(f[i - 1], s[i]) ELSE f[i - 1]

LEMMA WithinFun ==
    ASSUME NEW X, NEW s \in Seq(X), NEW S
    PROVE  \E f : Push!Within(s, S) = f[Len(s)] /\ Selects(f, s, S, Seq(X \cap S))
<1> DEFINE n == Len(s)
           Y == Seq(X \cap S)
           f == CHOOSE g : IsWithin(g, s, S)
           F == [p \in ((0 + 1)..n) \X Y |-> IF s[p[1]] \in S THEN Append(p[2], s[p[1]]) ELSE p[2]]
<1>0. n \in Nat /\ 0 <= n /\ <<>> \in Y /\ \A i \in 1..n : s[i] \in X
  OBVIOUS
<1>1. F \in [((0 + 1)..n) \X Y -> Y]
  <2>1. ASSUME NEW p \in ((0 + 1)..n) \X Y
        PROVE  (IF s[p[1]] \in S THEN Append(p[2], s[p[1]]) ELSE p[2]) \in Y
    <3>1. p[1] \in 1..n /\ p[2] \in Y
      BY <1>0
    <3>2. s[p[1]] \in X
      BY <1>0, <3>1
    <3> QED  BY <3>1, <3>2
  <2> QED  BY <2>1
<1>2. PICK g \in [0..n -> Y] : Recurs(0, n, <<>>, F, g)
  <2> HIDE DEF F, n, Y
  <2> QED  BY <1>0, <1>1, Recursion
<1>3. ASSUME NEW i \in 1..n PROVE g[i] = IF s[i] \in S THEN Append(g[i - 1], s[i]) ELSE g[i - 1]
  <2>1. i \in (0 + 1)..n /\ i - 1 \in 0..n
    BY <1>0
  <2>2. <<i, g[i - 1]>> \in ((0 + 1)..n) \X Y
    BY <2>1
  <2> QED  BY <1>2, <2>1, <2>2 DEF Recurs
<1>4. g[0] = <<>>
  BY <1>2 DEF Recurs
<1>5. IsWithin(g, s, S)
  <2>1. g = [i \in 0..n |-> g[i]]
    OBVIOUS
  <2>2. ASSUME NEW i \in 0..n
        PROVE  g[i] = IF i = 0 THEN <<>> ELSE IF s[i] \in S THEN Append(g[i - 1], s[i]) ELSE g[i - 1]
    <3> HIDE DEF n
    <3>1. i = 0 \/ i \in 1..n
      BY <1>0
    <3>2. CASE i = 0
      BY <1>4, <3>2
    <3>3. CASE i \in 1..n
      <4>1. i # 0
        BY <3>3
      <4> QED  BY <1>3, <3>3, <4>1
    <3> QED  BY <3>1, <3>2, <3>3
  <2> QED  BY <2>1, <2>2 DEF IsWithin
<1>6. IsWithin(f, s, S)
  <2> HIDE DEF n
  <2> QED  BY <1>5
<1>7. Push!Within(s, S) = f[n]
  BY DEF Push!Within, IsWithin
<1>8. f[0] = <<>> /\ \A i \in 1..n : f[i] = IF s[i] \in S THEN Append(f[i - 1], s[i]) ELSE f[i - 1]
  <2> HIDE DEF f, n
  <2>1. f = [i \in 0..n |-> IF i = 0 THEN <<>> ELSE IF s[i] \in S THEN Append(f[i - 1], s[i]) ELSE f[i - 1]]
    BY <1>6 DEF IsWithin, n
  <2>2. 0 \in 0..n /\ \A i \in 1..n : i \in 0..n /\ i # 0
    BY <1>0
  <2> QED  BY <2>1, <2>2
<1>9. f \in [0..n -> Y]
  <2> HIDE DEF f
  <2> DEFINE T == {i \in 0..n : f[i] = g[i]}
  <2>1. 0 \in T
    BY <1>0, <1>4, <1>8
  <2>2. ASSUME NEW i \in (0 + 1)..n, i - 1 \in T PROVE i \in T
    BY <1>0, <1>3, <1>8, <2>2
  <2>3. 0..n \subseteq T
    <3> HIDE DEF T, n
    <3> QED  BY <1>0, <2>1, <2>2, UpFrom
  <2>4. f = [i \in 0..n |-> f[i]]
    BY <1>6 DEF IsWithin
  <2> QED  BY <2>3, <2>4
<1>10. Selects(f, s, S, Y)
  <2> HIDE DEF f
  <2> QED  BY <1>8, <1>9 DEF Selects
<1> QED  BY <1>7, <1>10

LEMMA WithinIs ==
    ASSUME NEW X, NEW s \in Seq(X), NEW S
    PROVE  /\ Push!Within(s, S) \in Seq(X \cap S)
           /\ \A a : Among(Push!Within(s, S), Len(Push!Within(s, S)), a) <=> Among(s, Len(s), a) /\ a \in S
           /\ \A a, b : Before(Push!Within(s, S), Len(Push!Within(s, S)), a, b)
                          <=> Before(s, Len(s), a, b) /\ a \in S /\ b \in S
<1> DEFINE n == Len(s)
<1>0. n \in Nat
  OBVIOUS
<1>p. PICK f : Push!Within(s, S) = f[Len(s)] /\ Selects(f, s, S, Seq(X \cap S))
  BY WithinFun
<1>1. /\ Push!Within(s, S) = f[n] /\ f \in [0..n -> Seq(X \cap S)]
      /\ f[0] = <<>>
      /\ \A i \in 1..n : f[i] = IF s[i] \in S THEN Append(f[i - 1], s[i]) ELSE f[i - 1]
  BY <1>p DEF Selects
<1> DEFINE P(i) == /\ \A a : Among(f[i], Len(f[i]), a) <=> Among(s, i, a) /\ a \in S
                   /\ \A a, b : Before(f[i], Len(f[i]), a, b) <=> Before(s, i, a, b) /\ a \in S /\ b \in S
           T == {i \in 0..n : P(i)}
<1>2. 0 \in T
  BY <1>0, <1>1 DEF Among, Before
<1>3. ASSUME NEW i \in (0 + 1)..n, i - 1 \in T PROVE i \in T
  <2>1. i \in 1..n /\ i - 1 \in 0..n /\ i \in Nat /\ i \in 0..n
    BY <1>0
  <2> DEFINE q == f[i - 1]
             m == Len(q)
  <2>2. q \in Seq(X \cap S) /\ P(i - 1) /\ m \in Nat
    <3>1. P(i - 1)
      BY <1>3
    <3>2. q \in Seq(X \cap S)
      BY <1>1, <2>1
    <3> QED  BY <3>1, <3>2
  <2>3. \A a : Among(s, i, a) <=> Among(s, i - 1, a) \/ a = s[i]
    BY <2>1 DEF Among
  <2>4. \A a, b : Before(s, i, a, b) <=> Before(s, i - 1, a, b) \/ (Among(s, i - 1, a) /\ b = s[i])
    <3> TAKE a, b
    <3>1. ASSUME Before(s, i, a, b) PROVE Before(s, i - 1, a, b) \/ (Among(s, i - 1, a) /\ b = s[i])
      <4>1. PICK k, l \in 1..i : k < l /\ s[k] = a /\ s[l] = b
        BY <3>1 DEF Before
      <4>2. CASE l = i
        BY <2>1, <4>1, <4>2 DEF Among
      <4>3. CASE l # i
        <5>1. k \in 1..(i - 1) /\ l \in 1..(i - 1)
          BY <2>1, <4>1, <4>3
        <5> QED  BY <4>1, <5>1 DEF Before
      <4> QED  BY <4>2, <4>3
    <3>2. ASSUME Before(s, i - 1, a, b) PROVE Before(s, i, a, b)
      <4>1. PICK k, l \in 1..(i - 1) : k < l /\ s[k] = a /\ s[l] = b
        BY <3>2 DEF Before
      <4>2. k \in 1..i /\ l \in 1..i
        BY <2>1
      <4> QED  BY <4>1, <4>2 DEF Before
    <3>3. ASSUME Among(s, i - 1, a), b = s[i] PROVE Before(s, i, a, b)
      <4>1. PICK k \in 1..(i - 1) : s[k] = a
        BY <3>3 DEF Among
      <4>2. k \in 1..i /\ i \in 1..i /\ k < i
        BY <2>1
      <4> QED  BY <3>3, <4>1, <4>2 DEF Before
    <3> QED  BY <3>1, <3>2, <3>3
  <2>5. CASE s[i] \notin S
    <3>1. f[i] = q
      BY <1>1, <2>1, <2>5
    <3>2. P(i)
      <4> HIDE DEF q
      <4> QED  BY <2>2, <2>3, <2>4, <2>5, <3>1 DEF q
    <3> QED  BY <2>1, <3>2
  <2>6. CASE s[i] \in S
    <3>1. f[i] = Append(q, s[i])
      BY <1>1, <2>1, <2>6
    <3>0. s[i] \in X \cap S
      BY <1>0, <2>1, <2>6
    <3> DEFINE r == Append(q, s[i])
    <3> HIDE DEF q
    <3>2. Len(r) = m + 1 /\ r[m + 1] = s[i] /\ \A k \in 1..m : r[k] = q[k]
      BY <2>2, <3>0
    <3> HIDE DEF r
    <3>3. \A a : Among(r, m + 1, a) <=> Among(q, m, a) \/ a = s[i]
      BY <2>2, <3>2 DEF Among
    <3>4. \A a, b : Before(r, m + 1, a, b) <=> Before(q, m, a, b) \/ (Among(q, m, a) /\ b = s[i])
      <4> TAKE a, b
      <4>1. ASSUME Before(r, m + 1, a, b) PROVE Before(q, m, a, b) \/ (Among(q, m, a) /\ b = s[i])
        <5>1. PICK k, l \in 1..(m + 1) : k < l /\ r[k] = a /\ r[l] = b
          BY <4>1 DEF Before
        <5>2. k \in 1..m
          BY <2>2, <5>1
        <5>3. CASE l = m + 1
          BY <5>1, <5>2, <5>3, <3>2 DEF Among
        <5>4. CASE l # m + 1
          <6>1. l \in 1..m
            BY <2>2, <5>1, <5>4
          <6> QED  BY <5>1, <5>2, <6>1, <3>2 DEF Before
        <5> QED  BY <5>3, <5>4
      <4>2. ASSUME Before(q, m, a, b) PROVE Before(r, m + 1, a, b)
        <5>1. PICK k, l \in 1..m : k < l /\ q[k] = a /\ q[l] = b
          BY <4>2 DEF Before
        <5>2. k \in 1..(m + 1) /\ l \in 1..(m + 1) /\ r[k] = a /\ r[l] = b
          BY <2>2, <3>2, <5>1
        <5> QED  BY <5>1, <5>2 DEF Before
      <4>3. ASSUME Among(q, m, a), b = s[i] PROVE Before(r, m + 1, a, b)
        <5>1. PICK k \in 1..m : q[k] = a
          BY <4>3 DEF Among
        <5>2. k \in 1..(m + 1) /\ m + 1 \in 1..(m + 1) /\ k < m + 1 /\ r[k] = a
          BY <2>2, <3>2, <5>1
        <5> QED  BY <4>3, <3>2, <5>2 DEF Before
      <4> QED  BY <4>1, <4>2, <4>3
    <3>5. f[i] = r /\ Len(f[i]) = m + 1
      BY <3>1, <3>2 DEF r
    <3>6. /\ \A a : Among(q, m, a) <=> Among(s, i - 1, a) /\ a \in S
          /\ \A a, b : Before(q, m, a, b) <=> Before(s, i - 1, a, b) /\ a \in S /\ b \in S
      BY <2>2 DEF q
    <3>7. \A a : Among(r, m + 1, a) <=> Among(s, i, a) /\ a \in S
      BY <2>3, <2>6, <3>3, <3>6
    <3>8. \A a, b : Before(r, m + 1, a, b) <=> Before(s, i, a, b) /\ a \in S /\ b \in S
      BY <2>4, <2>6, <3>4, <3>6
    <3>9. P(i)
      <4> HIDE DEF m
      <4> QED  BY <3>5, <3>7, <3>8
    <3> QED  BY <2>1, <3>9
  <2> QED  BY <2>5, <2>6
<1>4. n \in T
  <2>1. 0..n \subseteq T
    <3> HIDE DEF T, n
    <3> QED  BY <1>0, <1>2, <1>3, UpFrom
  <2> QED  BY <1>0, <2>1
<1> QED  BY <1>0, <1>1, <1>4

-----------------------------------------------------------------------------
(* What the steps of one subject preserve.                                  *)
Statuses == {"none", "unwritten", "written", "committed"}
KindsOf == {"unsent", "plain", "deferred", "retract"}
Tries == {line[i] : i \in DOMAIN line}

(* A batch has its newest event among its notices, and it was tried.        *)
SoundBatch(b) == b \in Push!Batch /\ (b # Push!NoBatch => b.latest \in b.notices)
Spoken(b) == SoundBatch(b) /\ b.latest \in Tries \cup {NoEvent}

ReceiptRecord == [event : Event, outcome : Push!Outcome \ {"none"}, born : Push!History \cup {"kept"},
    batch : Push!Batch]
PushStore == [rows : [Event -> Nat], recent : Seq(ReceiptRecord), torn : SUBSET Event,
          snap : [history : Push!History, known : [Event -> Push!Outcome], batch : Push!Batch]]
SubjectType == [history : Push!History, run : Seq(Event), rendered : BOOLEAN,
                batch : Push!Batch, rendering : Push!Batch, by : {"turn", "keeper"}]

SubjectOK(s) ==
    /\ s \in SubjectType /\ Spoken(s.batch) /\ Spoken(s.rendering)
    /\ \A i \in DOMAIN s.run : s.run[i] \in Tries

ReceiptsOK ==
    /\ receipts \in [Event -> [outcome : Push!Outcome, status : Statuses,
         born : Push!History \cup {"kept"}]]
    /\ \A e \in Event : receipts[e].status = "none" <=> receipts[e].outcome = "none"

PushTyped ==
    /\ SubjectOK(subject) /\ ReceiptsOK
    /\ recent \in Seq(ReceiptRecord) /\ \A i \in DOMAIN recent : Spoken(recent[i].batch)
    /\ lock \in Event \cup {"free", "freeze", "settle"}
    /\ wake \in BOOLEAN /\ keeper \in BOOLEAN /\ armed \in BOOLEAN
    /\ suspended \in BOOLEAN /\ authorized \in BOOLEAN /\ dirty \in BOOLEAN /\ missed \in BOOLEAN
    /\ settled \subseteq Event /\ cutOff \subseteq Event /\ overlaid \subseteq Event
    /\ kind \in [Event -> KindsOf] /\ line \in Seq(Event)

(* The last event tried, if admitted, is where Keeps says.                  *)
Newest(e) == line # <<>> /\ line[Len(line)] = e
Taken(e) == kind[e] = "retract" /\ receipts[e].outcome # "noted"
Excused == settled \cup cutOff \cup overlaid
StoreBatch(st) == IF st.recent = <<>> THEN st.snap.batch ELSE st.recent[Len(st.recent)].batch
Holding(s, st, e) ==
    Taken(e) \/ st.rows[e] > 0 \/ e \in {s.batch.latest, s.rendering.latest} \/ e \in Excused
KeptBy(st, e) == Taken(e) \/ st.rows[e] > 0 \/ StoreBatch(st).latest = e \/ e \in Excused \cup st.torn

(* In memory; a batch that came during a render is newer than it.           *)
Held(s, st) ==
    \A e \in Event : Newest(e) =>
        /\ receipts[e].status # "none" => Holding(s, st, e)
        /\ s.batch # Push!NoBatch /\ s.rendering.latest = e => s.batch.latest = e

(* What a store says of the receipts is so, and it has those committed.     *)
Faithful(st) ==
    /\ \A e \in Event : st.snap.known[e] # "none" => st.snap.known[e] = receipts[e].outcome
    /\ \A i \in DOMAIN st.recent : st.recent[i].outcome = receipts[st.recent[i].event].outcome
    /\ \A e \in Event : receipts[e].status = "committed" => Push!Known(st, e)

StoreTyped(st) ==
    /\ st \in PushStore /\ Spoken(st.snap.batch)
    /\ \A i \in DOMAIN st.recent : Spoken(st.recent[i].batch)
GoodStore(st) ==
    /\ StoreTyped(st) /\ Faithful(st)
    /\ \A e \in Event : Newest(e) /\ Push!Known(st, e) => KeptBy(st, e)
FullStore(st) ==
    GoodStore(st) /\ \A e \in Event : receipts[e].status \in {"written", "committed"} => Push!Known(st, e)

PushStores == stored \in lasting /\ (\A st \in lasting : GoodStore(st)) /\ FullStore(stored)

(* What the host keeps of the receipts is what it would write, or its       *)
(* snapshot has them all.                                                   *)
Recents ==
    \/ recent = stored.recent
    \/ recent = <<>> /\ \A e \in Event : receipts[e].status \in {"written", "committed"}
         => stored.snap.known[e] # "none"

(* Where a step of a render leaves the batches.                             *)
Stages ==
    /\ lock = "freeze" => subject.batch = Push!NoBatch /\ subject.rendering # Push!NoBatch
    /\ lock = "settle" => subject.batch # Push!NoBatch
    /\ lock \in Event => receipts[lock].status \in {"written", "committed"}
    /\ subject.rendering # Push!NoBatch /\ lock # "freeze" => ~armed

Awaiting ==
    subject.batch # Push!NoBatch /\ ~suspended /\ authorized /\ ~missed /\ lock # "settle"
        => wake \/ keeper \/ armed

Answered == answered \subseteq Event /\ \A e \in answered : receipts[e].status = "committed"

PushInv == PushTyped /\ PushStores /\ Recents /\ Stages /\ Awaiting /\ Answered /\ Held(subject, stored)

-----------------------------------------------------------------------------
LEMMA NoBatchIs ==
    /\ Push!NoBatch \in Push!Batch /\ Push!NoBatch.latest = NoEvent /\ Push!NoBatch.notices = {}
         /\ Push!NoBatch.bound = FALSE
    /\ Spoken(Push!NoBatch)
BY DEF Push!NoBatch, Push!Batch, SoundBatch, Spoken

LEMMA SpokenIs ==
    ASSUME NEW b, Spoken(b)
    PROVE  /\ b # Push!NoBatch => b.latest \in Event /\ b.latest # NoEvent /\ b.latest \in b.notices
           /\ b.latest \in Event => b # Push!NoBatch
           /\ b.latest \in Event \cup {NoEvent} /\ b.notices \subseteq Event
           /\ b.latest \in Tries \cup {NoEvent}
           /\ b.noRender \in BOOLEAN /\ b.mayBeStored \in BOOLEAN /\ b.bound \in BOOLEAN
           /\ b = [latest |-> b.latest, notices |-> b.notices, noRender |-> b.noRender,
                   mayBeStored |-> b.mayBeStored, bound |-> b.bound]
BY PushGiven, NoBatchIs DEF Spoken, SoundBatch, Push!Batch, Push!PushConstants

(* A batch with other flags is as sound.                                    *)
LEMMA SpokenAgain ==
    ASSUME NEW b, Spoken(b), b # Push!NoBatch, NEW c, c \in Push!Batch, c.latest = b.latest,
        c.notices = b.notices
    PROVE  Spoken(c) /\ c # Push!NoBatch
BY PushGiven, NoBatchIs, SpokenIs DEF Spoken, SoundBatch, Push!Batch, Push!PushConstants

(* A snapshot's batch is the pending one or the one being rendered.         *)
LEMMA SnapshotIs ==
    ASSUME ReceiptsOK, NEW s, SubjectOK(s)
    PROVE  LET p == Push!Snapshot(s, receipts) IN
           /\ p \in [history : Push!History, known : [Event -> Push!Outcome], batch : Push!Batch]
           /\ Spoken(p.batch)
           /\ \A e \in Event : p.known[e] = receipts[e].outcome
           /\ p.batch.latest = IF s.batch # Push!NoBatch THEN s.batch.latest ELSE s.rendering.latest
<1> DEFINE p == Push!Snapshot(s, receipts)
<1>0. Spoken(s.batch) /\ Spoken(s.rendering)
  BY DEF SubjectOK
<1>1. p.known = [e \in Event |-> receipts[e].outcome] /\ p.history \in Push!History
  BY DEF Push!Snapshot, SubjectOK, SubjectType, Push!History
<1>2. p.known \in [Event -> Push!Outcome] /\ \A e \in Event : p.known[e] = receipts[e].outcome
  BY <1>1 DEF ReceiptsOK
<1>3. /\ p.batch \in Push!Batch /\ Spoken(p.batch)
      /\ p.batch.latest = IF s.batch # Push!NoBatch THEN s.batch.latest ELSE s.rendering.latest
  <2>1. CASE s.batch # Push!NoBatch
    <3>1. p.batch = [s.batch EXCEPT !.mayBeStored = FALSE]
      BY <2>1 DEF Push!Snapshot
    <3>2. p.batch \in Push!Batch /\ p.batch.latest = s.batch.latest /\ p.batch.notices = s.batch.notices
      BY <1>0, <3>1 DEF Spoken, SoundBatch, Push!Batch
    <3> QED  BY <1>0, <2>1, <3>2, SpokenAgain
  <2>2. CASE s.batch = Push!NoBatch /\ s.rendering # Push!NoBatch
    <3>1. p.batch = [s.rendering EXCEPT !.noRender = TRUE, !.mayBeStored = FALSE]
      BY <2>2 DEF Push!Snapshot
    <3>2. p.batch \in Push!Batch /\ p.batch.latest = s.rendering.latest
            /\ p.batch.notices = s.rendering.notices
      BY <1>0, <3>1 DEF Spoken, SoundBatch, Push!Batch
    <3> QED  BY <1>0, <2>2, <3>2, SpokenAgain
  <2>3. CASE s.batch = Push!NoBatch /\ s.rendering = Push!NoBatch
    <3>1. p.batch = Push!NoBatch
      BY <2>3 DEF Push!Snapshot
    <3> QED  BY <2>3, <3>1, NoBatchIs
  <2> QED  BY <2>1, <2>2, <2>3
<1>4. p = [history |-> p.history, known |-> p.known, batch |-> p.batch]
  BY DEF Push!Snapshot
<1> HIDE DEF p
<1> QED  BY <1>1, <1>2, <1>3, <1>4 DEF p

(* What a store knows was admitted.                                         *)
LEMMA KnownIs ==
    ASSUME ReceiptsOK, NEW st, StoreTyped(st), NEW e \in Event, Push!Known(st, e),
           \A d \in Event : st.snap.known[d] # "none" => st.snap.known[d] = receipts[d].outcome,
           \A i \in DOMAIN st.recent : st.recent[i].outcome = receipts[st.recent[i].event].outcome
    PROVE  receipts[e].status # "none"
<1>1. CASE st.snap.known[e] # "none"
  BY <1>1 DEF ReceiptsOK
<1>2. CASE \E i \in DOMAIN st.recent : st.recent[i].event = e
  <2>1. PICK i \in DOMAIN st.recent : st.recent[i].event = e
    BY <1>2
  <2>2. st.recent[i] \in ReceiptRecord
    BY DEF StoreTyped, PushStore
  <2> QED  BY <2>1, <2>2 DEF ReceiptsOK, ReceiptRecord
<1> QED  BY <1>1, <1>2 DEF Push!Known

(* The rows of a store grow.                                                *)
LEMMA RowsUp ==
    ASSUME NEW st, FullStore(st), NEW f \in [Event -> Nat], \A e \in Event : f[e] >= st.rows[e]
    PROVE  FullStore([st EXCEPT !.rows = f])
<1> DEFINE v == [st EXCEPT !.rows = f]
<1>1. st \in PushStore
  BY DEF FullStore, GoodStore, StoreTyped
<1>2. v \in PushStore /\ v.rows = f /\ v.recent = st.recent /\ v.torn = st.torn /\ v.snap = st.snap
  BY <1>1 DEF PushStore
<1> HIDE DEF v
<1>3. \A e \in Event : Push!Known(v, e) <=> Push!Known(st, e)
  BY <1>2 DEF Push!Known
<1>4. StoreTyped(v)
  BY <1>2 DEF FullStore, GoodStore, StoreTyped
<1>5. Faithful(v)
  BY <1>2, <1>3 DEF FullStore, GoodStore, Faithful
<1>6. ASSUME NEW e \in Event, Newest(e), Push!Known(v, e) PROVE KeptBy(v, e)
  <2>1. KeptBy(st, e)
    BY <1>3, <1>6 DEF FullStore, GoodStore
  <2>2. st.rows[e] > 0 => f[e] > 0
    <3>1. st.rows[e] \in Nat /\ f[e] \in Nat /\ f[e] >= st.rows[e]
      BY <1>1 DEF PushStore
    <3> QED  BY <3>1
  <2> QED  BY <1>2, <2>1, <2>2 DEF KeptBy, StoreBatch
<1> QED  BY <1>3, <1>4, <1>5, <1>6 DEF FullStore, GoodStore, v

(* The first write of a save: what it knows beyond the store is of receipts *)
(* whose record could not be written.                                       *)
LEMMA StartsFull ==
    ASSUME ReceiptsOK, overlaid \subseteq Event, NEW st, FullStore(st), NEW s, SubjectOK(s), Held(s, st)
    PROVE  FullStore(Push!Starts(st, s)) /\ FullStore(Push!Clears(Push!Starts(st, s)))
<1> DEFINE p == Push!Snapshot(s, receipts)
           v == Push!Starts(st, s)
           w == Push!Clears(v)
           T == IF st.recent = <<>> THEN {} ELSE st.torn \cup {e \in Event : receipts[e].status = "unwritten"}
<1>1. /\ st \in PushStore /\ StoreTyped(st) /\ Faithful(st)
      /\ \A e \in Event : receipts[e].status \in {"written", "committed"} => Push!Known(st, e)
  BY DEF FullStore, GoodStore, StoreTyped
<1>2. /\ p \in [history : Push!History, known : [Event -> Push!Outcome], batch : Push!Batch]
      /\ Spoken(p.batch)
      /\ \A e \in Event : p.known[e] = receipts[e].outcome
      /\ p.batch.latest = IF s.batch # Push!NoBatch THEN s.batch.latest ELSE s.rendering.latest
  BY SnapshotIs
<1> HIDE DEF p
<1>3. T \subseteq Event
  BY <1>1 DEF PushStore
<1>4. v = [st EXCEPT !.snap = p, !.torn = T]
  BY DEF Push!Starts, p
<1>5. v \in PushStore /\ v.rows = st.rows /\ v.recent = st.recent /\ v.torn = T /\ v.snap = p
  <2> HIDE DEF v, T
  <2> QED  BY <1>1, <1>2, <1>3, <1>4 DEF PushStore
<1>6. w \in PushStore /\ w.rows = st.rows /\ w.recent = <<>> /\ w.torn = {} /\ w.snap = p
  <2> HIDE DEF v
  <2>1. w = [v EXCEPT !.recent = <<>>, !.torn = {}]
    BY DEF Push!Clears
  <2>2. v = [rows |-> v.rows, recent |-> v.recent, torn |-> v.torn, snap |-> v.snap]
    BY <1>5 DEF PushStore
  <2>3. w = [rows |-> v.rows, recent |-> <<>>, torn |-> {}, snap |-> v.snap]
    <3> HIDE DEF w
    <3> QED  BY <2>1, <2>2
  <2>4. v.rows \in [Event -> Nat] /\ v.snap \in [history : Push!History,
          known : [Event -> Push!Outcome], batch : Push!Batch]
    BY <1>5 DEF PushStore
  <2>5. <<>> \in Seq(ReceiptRecord) /\ {} \in SUBSET Event
    OBVIOUS
  <2> HIDE DEF w
  <2> QED  BY <1>5, <2>3, <2>4, <2>5 DEF PushStore
<1> HIDE DEF v, w
<1>7. StoreTyped(v) /\ StoreTyped(w)
  BY <1>1, <1>2, <1>5, <1>6 DEF StoreTyped
<1>8. \A e \in Event : /\ receipts[e].status # "none" => Push!Known(v, e) /\ Push!Known(w, e)
  BY <1>2, <1>5, <1>6 DEF Push!Known, ReceiptsOK
<1>9. Faithful(v) /\ Faithful(w)
  <2>1. \A e \in Event : receipts[e].status = "committed" => Push!Known(v, e) /\ Push!Known(w, e)
    BY <1>8
  <2> QED  BY <1>1, <1>2, <1>5, <1>6, <2>1 DEF Faithful
<1>10. \A e \in Event : Push!Known(v, e) \/ Push!Known(w, e) => receipts[e].status # "none"
  BY <1>7, <1>9, KnownIs DEF Faithful
<1>11. ASSUME NEW e \in Event, Newest(e), receipts[e].status # "none" PROVE KeptBy(w, e)
  <2>1. /\ Holding(s, st, e)
        /\ s.batch # Push!NoBatch /\ s.rendering.latest = e => s.batch.latest = e
    BY <1>11 DEF Held
  <2>2. e \in {s.batch.latest, s.rendering.latest} => p.batch.latest = e
    <3>1. s.batch.latest = e => s.batch # Push!NoBatch
      BY SpokenIs DEF SubjectOK
    <3> QED  BY <1>2, <2>1, <3>1
  <2>3. StoreBatch(w) = p.batch
    BY <1>6 DEF StoreBatch
  <2> QED  BY <1>6, <2>1, <2>2, <2>3 DEF Holding, KeptBy
<1>12. ASSUME NEW e \in Event, Newest(e), receipts[e].status # "none" PROVE KeptBy(v, e)
  <2>1. CASE st.recent = <<>>
    <3>1. KeptBy(w, e)
      BY <1>11, <1>12
    <3>2. StoreBatch(v) = StoreBatch(w)
      BY <1>5, <1>6, <2>1 DEF StoreBatch
    <3> QED  BY <1>5, <1>6, <3>1, <3>2 DEF KeptBy
  <2>2. CASE st.recent # <<>> /\ Push!Known(st, e)
    <3>1. KeptBy(st, e)
      BY <1>12, <2>2 DEF FullStore, GoodStore
    <3>2. StoreBatch(v) = StoreBatch(st) /\ st.torn \subseteq v.torn
      BY <1>5, <2>2 DEF StoreBatch
    <3> QED  BY <1>5, <3>1, <3>2 DEF KeptBy
  <2>3. CASE st.recent # <<>> /\ ~Push!Known(st, e)
    <3>1. receipts[e].status = "unwritten"
      BY <1>1, <1>12, <2>3 DEF ReceiptsOK, Statuses
    <3>2. e \in v.torn
      BY <1>5, <2>3, <3>1
    <3> QED  BY <3>2 DEF KeptBy
  <2> QED  BY <2>1, <2>2, <2>3
<1> QED  BY <1>7, <1>8, <1>9, <1>10, <1>11, <1>12 DEF FullStore, GoodStore, v, w

(* A record written at the end of the records.                              *)
LEMMA AppendIs ==
    ASSUME NEW X, NEW s \in Seq(X), NEW x \in X
    PROVE  LET t == Append(s, x) IN
           /\ t \in Seq(X) /\ t # <<>> /\ Len(t) = Len(s) + 1 /\ Len(t) \in DOMAIN t /\ t[Len(t)] = x
           /\ \A i \in DOMAIN s : i \in DOMAIN t /\ t[i] = s[i]
           /\ \A i \in DOMAIN t : (i \in DOMAIN s /\ t[i] = s[i]) \/ t[i] = x
OBVIOUS

(* A record of an admitted event.                                           *)
LEMMA RecordIs ==
    ASSUME NEW e \in Event, NEW s, SubjectOK(s), NEW entry,
           entry.outcome \in Push!Outcome \ {"none"}, entry.born \in Push!History \cup {"kept"}
    PROVE  LET r == Push!Record(e, s, entry) IN
           /\ r \in ReceiptRecord /\ r.event = e /\ r.outcome = entry.outcome /\ Spoken(r.batch)
           /\ r.batch.latest = IF s.batch # Push!NoBatch THEN s.batch.latest ELSE s.rendering.latest
<1> DEFINE r == Push!Record(e, s, entry)
           b == IF s.batch # Push!NoBatch THEN s.batch ELSE s.rendering
<1>1. Spoken(b) /\ b \in Push!Batch
  BY DEF SubjectOK, Spoken, SoundBatch
<1>2. r = [event |-> e, outcome |-> entry.outcome, born |-> entry.born, batch |-> b]
  BY DEF Push!Record
<1>3. b.latest = IF s.batch # Push!NoBatch THEN s.batch.latest ELSE s.rendering.latest
  OBVIOUS
<1> HIDE DEF b
<1>4. r \in ReceiptRecord /\ r.event = e /\ r.outcome = entry.outcome /\ r.batch = b
  BY <1>1, <1>2 DEF ReceiptRecord
<1> HIDE DEF r
<1> QED  BY <1>1, <1>3, <1>4 DEF r

(* The steps that admit nothing.                                            *)
LEMMA Still ==
    ASSUME UNCHANGED <<line, kind>>, Excused \subseteq Excused', ReceiptsOK, ReceiptsOK',
           \A e \in Event : receipts'[e].outcome = receipts[e].outcome
    PROVE  /\ \A b : Spoken(b) => Spoken(b)'
           /\ \A s : SubjectOK(s) => SubjectOK(s)'
           /\ \A st : GoodStore(st) /\ (\A e \in Event : receipts'[e].status = "committed"
                => Push!Known(st, e))
                => GoodStore(st)'
           /\ \A s, st : Held(s, st) => Held(s, st)'
<1>1. Tries' = Tries
  BY DEF Tries
<1>2. \A b : Spoken(b) => Spoken(b)'
  BY <1>1 DEF Spoken
<1>3. \A s : SubjectOK(s) => SubjectOK(s)'
  BY <1>1, <1>2 DEF SubjectOK
<1>4. \A e \in Event : /\ Newest(e)' <=> Newest(e)
                       /\ Taken(e)' <=> Taken(e)
                       /\ receipts'[e].status # "none" <=> receipts[e].status # "none"
  BY DEF Newest, Taken, ReceiptsOK
<1>5. ASSUME NEW st, GoodStore(st), \A e \in Event : receipts'[e].status = "committed" => Push!Known(st, e)
      PROVE  GoodStore(st)'
  <2>1. StoreTyped(st)'
    BY <1>2, <1>5 DEF GoodStore, StoreTyped
  <2>2. \A i \in DOMAIN st.recent : st.recent[i].event \in Event
    <3>1. st.recent \in Seq(ReceiptRecord)
      BY <1>5 DEF GoodStore, StoreTyped, PushStore
    <3>2. \A i \in DOMAIN st.recent : st.recent[i] \in ReceiptRecord
      BY <3>1
    <3> QED  BY <3>2 DEF ReceiptRecord
  <2>3. Faithful(st)'
    <3>1. \A e \in Event : st.snap.known[e] # "none" => st.snap.known[e] = receipts'[e].outcome
      BY <1>5 DEF GoodStore, Faithful
    <3>2. \A i \in DOMAIN st.recent : st.recent[i].outcome = receipts'[st.recent[i].event].outcome
      BY <1>5, <2>2 DEF GoodStore, Faithful
    <3> QED  BY <1>5, <3>1, <3>2 DEF Faithful, Push!Known
  <2>4. \A e \in Event : Newest(e) /\ Push!Known(st, e) => KeptBy(st, e)
    BY <1>5 DEF GoodStore
  <2>5. \A e \in Event : KeptBy(st, e) => KeptBy(st, e)'
    BY <1>4 DEF KeptBy, StoreBatch
  <2>6. \A e \in Event : (Newest(e) /\ Push!Known(st, e))' => KeptBy(st, e)'
    BY <1>4, <2>4, <2>5 DEF Push!Known
  <2> QED  BY <2>1, <2>3, <2>6 DEF GoodStore
<1>6. ASSUME NEW s, NEW st, Held(s, st) PROVE Held(s, st)'
  <2>1. ASSUME NEW e \in Event, Newest(e)'
        PROVE  /\ (receipts[e].status # "none")' => Holding(s, st, e)'
               /\ s.batch # Push!NoBatch /\ s.rendering.latest = e => s.batch.latest = e
    <3>1. /\ receipts[e].status # "none" => Holding(s, st, e)
          /\ s.batch # Push!NoBatch /\ s.rendering.latest = e => s.batch.latest = e
      BY <1>4, <1>6, <2>1 DEF Held
    <3>2. Holding(s, st, e) => Holding(s, st, e)'
      BY <1>4 DEF Holding
    <3> QED  BY <1>4, <3>1, <3>2
  <2> QED  BY <2>1 DEF Held
<1> QED  BY <1>2, <1>3, <1>5, <1>6

LEMMA StillAll ==
    ASSUME UNCHANGED <<line, kind, receipts>>, Excused \subseteq Excused', ReceiptsOK
    PROVE  /\ ReceiptsOK'
           /\ \A b : Spoken(b) => Spoken(b)'
           /\ \A s : SubjectOK(s) => SubjectOK(s)'
           /\ \A st : GoodStore(st) => GoodStore(st)'
           /\ \A st : FullStore(st) => FullStore(st)'
           /\ \A s, st : Held(s, st) => Held(s, st)'
<1>1. ReceiptsOK'
  BY DEF ReceiptsOK
<1>2. /\ \A b : Spoken(b) => Spoken(b)'
      /\ \A s : SubjectOK(s) => SubjectOK(s)'
      /\ \A st : GoodStore(st) /\ (\A e \in Event : receipts'[e].status = "committed" => Push!Known(st, e))
           => GoodStore(st)'
      /\ \A s, st : Held(s, st) => Held(s, st)'
  BY <1>1, Still
<1>3. \A st : GoodStore(st) => \A e \in Event : receipts'[e].status = "committed" => Push!Known(st, e)
  BY DEF GoodStore, Faithful
<1>4. \A st : GoodStore(st) => GoodStore(st)'
  BY <1>2, <1>3
<1>5. \A st : FullStore(st) => FullStore(st)'
  BY <1>4 DEF FullStore, Push!Known
<1> QED  BY <1>1, <1>2, <1>4, <1>5

(* The receipts the host has a record of.                                   *)
LEMMA OnTheHosts ==
    ASSUME ReceiptsOK, FullStore(stored), Recents, NEW more,
        \A i \in DOMAIN recent : i \in DOMAIN more /\ more[i] = recent[i],
           NEW d \in Event, receipts[d].status \in {"written", "committed"}
    PROVE  stored.snap.known[d] # "none" \/ \E i \in DOMAIN more : more[i].event = d
<1>1. CASE recent = stored.recent
  <2>1. Push!Known(stored, d)
    BY DEF FullStore
  <2> QED  BY <1>1, <2>1 DEF Push!Known
<1>2. CASE recent = <<>> /\ \A e \in Event : receipts[e].status \in {"written", "committed"}
        => stored.snap.known[e] # "none"
  BY <1>2
<1> QED  BY <1>1, <1>2 DEF Recents

(* What the host keeps of the records tells the truth.                      *)
LEMMA RecentTrue ==
    ASSUME FullStore(stored), Recents
    PROVE  \A i \in DOMAIN recent : i \in DOMAIN stored.recent /\ recent[i] = stored.recent[i]
BY DEF Recents

(* A record of what the subject is now.                                     *)
LEMMA RecordsFull ==
    ASSUME PushTyped, FullStore(stored), Recents, Held(subject, stored),
           NEW e \in Event, receipts[e].status # "none"
    PROVE  LET v == Push!Records(stored, Append(recent, Push!Record(e, subject, receipts[e]))) IN
           FullStore(v) /\ Push!Known(v, e)
<1> DEFINE r == Push!Record(e, subject, receipts[e])
           more == Append(recent, r)
           v == Push!Records(stored, more)
<1>0. /\ SubjectOK(subject) /\ ReceiptsOK /\ recent \in Seq(ReceiptRecord)
      /\ \A i \in DOMAIN recent : Spoken(recent[i].batch)
  BY DEF PushTyped
<1>1. /\ r \in ReceiptRecord /\ r.event = e /\ r.outcome = receipts[e].outcome /\ Spoken(r.batch)
      /\ r.batch.latest = IF subject.batch # Push!NoBatch THEN subject.batch.latest ELSE subject.rendering.latest
  <2>1. receipts[e].outcome \in Push!Outcome \ {"none"} /\ receipts[e].born \in Push!History \cup {"kept"}
    BY <1>0 DEF ReceiptsOK
  <2> QED  BY <1>0, <2>1, RecordIs
<1> HIDE DEF r
<1>2. /\ more \in Seq(ReceiptRecord) /\ more # <<>> /\ Len(more) \in DOMAIN more /\ more[Len(more)] = r
      /\ \A i \in DOMAIN recent : i \in DOMAIN more /\ more[i] = recent[i]
      /\ \A i \in DOMAIN more : (i \in DOMAIN recent /\ more[i] = recent[i]) \/ more[i] = r
  BY <1>0, <1>1, AppendIs
<1> HIDE DEF more
<1>3. stored \in PushStore /\ StoreTyped(stored) /\ Faithful(stored)
  BY DEF FullStore, GoodStore, StoreTyped
<1>4. v \in PushStore /\ v.rows = stored.rows /\ v.recent = more /\ v.torn = {} /\ v.snap = stored.snap
  <2>1. v = [stored EXCEPT !.recent = more, !.torn = {}]
    BY DEF Push!Records
  <2>2. stored = [rows |-> stored.rows, recent |-> stored.recent, torn |-> stored.torn,
          snap |-> stored.snap]
    BY <1>3 DEF PushStore
  <2>3. v = [rows |-> stored.rows, recent |-> more, torn |-> {}, snap |-> stored.snap]
    <3> HIDE DEF v
    <3> QED  BY <2>1, <2>2
  <2>4. stored.rows \in [Event -> Nat] /\ stored.snap \in [history : Push!History,
          known : [Event -> Push!Outcome], batch : Push!Batch]
    BY <1>3 DEF PushStore
  <2> HIDE DEF v
  <2> QED  BY <1>2, <2>3, <2>4 DEF PushStore
<1> HIDE DEF v
<1>5. StoreTyped(v)
  BY <1>0, <1>1, <1>2, <1>3, <1>4 DEF StoreTyped
<1>6. \A d \in Event : receipts[d].status \in {"written", "committed"} => Push!Known(v, d)
  BY <1>0, <1>2, <1>4, OnTheHosts DEF Push!Known
<1>7. Push!Known(v, e)
  BY <1>1, <1>2, <1>4 DEF Push!Known
<1>8. Faithful(v)
  <2>1. \A i \in DOMAIN more : more[i].outcome = receipts[more[i].event].outcome
    <3>1. \A i \in DOMAIN recent : recent[i].outcome = receipts[recent[i].event].outcome
      BY <1>3, RecentTrue DEF Faithful
    <3> QED  BY <1>1, <1>2, <3>1
  <2> QED  BY <1>3, <1>4, <1>6, <2>1 DEF Faithful
<1>9. ASSUME NEW d \in Event, Newest(d), Push!Known(v, d) PROVE KeptBy(v, d)
  <2>1. receipts[d].status # "none"
    BY <1>0, <1>5, <1>8, <1>9, KnownIs DEF Faithful
  <2>2. /\ Holding(subject, stored, d)
        /\ subject.batch # Push!NoBatch /\ subject.rendering.latest = d => subject.batch.latest = d
    BY <1>9, <2>1 DEF Held
  <2>3. d \in {subject.batch.latest, subject.rendering.latest} => r.batch.latest = d
    <3>1. subject.batch.latest = d => subject.batch # Push!NoBatch
      BY <1>0, SpokenIs DEF SubjectOK
    <3> QED  BY <1>1, <2>2, <3>1
  <2>4. StoreBatch(v) = r.batch
    BY <1>2, <1>4 DEF StoreBatch
  <2> QED  BY <1>4, <2>2, <2>3, <2>4 DEF Holding, KeptBy
<1> QED  BY <1>5, <1>6, <1>7, <1>8, <1>9 DEF FullStore, GoodStore, v, more, r

-----------------------------------------------------------------------------
(* The writes of a step.                                                    *)
LEMMA WritesOne == ASSUME NEW a, Push!Writes(<<a>>) PROVE stored' = a /\ lasting' = lasting \cup {a}
BY DEF Push!Writes, Push!Last, Push!ToSet

LEMMA WritesTwo ==
    ASSUME NEW a, NEW b, Push!Writes(<<a, b>>) PROVE stored' = b /\ lasting' = lasting \cup {a, b}
<1>1. Len(<<a, b>>) = 2 /\ DOMAIN <<a, b>> = {1, 2} /\ <<a, b>>[1] = a /\ <<a, b>>[2] = b
  OBVIOUS
<1> DEFINE t == <<a, b>>
<1>2. stored' = t[Len(t)] /\ lasting' = lasting \cup {t[i] : i \in DOMAIN t}
  BY DEF Push!Writes, Push!Last, Push!ToSet
<1>3. {t[i] : i \in DOMAIN t} = {a, b}
  BY <1>1
<1> QED  BY <1>1, <1>2, <1>3

LEMMA WritesThree ==
    ASSUME NEW a, NEW b, NEW c, Push!Writes(<<a, b, c>>) PROVE stored' = c
        /\ lasting' = lasting \cup {a, b, c}
<1> DEFINE t == <<a, b, c>>
<1>1. Len(t) = 3 /\ DOMAIN t = {1, 2, 3} /\ t[1] = a /\ t[2] = b /\ t[3] = c
  OBVIOUS
<1>2. stored' = t[Len(t)] /\ lasting' = lasting \cup {t[i] : i \in DOMAIN t}
  BY DEF Push!Writes, Push!Last, Push!ToSet
<1>3. {t[i] : i \in DOMAIN t} = {a, b, c}
  BY <1>1
<1> HIDE DEF t
<1> QED  BY <1>1, <1>2, <1>3

LEMMA PushStoresWritten ==
    ASSUME PushStores, ReceiptsOK, UNCHANGED <<line, kind, receipts>>, Excused \subseteq Excused',
           NEW a, NEW b, NEW c, FullStore(a), FullStore(b), FullStore(c),
           stored' \in {a, b, c}, stored' \in lasting', lasting' \subseteq lasting \cup {a, b, c}
    PROVE  PushStores'
<1>1. /\ \A st : GoodStore(st) => GoodStore(st)'
      /\ \A st : FullStore(st) => FullStore(st)'
  BY StillAll
<1>2. \A v \in lasting' : GoodStore(v)
  BY DEF PushStores, FullStore
<1>3. FullStore(stored')
  BY DEF PushStores
<1> QED  BY <1>1, <1>2, <1>3 DEF PushStores

LEMMA HeldRows ==
    ASSUME NEW s, NEW st, NEW w, Held(s, st), \A e \in Event : st.rows[e] > 0 => w.rows[e] > 0
    PROVE  Held(s, w)
BY DEF Held, Holding

LEMMA SaveKeeps ==
    ASSUME PushTyped, PushStores, Recents, NEW s, SubjectOK(s), Held(s, stored),
           UNCHANGED <<line, kind, receipts>>, Excused \subseteq Excused', Push!Saves(s)
               \/ Push!SaveThrows(s)
    PROVE  /\ PushStores' /\ Recents' /\ stored'.rows = stored.rows
           /\ (recent \in Seq(ReceiptRecord))' /\ (\A i \in DOMAIN recent : Spoken(recent[i].batch))'
<1> DEFINE v == Push!SaveStarts(s)
           w == Push!Saved(s)
<1>0. /\ ReceiptsOK /\ overlaid \subseteq Event /\ recent \in Seq(ReceiptRecord)
      /\ \A i \in DOMAIN recent : Spoken(recent[i].batch)
  BY DEF PushTyped
<1>1. FullStore(stored) /\ stored \in lasting /\ stored \in PushStore
  BY DEF PushStores, FullStore, GoodStore, StoreTyped
<1>2. FullStore(v) /\ FullStore(w)
  BY <1>0, <1>1, StartsFull DEF Push!SaveStarts, Push!Saved
<1>3. v.rows = stored.rows /\ w.rows = stored.rows
  BY <1>1 DEF Push!SaveStarts, Push!Saved, Push!Starts, Push!Clears, PushStore
<1>4. w.recent = <<>>
  <2>1. v \in PushStore
    BY <1>2 DEF FullStore, GoodStore, StoreTyped
  <2>2. w = [v EXCEPT !.recent = <<>>, !.torn = {}]
    BY DEF Push!Saved, Push!Clears
  <2> HIDE DEF v, w
  <2> QED  BY <2>1, <2>2 DEF PushStore
<1>5. \A e \in Event : v.snap.known[e] = receipts[e].outcome
  <2>1. v.snap = Push!Snapshot(s, receipts)
    BY <1>1 DEF Push!SaveStarts, Push!Starts, PushStore
  <2> HIDE DEF v
  <2> QED  BY <1>0, <2>1, SnapshotIs
<1> HIDE DEF v, w
<1>6. CASE Push!Saves(s)
  <2>1. stored' = w /\ lasting' = lasting \cup {v, w} /\ recent' = <<>>
    BY <1>6, WritesTwo DEF Push!Saves, v, w
  <2>2. PushStores'
    <3>1. stored' \in {v, w, w} /\ stored' \in lasting' /\ lasting' \subseteq lasting \cup {v, w, w}
      BY <2>1
    <3> QED  BY <1>0, <1>2, <3>1, PushStoresWritten
  <2>3. Recents'
    BY <1>4, <2>1 DEF Recents
  <2> QED  BY <1>3, <2>1, <2>2, <2>3
<1>7. CASE Push!SaveThrows(s)
  <2>1. CASE UNCHANGED <<Push!disk, recent>>
    <3>1. stored' = stored /\ lasting' = lasting /\ recent' = recent
      BY <2>1 DEF Push!disk
    <3>2. PushStores'
      <4>1. stored' \in {stored, stored, stored} /\ stored' \in lasting'
              /\ lasting' \subseteq lasting \cup {stored, stored, stored}
        BY <1>1, <3>1
      <4> QED  BY <1>0, <1>1, <4>1, PushStoresWritten
    <3>3. Recents'
      BY <3>1 DEF Recents
    <3>4. \A b : Spoken(b) => Spoken(b)'
      BY <1>0, StillAll
    <3> QED  BY <1>0, <3>1, <3>2, <3>3, <3>4
  <2>2. CASE Push!Writes(<<v>>) /\ recent' = <<>>
    <3>1. stored' = v /\ lasting' = lasting \cup {v} /\ recent' = <<>>
      BY <2>2, WritesOne
    <3>2. PushStores'
      <4>1. stored' \in {v, v, v} /\ stored' \in lasting' /\ lasting' \subseteq lasting \cup {v, v, v}
        BY <3>1
      <4> QED  BY <1>0, <1>2, <4>1, PushStoresWritten
    <3>3. Recents'
      <4>1. \A e \in Event : receipts'[e].status \in {"written", "committed"}
              => stored'.snap.known[e] # "none"
        BY <1>0, <1>5, <3>1 DEF ReceiptsOK
      <4> QED  BY <3>1, <4>1 DEF Recents
    <3> QED  BY <1>3, <3>1, <3>2, <3>3
  <2> QED  BY <1>7, <2>1, <2>2 DEF Push!SaveThrows, v
<1> QED  BY <1>6, <1>7

(* A subject as the value of its fields.                                    *)
SubjectOf(h, run, rendered, b, r, y) ==
    [history |-> h, run |-> run, rendered |-> rendered, batch |-> b, rendering |-> r, by |-> y]

LEMMA SubjectIs ==
    ASSUME NEW s, SubjectOK(s)
    PROVE  /\ s = SubjectOf(s.history, s.run, s.rendered, s.batch, s.rendering, s.by)
           /\ s.history \in Push!History /\ s.run \in Seq(Event) /\ s.rendered \in BOOLEAN
                /\ s.by \in {"turn", "keeper"}
           /\ Spoken(s.batch) /\ Spoken(s.rendering) /\ s.batch \in Push!Batch /\ s.rendering \in Push!Batch
           /\ \A i \in DOMAIN s.run : s.run[i] \in Tries
BY DEF SubjectOK, SubjectType, SubjectOf

LEMMA SubjectMade ==
    ASSUME NEW h \in Push!History, NEW run \in Seq(Event), \A i \in DOMAIN run : run[i] \in Tries,
           NEW rendered \in BOOLEAN, NEW b, Spoken(b), NEW r, Spoken(r), NEW y \in {"turn", "keeper"}
    PROVE  SubjectOK(SubjectOf(h, run, rendered, b, r, y))
<1>1. b \in Push!Batch /\ r \in Push!Batch
  BY DEF Spoken, SoundBatch
<1> QED  BY <1>1 DEF SubjectOK, SubjectType, SubjectOf

(* With other batches.                                                      *)
With(s, b, r) == [s EXCEPT !.batch = b, !.rendering = r]
WithBy(s, b, r, y) == [s EXCEPT !.batch = b, !.rendering = r, !.by = y]

LEMMA SubjectWith ==
    ASSUME NEW s, SubjectOK(s), NEW b, Spoken(b), NEW r, Spoken(r)
    PROVE  SubjectOK(With(s, b, r)) /\ With(s, b, r).batch = b /\ With(s, b, r).rendering = r
<1> DEFINE t == With(s, b, r)
<1>0. t = With(s, b, r)
  OBVIOUS
<1> HIDE DEF t
<1>1. s = [history |-> s.history, run |-> s.run, rendered |-> s.rendered, batch |-> s.batch,
           rendering |-> s.rendering, by |-> s.by]
  BY SubjectIs DEF SubjectOf
<1>2. t = SubjectOf(s.history, s.run, s.rendered, b, r, s.by)
  BY <1>0, <1>1 DEF SubjectOf, With
<1>3. SubjectOK(SubjectOf(s.history, s.run, s.rendered, b, r, s.by))
  <2>1. s.history \in Push!History /\ s.run \in Seq(Event) /\ s.rendered \in BOOLEAN
          /\ s.by \in {"turn", "keeper"}
        /\ \A i \in DOMAIN s.run : s.run[i] \in Tries
    BY SubjectIs
  <2> QED  BY <2>1, SubjectMade
<1>4. t.batch = b /\ t.rendering = r
  BY <1>2 DEF SubjectOf
<1>5. SubjectOK(t)
  BY <1>2, <1>3
<1> QED  BY <1>4, <1>5 DEF t

LEMMA SubjectBy ==
    ASSUME NEW s, SubjectOK(s), NEW b, Spoken(b), NEW r, Spoken(r), NEW y \in {"turn", "keeper"}
    PROVE  SubjectOK(WithBy(s, b, r, y)) /\ WithBy(s, b, r, y).batch = b /\ WithBy(s, b, r, y).rendering = r
<1> DEFINE t == WithBy(s, b, r, y)
<1>0. t = WithBy(s, b, r, y)
  OBVIOUS
<1> HIDE DEF t
<1>1. s = [history |-> s.history, run |-> s.run, rendered |-> s.rendered, batch |-> s.batch,
           rendering |-> s.rendering, by |-> s.by]
  BY SubjectIs DEF SubjectOf
<1>2. t = SubjectOf(s.history, s.run, s.rendered, b, r, y)
  BY <1>0, <1>1 DEF SubjectOf, WithBy
<1>3. SubjectOK(SubjectOf(s.history, s.run, s.rendered, b, r, y))
  <2>1. s.history \in Push!History /\ s.run \in Seq(Event) /\ s.rendered \in BOOLEAN
          /\ s.by \in {"turn", "keeper"}
        /\ \A i \in DOMAIN s.run : s.run[i] \in Tries
    BY SubjectIs
  <2> QED  BY <2>1, SubjectMade
<1>4. t.batch = b /\ t.rendering = r
  BY <1>2 DEF SubjectOf
<1>5. SubjectOK(t)
  BY <1>2, <1>3
<1> QED  BY <1>4, <1>5 DEF t

LEMMA HeldMoves ==
    ASSUME NEW s, NEW st, Held(s, st), ReceiptsOK, UNCHANGED <<line, kind, receipts>>,
        Excused \subseteq Excused',
           NEW t, NEW w, \A e \in Event : st.rows[e] > 0 => w.rows[e] > 0,
           \A e \in Event : e \in {s.batch.latest, s.rendering.latest} =>
               e \in {t.batch.latest, t.rendering.latest} \cup Excused' \/ w.rows[e] > 0,
           \A e \in Event : Newest(e) /\ t.batch # Push!NoBatch /\ t.rendering.latest = e
               => t.batch.latest = e
    PROVE  Held(t, w)'
<1>1. ASSUME NEW e \in Event, Newest(e)'
      PROVE  /\ (receipts[e].status # "none")' => Holding(t, w, e)'
             /\ t.batch # Push!NoBatch /\ t.rendering.latest = e => t.batch.latest = e
  <2>1. Newest(e)
    BY <1>1 DEF Newest
  <2>2. receipts'[e].status # "none" => Holding(s, st, e)
    BY <2>1 DEF Held
  <2>3. Taken(e) => Taken(e)'
    BY DEF Taken
  <2>4. Holding(s, st, e) => Taken(e)' \/ w.rows[e] > 0 \/ e \in {t.batch.latest,
          t.rendering.latest} \/ e \in Excused'
    BY <2>3 DEF Holding
  <2>5. receipts'[e].status # "none" => Holding(t, w, e)'
    BY <2>2, <2>4 DEF Holding
  <2> QED  BY <2>1, <2>5
<1> QED  BY <1>1 DEF Held

(* A step that leaves what was written.                                     *)
LEMMA Quiet ==
    ASSUME PushInv, UNCHANGED <<line, kind, receipts, recent, stored>>, Excused \subseteq Excused',
           lasting' = lasting \/ lasting' = {stored}
    PROVE  /\ PushStores' /\ Recents' /\ ReceiptsOK'
           /\ (recent \in Seq(ReceiptRecord))' /\ (\A i \in DOMAIN recent : Spoken(recent[i].batch))'
           /\ \A s : SubjectOK(s) => SubjectOK(s)'
<1>1. /\ ReceiptsOK /\ FullStore(stored) /\ stored \in lasting /\ recent \in Seq(ReceiptRecord)
      /\ \A i \in DOMAIN recent : Spoken(recent[i].batch)
  BY DEF PushInv, PushTyped, PushStores
<1>2. /\ ReceiptsOK'
      /\ \A b : Spoken(b) => Spoken(b)'
      /\ \A s : SubjectOK(s) => SubjectOK(s)'
  BY <1>1, StillAll
<1>3. PushStores'
  <2>1. stored' \in {stored, stored, stored} /\ stored' \in lasting'
          /\ lasting' \subseteq lasting \cup {stored, stored, stored}
    BY <1>1
  <2> QED  BY <1>1, <2>1, PushStoresWritten DEF PushInv
<1>4. Recents'
  BY DEF PushInv, Recents
<1> QED  BY <1>1, <1>2, <1>3, <1>4

LEMMA RowsStay == ASSUME stored' = stored PROVE \A e \in Event : stored.rows[e] > 0 => stored'.rows[e] > 0
OBVIOUS

-----------------------------------------------------------------------------
(* The steps.                                                               *)
Scalars ==
    /\ lock \in Event \cup {"free", "freeze", "settle"}
    /\ wake \in BOOLEAN /\ keeper \in BOOLEAN /\ armed \in BOOLEAN
    /\ suspended \in BOOLEAN /\ authorized \in BOOLEAN /\ dirty \in BOOLEAN /\ missed \in BOOLEAN
    /\ settled \subseteq Event /\ cutOff \subseteq Event /\ overlaid \subseteq Event
    /\ kind \in [Event -> KindsOf] /\ line \in Seq(Event)

LEMMA Assembled ==
    ASSUME Scalars', ReceiptsOK', SubjectOK(subject)', (recent \in Seq(ReceiptRecord))',
           (\A i \in DOMAIN recent : Spoken(recent[i].batch))', PushStores', Recents', Stages',
               Awaiting', Answered',
           Held(subject, stored)'
    PROVE  PushInv'
BY DEF PushInv, PushTyped, Scalars

LEMMA LocksApart ==
    /\ \A e \in Event : e \notin {"free", "freeze", "settle"}
    /\ "free" \notin Event /\ "freeze" \notin Event /\ "settle" \notin Event
BY PushGiven DEF Push!PushConstants

LEMMA AcknowledgesKeeps == ASSUME PushInv, Push!Acknowledges PROVE PushInv'
<1>0. /\ SubjectOK(subject) /\ ReceiptsOK /\ FullStore(stored) /\ stored \in lasting
      /\ recent \in Seq(ReceiptRecord) /\ \A i \in DOMAIN recent : Spoken(recent[i].batch)
      /\ \A st \in lasting : GoodStore(st)
  BY DEF PushInv, PushTyped, PushStores
<1>1. /\ lock \in Event /\ lock' = "free"
      /\ UNCHANGED <<subject, recent, dirty, wake, keeper, armed, suspended, authorized, kind, line,
           settled,
                     cutOff, overlaid, missed>>
  BY DEF Push!Acknowledges, Push!wakes, Push!host, Push!ended, Push!lapses
<1>2. CASE UNCHANGED <<Push!disk, receipts, answered>>
  <2>1. UNCHANGED <<stored, lasting, receipts, answered>> /\ Excused' = Excused
    BY <1>1, <1>2 DEF Push!disk, Excused
  <2>2. /\ PushStores' /\ Recents' /\ ReceiptsOK' /\ SubjectOK(subject)'
        /\ (recent \in Seq(ReceiptRecord))' /\ (\A i \in DOMAIN recent : Spoken(recent[i].batch))'
    BY <1>0, <1>1, <2>1, Quiet
  <2>3. Held(subject, stored)'
    <3>1. \A s, st : Held(s, st) => Held(s, st)'
      BY <1>0, <1>1, <2>1, StillAll
    <3> QED  BY <1>1, <2>1, <3>1 DEF PushInv
  <2>4. Stages' /\ Awaiting' /\ Answered'
    BY <1>1, <2>1, LocksApart DEF PushInv, Stages, Awaiting, Answered
  <2>5. Scalars'
    BY <1>1 DEF PushInv, PushTyped, Scalars
  <2> QED  BY <2>2, <2>3, <2>4, <2>5, Assembled
<1>3. CASE Push!Commits /\ receipts' = [receipts EXCEPT ![lock].status = "committed"]
        /\ answered' = answered \cup {lock}
  <2>1. stored' = stored /\ lasting' = {stored}
    BY <1>3 DEF Push!Commits
  <2>2. receipts[lock].status \in {"written", "committed"}
    BY <1>1 DEF PushInv, Stages
  <2>3. /\ \A e \in Event : receipts'[e].outcome = receipts[e].outcome
        /\ receipts'[lock].status = "committed"
        /\ \A e \in Event : e # lock => receipts'[e] = receipts[e]
        /\ ReceiptsOK'
    <3>1. receipts' \in [Event -> [outcome : Push!Outcome, status : Statuses,
            born : Push!History \cup {"kept"}]]
      BY <1>0, <1>3 DEF ReceiptsOK, Statuses
    <3>2. \A e \in Event : receipts'[e] = IF e = lock THEN [receipts[e] EXCEPT !.status = "committed"] ELSE receipts[e]
      BY <1>0, <1>3 DEF ReceiptsOK
    <3>3. receipts[lock] \in [outcome : Push!Outcome, status : Statuses, born : Push!History \cup {"kept"}]
      BY <1>0, <1>1 DEF ReceiptsOK
    <3>4. receipts'[lock].outcome = receipts[lock].outcome /\ receipts'[lock].status = "committed"
      BY <1>1, <3>2, <3>3
    <3>5. \A e \in Event : receipts'[e].outcome = receipts[e].outcome /\ (e # lock
            => receipts'[e] = receipts[e])
      BY <3>2, <3>4
    <3>6. \A e \in Event : receipts'[e].status = "none" <=> receipts'[e].outcome = "none"
      BY <1>0, <1>1, <2>2, <3>4, <3>5 DEF ReceiptsOK
    <3> QED  BY <3>1, <3>4, <3>5, <3>6 DEF ReceiptsOK
  <2>4. Excused' = Excused
    BY <1>1 DEF Excused
  <2>5. /\ \A b : Spoken(b) => Spoken(b)'
        /\ \A s : SubjectOK(s) => SubjectOK(s)'
        /\ \A st : GoodStore(st) /\ (\A e \in Event : receipts'[e].status = "committed"
             => Push!Known(st, e))
             => GoodStore(st)'
        /\ \A s, st : Held(s, st) => Held(s, st)'
    BY <1>0, <1>1, <2>3, <2>4, Still
  <2>6. \A e \in Event : receipts'[e].status \in {"written", "committed"} => Push!Known(stored, e)
    BY <1>0, <2>2, <2>3 DEF FullStore
  <2>7. FullStore(stored)' /\ PushStores'
    <3>1. GoodStore(stored')
      BY <1>0, <2>1 DEF FullStore
    <3>2. GoodStore(stored)'
      BY <2>1, <2>5, <2>6, <3>1
    <3> QED  BY <2>1, <2>6, <3>2 DEF FullStore, PushStores, Push!Known
  <2>8. Recents'
    BY <1>1, <2>1, <2>2, <2>3 DEF PushInv, Recents
  <2>9. Stages' /\ Awaiting' /\ Answered'
    <3>1. Answered'
      BY <1>1, <1>3, <2>3 DEF PushInv, Answered
    <3> QED  BY <1>1, <3>1, LocksApart DEF PushInv, Stages, Awaiting
  <2>10. Scalars'
    BY <1>1 DEF PushInv, PushTyped, Scalars
  <2>11. Held(subject, stored)' /\ SubjectOK(subject)'
    BY <1>0, <1>1, <2>1, <2>5 DEF PushInv
  <2>12. (recent \in Seq(ReceiptRecord))' /\ (\A i \in DOMAIN recent : Spoken(recent[i].batch))'
    BY <1>0, <1>1, <2>5
  <2> QED  BY <2>3, <2>7, <2>8, <2>9, <2>10, <2>11, <2>12, Assembled
<1> QED  BY <1>2, <1>3 DEF Push!Acknowledges

(* Steps that move the batches alone.                                       *)
LEMMA Turns ==
    ASSUME PushInv, UNCHANGED <<line, kind, receipts, recent, stored, answered>>,
        Excused \subseteq Excused',
           lasting' = lasting \/ lasting' = {stored}, SubjectOK(subject'),
           \A e \in Event : e \in {subject.batch.latest, subject.rendering.latest} =>
               e \in {subject'.batch.latest, subject'.rendering.latest} \cup Excused',
           \A e \in Event : Newest(e) /\ subject'.batch # Push!NoBatch /\ subject'.rendering.latest = e
                              => subject'.batch.latest = e,
           Scalars', Stages', Awaiting'
    PROVE  PushInv'
<1>0. ReceiptsOK /\ Held(subject, stored)
  BY DEF PushInv, PushTyped
<1>1. /\ PushStores' /\ Recents' /\ ReceiptsOK'
      /\ (recent \in Seq(ReceiptRecord))' /\ (\A i \in DOMAIN recent : Spoken(recent[i].batch))'
      /\ \A s : SubjectOK(s) => SubjectOK(s)'
  BY Quiet
<1>2. SubjectOK(subject)'
  BY <1>1
<1>3. Held(subject, stored)'
  BY <1>0, HeldMoves
<1>4. Answered'
  BY DEF PushInv, Answered
<1> QED  BY <1>1, <1>2, <1>3, <1>4, Assembled

LEMMA Resting ==
    ASSUME PushInv, UNCHANGED <<subject, receipts, recent, stored, lasting, line, kind, answered,
        settled, cutOff, overlaid>>,
           Scalars', Stages', Awaiting'
    PROVE  PushInv'
<1>1. Excused' = Excused
  BY DEF Excused
<1>2. SubjectOK(subject')
  BY DEF PushInv, PushTyped
<1>3. \A e \in Event : Newest(e) /\ subject'.batch # Push!NoBatch /\ subject'.rendering.latest = e
                       => subject'.batch.latest = e
  BY DEF PushInv, Held
<1> QED  BY <1>1, <1>2, <1>3, Turns

LEMMA ScalarsHold == ASSUME PushInv PROVE Scalars
BY DEF PushInv, PushTyped, Scalars

LEMMA JoinsKeeps == ASSUME PushInv, Push!Joins PROVE PushInv'
<1>1. Scalars'
  BY ScalarsHold DEF Scalars, Push!Joins, Push!held, Push!disk, Push!host, Push!ended
<1>2. Stages' /\ Awaiting'
  BY DEF Push!Joins, Push!held, Push!disk, Push!host, Push!ended, PushInv, PushTyped, Stages, Awaiting
<1> QED  BY <1>1, <1>2, Resting DEF Push!Joins, Push!held, Push!disk, Push!host, Push!ended

LEMMA KeeperLeavesKeeps == ASSUME PushInv, Push!KeeperLeaves PROVE PushInv'
<1>1. Scalars'
  BY ScalarsHold DEF Scalars, Push!KeeperLeaves, Push!held, Push!disk, Push!host, Push!outside,
     Push!ended, Push!lapses
<1>2. Stages' /\ Awaiting'
  BY DEF Push!KeeperLeaves, Push!held, Push!disk, Push!host, Push!outside, Push!ended, Push!lapses,
     PushInv, Stages, Awaiting
<1> QED  BY <1>1, <1>2, Resting DEF Push!KeeperLeaves, Push!held, Push!disk, Push!host, Push!outside,
            Push!ended, Push!lapses

LEMMA WakesIs == ASSUME Push!WakesForBatch, keeper \in BOOLEAN PROVE wake' \in BOOLEAN
    /\ keeper' \in BOOLEAN /\ (wake' \/ keeper')
BY DEF Push!WakesForBatch

LEMMA RecoveryFiresKeeps == ASSUME PushInv, Push!RecoveryFires PROVE PushInv'
<1>1. Scalars'
  BY ScalarsHold, WakesIs DEF Scalars, Push!RecoveryFires, Push!held, Push!disk, Push!host,
     Push!outside, Push!ended, Push!lapses
<1>2. Stages' /\ Awaiting'
  BY WakesIs DEF Push!RecoveryFires, Push!held, Push!disk, Push!host, Push!outside, Push!ended,
     Push!lapses, PushInv, PushTyped, Stages, Awaiting
<1> QED  BY <1>1, <1>2, Resting DEF Push!RecoveryFires, Push!held, Push!disk, Push!host, Push!outside,
            Push!ended, Push!lapses

LEMMA RevokeKeeps == ASSUME PushInv, Push!Revoke PROVE PushInv'
<1>1. Scalars'
  BY ScalarsHold DEF Scalars, Push!Revoke, Push!held, Push!disk, Push!wakes, Push!ended, Push!lapses
<1>2. Stages' /\ Awaiting'
  BY DEF Push!Revoke, Push!held, Push!disk, Push!wakes, Push!ended, Push!lapses, PushInv, Stages, Awaiting
<1> QED  BY <1>1, <1>2, Resting DEF Push!Revoke, Push!held, Push!disk, Push!wakes, Push!ended, Push!lapses

LEMMA ReadsKeeps == ASSUME PushInv, Push!Reads PROVE PushInv'
<1>1. Scalars'
  BY ScalarsHold DEF Scalars, Push!Reads, Push!held, Push!disk, Push!wakes, Push!outside, Push!ended,
     Push!lapses
<1>2. Stages' /\ Awaiting'
  BY DEF Push!Reads, Push!held, Push!disk, Push!wakes, Push!outside, Push!ended, Push!lapses, PushInv,
     Stages, Awaiting
<1> QED  BY <1>1, <1>2, Resting DEF Push!Reads, Push!held, Push!disk, Push!wakes, Push!outside,
            Push!ended, Push!lapses

(* Without the batch that renders.                                          *)
LEMMA Unrendered ==
    ASSUME NEW s, SubjectOK(s)
    PROVE  LET t == [s EXCEPT !.rendering = Push!NoBatch] IN
           SubjectOK(t) /\ t.batch = s.batch /\ t.rendering = Push!NoBatch /\ t.history = s.history
<1> DEFINE t == [s EXCEPT !.rendering = Push!NoBatch]
<1>1. s = [history |-> s.history, run |-> s.run, rendered |-> s.rendered, batch |-> s.batch,
           rendering |-> s.rendering, by |-> s.by]
  BY SubjectIs DEF SubjectOf
<1>2. t = [s EXCEPT !.rendering = Push!NoBatch]
  OBVIOUS
<1> HIDE DEF t
<1>3. t = SubjectOf(s.history, s.run, s.rendered, s.batch, Push!NoBatch, s.by)
  BY <1>1, <1>2 DEF SubjectOf
<1>4. SubjectOK(t)
  BY <1>3, SubjectIs, SubjectMade, NoBatchIs
<1>5. t.batch = s.batch /\ t.rendering = Push!NoBatch /\ t.history = s.history
  BY <1>3 DEF SubjectOf
<1> QED  BY <1>4, <1>5 DEF t

LEMMA NoneIs == \A e \in Event : Push!NoBatch.latest # e
BY PushGiven, NoBatchIs DEF Push!PushConstants

LEMMA RenderDroppedKeeps == ASSUME PushInv, Push!RenderDropped PROVE PushInv'
<1>0. SubjectOK(subject) /\ Spoken(subject.batch) /\ Spoken(subject.rendering) /\ Scalars
  BY ScalarsHold DEF PushInv, PushTyped, SubjectOK
<1>1. /\ UNCHANGED <<line, kind, receipts, recent, stored, lasting, answered, lock, wake, keeper, suspended,
                     authorized, missed, overlaid>>
      /\ lock = "free" /\ subject.rendering # Push!NoBatch
           /\ subject' = [subject EXCEPT !.rendering = Push!NoBatch]
      /\ armed' = IF suspended THEN armed ELSE FALSE
      /\ dirty' = TRUE
      /\ settled' = IF suspended THEN settled ELSE settled \cup subject.rendering.notices
      /\ cutOff' = IF suspended THEN cutOff \cup subject.rendering.notices ELSE cutOff
  BY DEF Push!RenderDropped, Push!disk, Push!host, Push!lapses, Push!ended
<1>2. SubjectOK(subject') /\ subject'.batch = subject.batch /\ subject'.rendering = Push!NoBatch
  BY <1>0, <1>1, Unrendered
<1>3. Excused \subseteq Excused' /\ subject.rendering.notices \subseteq Excused'
  BY <1>1 DEF Excused
<1>4. \A e \in Event : subject.rendering.latest = e => e \in Excused'
  BY <1>0, <1>1, <1>3, SpokenIs
<1>5. \A e \in Event : subject'.rendering.latest # e
  BY <1>2, NoneIs
<1>6. Scalars'
  BY <1>0, <1>1, SpokenIs DEF Scalars
<1>7. Stages' /\ Awaiting'
  BY <1>1, <1>2, LocksApart DEF PushInv, Stages, Awaiting
<1> QED  BY <1>1, <1>2, <1>3, <1>4, <1>5, <1>6, <1>7, Turns

LEMMA RenderEndsKeeps == ASSUME PushInv, Push!RenderEnds PROVE PushInv'
<1>0. SubjectOK(subject) /\ Spoken(subject.batch) /\ Spoken(subject.rendering) /\ Scalars
        /\ Held(subject, stored)
  BY ScalarsHold DEF PushInv, PushTyped, SubjectOK
<1>1. /\ UNCHANGED <<line, kind, receipts, recent, stored, answered, wake, keeper, suspended, authorized,
                     settled, cutOff, missed, overlaid>>
      /\ lock = "settle" /\ lock' = "free" /\ subject' = [subject EXCEPT !.rendering = Push!NoBatch]
      /\ armed' = TRUE /\ dirty' = TRUE /\ (lasting' = lasting \/ lasting' = {stored})
  BY DEF Push!RenderEnds, Push!Commits, Push!disk, Push!host, Push!lapses, Push!ended
<1>2. SubjectOK(subject') /\ subject'.batch = subject.batch /\ subject'.rendering = Push!NoBatch
  BY <1>0, <1>1, Unrendered
<1>3. Excused' = Excused
  BY <1>1 DEF Excused
<1>5. \A e \in Event : subject'.rendering.latest # e
  BY <1>2, NoneIs
<1>6. Scalars'
  BY <1>0, <1>1 DEF Scalars
<1>7. Stages' /\ Awaiting'
  BY <1>1, <1>2, LocksApart DEF PushInv, Stages, Awaiting
<1>8. PushStores' /\ Recents' /\ ReceiptsOK' /\ SubjectOK(subject)'
      /\ (recent \in Seq(ReceiptRecord))' /\ (\A i \in DOMAIN recent : Spoken(recent[i].batch))'
  BY <1>1, <1>2, <1>3, Quiet
<1>9. Held(subject, stored)'
  <2>1. ASSUME NEW e \in Event, Newest(e)', receipts'[e].status # "none" PROVE Holding(subject, stored, e)'
    <3>1. /\ Holding(subject, stored, e)
          /\ subject.batch # Push!NoBatch /\ subject.rendering.latest = e => subject.batch.latest = e
      BY <1>0, <1>1, <2>1 DEF Held, Newest
    <3>2. subject.batch # Push!NoBatch
      BY <1>1 DEF PushInv, Stages
    <3> QED  BY <1>1, <1>2, <1>3, <3>1, <3>2 DEF Holding, Taken
  <2> QED  BY <1>5, <2>1 DEF Held
<1>10. Answered'
  BY <1>1 DEF PushInv, Answered
<1> QED  BY <1>6, <1>7, <1>8, <1>9, <1>10, Assembled

(* Freezing.                                                                *)
LEMMA FreezeFailsIs ==
    ASSUME NEW s, SubjectOK(s), s.batch # Push!NoBatch \/ s.rendering # Push!NoBatch, Push!FreezeFails(s)
    PROVE  /\ SubjectOK(subject') /\ subject'.rendering = Push!NoBatch /\ subject'.batch # Push!NoBatch
           /\ subject'.batch.latest = IF s.batch # Push!NoBatch THEN s.batch.latest ELSE s.rendering.latest
<1> DEFINE b == IF s.batch # Push!NoBatch THEN s.batch ELSE s.rendering
           c == [b EXCEPT !.noRender = TRUE]
<1>1. Spoken(b) /\ b # Push!NoBatch /\ b \in Push!Batch
      /\ b.latest = IF s.batch # Push!NoBatch THEN s.batch.latest ELSE s.rendering.latest
  BY DEF SubjectOK, Spoken, SoundBatch
<1>2. subject' = [s EXCEPT !.rendering = Push!NoBatch, !.batch = c]
  BY DEF Push!FreezeFails
<1> HIDE DEF b
<1>3. c \in Push!Batch /\ c.latest = b.latest /\ c.notices = b.notices
  BY <1>1 DEF Push!Batch
<1> HIDE DEF c
<1>4. Spoken(c) /\ c # Push!NoBatch
  BY <1>1, <1>3, SpokenAgain
<1>5. subject' = SubjectOf(s.history, s.run, s.rendered, c, Push!NoBatch, s.by)
  <2>1. s = [history |-> s.history, run |-> s.run, rendered |-> s.rendered, batch |-> s.batch,
             rendering |-> s.rendering, by |-> s.by]
    BY SubjectIs DEF SubjectOf
  <2> QED  BY <1>2, <2>1 DEF SubjectOf
<1>6. SubjectOK(subject')
  BY <1>4, <1>5, SubjectIs, SubjectMade, NoBatchIs
<1>7. subject'.batch = c /\ subject'.rendering = Push!NoBatch
  BY <1>5 DEF SubjectOf
<1> QED  BY <1>1, <1>3, <1>4, <1>6, <1>7

LEMMA FrozenKeeps == ASSUME PushInv, Push!Frozen PROVE PushInv'
<1>0. SubjectOK(subject) /\ Spoken(subject.batch) /\ Spoken(subject.rendering) /\ Scalars
        /\ Held(subject, stored)
  BY ScalarsHold DEF PushInv, PushTyped, SubjectOK
<1>1. /\ UNCHANGED <<line, kind, receipts, recent, answered, wake, keeper, suspended, authorized,
                     cutOff, missed, overlaid>>
      /\ lock = "freeze" /\ subject.batch = Push!NoBatch /\ subject.rendering # Push!NoBatch
  BY DEF Push!Frozen, Push!host, Push!lapses, PushInv, Stages
<1>2. \A e \in Event : subject.batch.latest # e
  BY <1>1, NoneIs
<1>3. CASE Push!Faulty /\ Push!FreezeFails(subject) /\ UNCHANGED <<Push!disk, settled>>
  <2>1. /\ SubjectOK(subject') /\ subject'.rendering = Push!NoBatch /\ subject'.batch # Push!NoBatch
        /\ subject'.batch.latest = subject.rendering.latest
    BY <1>0, <1>1, <1>3, FreezeFailsIs
  <2>2. stored' = stored /\ lasting' = lasting /\ settled' = settled /\ armed' = TRUE
          /\ dirty' = TRUE /\ lock' = "free"
    BY <1>3 DEF Push!FreezeFails, Push!disk
  <2>3. Excused' = Excused
    BY <1>1, <2>2 DEF Excused
  <2>4. Scalars'
    BY <1>0, <1>1, <2>2 DEF Scalars
  <2>5. Stages' /\ Awaiting'
    BY <1>1, <2>1, <2>2, LocksApart DEF Stages, Awaiting
  <2>6. \A e \in Event : subject'.rendering.latest # e
    BY <2>1, NoneIs
  <2> QED  BY <1>1, <1>2, <2>1, <2>2, <2>3, <2>4, <2>5, <2>6, Turns
<1>4. CASE /\ Push!Commits /\ Push!Faultless
           /\ armed' = FALSE /\ lock' = "free"
           /\ subject' = CASE suspended -> [subject EXCEPT !.batch = subject.rendering,
                !.rendering = Push!NoBatch]
                           [] ~suspended /\ ~authorized -> [subject EXCEPT !.rendering = Push!NoBatch]
                           [] OTHER -> subject
           /\ settled' = IF suspended \/ authorized THEN settled
                         ELSE settled \cup subject.rendering.notices
           /\ dirty' = (dirty \/ subject'.rendering = Push!NoBatch)
  <2>1. stored' = stored /\ lasting' = {stored}
    BY <1>4 DEF Push!Commits
  <2>2. Excused \subseteq Excused'
    BY <1>1, <1>4 DEF Excused
  <2>3. Scalars'
    BY <1>0, <1>1, <1>4, SpokenIs DEF Scalars
  <2>4. CASE suspended
    <3>1. subject' = [subject EXCEPT !.batch = subject.rendering, !.rendering = Push!NoBatch]
      BY <1>4, <2>4
    <3>2. SubjectOK(subject') /\ subject'.batch = subject.rendering /\ subject'.rendering = Push!NoBatch
      <4>1. subject' = With(subject, subject.rendering, Push!NoBatch)
        BY <3>1 DEF With
      <4>2. Spoken(Push!NoBatch) /\ SubjectOK(subject) /\ Spoken(subject.rendering)
        BY <1>0, NoBatchIs
      <4>3. SubjectOK(With(subject, subject.rendering, Push!NoBatch))
        BY <4>2, SubjectWith
      <4>4. With(subject, subject.rendering, Push!NoBatch).rendering = Push!NoBatch
        BY <4>2, SubjectWith
      <4>5. With(subject, subject.rendering, Push!NoBatch).batch = subject.rendering
        BY <4>2, SubjectWith
      <4> QED  BY <4>1, <4>3, <4>4, <4>5
    <3>3. \A e \in Event : subject'.rendering.latest # e
      BY <3>2, NoneIs
    <3>4. Stages' /\ Awaiting'
      BY <1>1, <1>4, <2>4, <3>2, LocksApart DEF Stages, Awaiting
    <3> QED  BY <1>1, <1>2, <2>1, <2>2, <2>3, <3>2, <3>3, <3>4, Turns
  <2>5. CASE ~suspended /\ ~authorized
    <3>1. subject' = [subject EXCEPT !.rendering = Push!NoBatch]
            /\ settled' = settled \cup subject.rendering.notices
      BY <1>4, <2>5
    <3>2. SubjectOK(subject') /\ subject'.batch = Push!NoBatch /\ subject'.rendering = Push!NoBatch
      BY <1>0, <1>1, <3>1, Unrendered
    <3>3. \A e \in Event : subject.rendering.latest = e => e \in Excused'
      BY <1>0, <1>1, <3>1, SpokenIs DEF Excused
    <3>4. Stages' /\ Awaiting'
      BY <1>1, <1>4, <3>2, LocksApart DEF Stages, Awaiting
    <3> QED  BY <1>1, <1>2, <2>1, <2>2, <2>3, <3>2, <3>3, <3>4, Turns
  <2>6. CASE ~suspended /\ authorized
    <3>1. subject' = subject
      BY <1>4, <2>6
    <3>2. Stages' /\ Awaiting'
      BY <1>1, <1>4, <3>1, LocksApart DEF Stages, Awaiting
    <3> QED  BY <1>0, <1>1, <1>2, <2>1, <2>2, <2>3, <3>1, <3>2, Turns
  <2> QED  BY <2>4, <2>5, <2>6
<1> QED  BY <1>3, <1>4 DEF Push!Frozen

LEMMA FlushKeeps == ASSUME PushInv, Push!Flush PROVE PushInv'
<1>0. SubjectOK(subject) /\ Scalars /\ Held(subject, stored) /\ ReceiptsOK /\ PushTyped
        /\ PushStores /\ Recents
  BY ScalarsHold DEF PushInv, PushTyped
<1>1. /\ UNCHANGED <<line, kind, receipts, subject, lock, wake, keeper, armed, answered, suspended,
           authorized,
                     settled, cutOff, missed, overlaid>>
      /\ dirty' \in BOOLEAN
      /\ Push!Saves(subject) \/ Push!SaveThrows(subject)
  BY <1>0 DEF Push!Flush, Push!wakes, Push!host, Push!lapses, Push!ended, Scalars
<1>2. Excused' = Excused
  BY <1>1 DEF Excused
<1>3. /\ PushStores' /\ Recents' /\ stored'.rows = stored.rows
      /\ (recent \in Seq(ReceiptRecord))' /\ (\A i \in DOMAIN recent : Spoken(recent[i].batch))'
  BY <1>0, <1>1, <1>2, SaveKeeps
<1>4. ReceiptsOK' /\ SubjectOK(subject)'
  BY <1>0, <1>1, <1>2, StillAll
<1>5. Held(subject, stored)'
  <2>1. \A e \in Event : Newest(e) /\ subject'.batch # Push!NoBatch /\ subject'.rendering.latest = e
          => subject'.batch.latest = e
    BY <1>0, <1>1 DEF Held
  <2> QED  BY <1>0, <1>1, <1>2, <1>3, <2>1, HeldMoves
<1>6. Scalars' /\ Stages' /\ Awaiting' /\ Answered'
  BY <1>0, <1>1 DEF Scalars, PushInv, Stages, Awaiting, Answered
<1> QED  BY <1>3, <1>4, <1>5, <1>6, Assembled

LEMMA SuspendKeeps == ASSUME PushInv, Push!Suspend PROVE PushInv'
<1>0. SubjectOK(subject) /\ Scalars /\ Held(subject, stored) /\ ReceiptsOK /\ PushTyped
        /\ PushStores /\ Recents
      /\ stored \in lasting
  BY ScalarsHold DEF PushInv, PushTyped, PushStores
<1>1. /\ UNCHANGED <<line, kind, receipts, subject, lock, wake, keeper, answered, authorized,
                     settled, cutOff, missed, overlaid>>
      /\ dirty' = FALSE /\ suspended' = TRUE /\ armed' = FALSE
      /\ IF dirty THEN Push!Saves(subject) ELSE UNCHANGED <<Push!disk, recent>>
  BY DEF Push!Suspend, Push!lapses, Push!ended
<1>2. Excused' = Excused
  BY <1>1 DEF Excused
<1>3. /\ PushStores' /\ Recents' /\ stored'.rows = stored.rows
      /\ (recent \in Seq(ReceiptRecord))' /\ (\A i \in DOMAIN recent : Spoken(recent[i].batch))'
  <2>1. CASE dirty
    BY <1>0, <1>1, <1>2, <2>1, SaveKeeps
  <2>2. CASE ~dirty
    BY <1>1, <1>2, <2>2, Quiet DEF Push!disk
  <2> QED  BY <2>1, <2>2
<1>4. ReceiptsOK' /\ SubjectOK(subject)'
  BY <1>0, <1>1, <1>2, StillAll
<1>5. Held(subject, stored)'
  <2>1. \A e \in Event : Newest(e) /\ subject'.batch # Push!NoBatch /\ subject'.rendering.latest = e
          => subject'.batch.latest = e
    BY <1>0, <1>1 DEF Held
  <2> QED  BY <1>0, <1>1, <1>2, <1>3, <2>1, HeldMoves
<1>6. Scalars' /\ Stages' /\ Awaiting' /\ Answered'
  BY <1>0, <1>1 DEF Scalars, PushInv, Stages, Awaiting, Answered
<1> QED  BY <1>3, <1>4, <1>5, <1>6, Assembled

LEMMA ByFields ==
    ASSUME NEW s, SubjectOK(s), NEW b, NEW r, NEW y
    PROVE  WithBy(s, b, r, y).batch = b /\ WithBy(s, b, r, y).rendering = r
<1>1. s = [history |-> s.history, run |-> s.run, rendered |-> s.rendered, batch |-> s.batch,
           rendering |-> s.rendering, by |-> s.by]
  BY SubjectIs DEF SubjectOf
<1>2. DOMAIN s = {"history", "run", "rendered", "batch", "rendering", "by"}
  BY <1>1
<1> QED  BY <1>2 DEF WithBy

LEMMA FreezeKeeps == ASSUME PushInv, NEW who \in {"turn", "keeper"}, Push!Freeze(who) PROVE PushInv'
<1>0. SubjectOK(subject) /\ Spoken(subject.batch) /\ Spoken(subject.rendering) /\ Scalars
        /\ Held(subject, stored)
      /\ ReceiptsOK /\ PushTyped /\ PushStores /\ Recents
  BY ScalarsHold DEF PushInv, PushTyped, SubjectOK
<1>1. /\ UNCHANGED <<line, kind, receipts, answered, suspended, authorized, cutOff, missed, overlaid>>
      /\ lock = "free" /\ ~suspended /\ subject.batch # Push!NoBatch /\ subject.rendering = Push!NoBatch
      /\ wake' = FALSE /\ keeper' \in BOOLEAN
  BY <1>0 DEF Push!Freeze, Push!host, Push!lapses, Scalars
<1> DEFINE frozen == WithBy(subject, Push!NoBatch, subject.batch, who)
<1>2. SubjectOK(frozen) /\ frozen.batch = Push!NoBatch /\ frozen.rendering = subject.batch
  <2> HIDE DEF frozen
  <2>1. frozen = WithBy(subject, Push!NoBatch, subject.batch, who)
    BY DEF frozen
  <2>2. Spoken(Push!NoBatch) /\ SubjectOK(subject) /\ Spoken(subject.batch)
    BY <1>0, NoBatchIs
  <2>3. SubjectOK(WithBy(subject, Push!NoBatch, subject.batch, who))
    BY <2>2, SubjectBy
  <2>4. WithBy(subject, Push!NoBatch, subject.batch, who).batch = Push!NoBatch
    BY <2>2, ByFields
  <2>5. WithBy(subject, Push!NoBatch, subject.batch, who).rendering = subject.batch
    BY <2>2, ByFields
  <2> QED  BY <2>1, <2>3, <2>4, <2>5
<1>3. \/ /\ ~authorized /\ subject' = Push!DropBatches(subject)
         /\ settled' = settled \cup subject.batch.notices
         /\ dirty' = TRUE /\ UNCHANGED <<recent, Push!disk, armed, lock>>
      \/ /\ authorized /\ subject' = frozen /\ Push!Saves(frozen)
         /\ lock' = "freeze" /\ dirty' = FALSE /\ UNCHANGED <<armed, settled>>
      \/ /\ authorized /\ Push!SaveThrows(frozen) /\ Push!FreezeFails(frozen) /\ UNCHANGED settled
  BY DEF Push!Freeze, WithBy
<1> HIDE DEF frozen
<1>4. Held(frozen, stored)
  BY <1>0, <1>1, <1>2, NoneIs DEF Held, Holding
<1>5. CASE /\ ~authorized /\ subject' = Push!DropBatches(subject)
           /\ settled' = settled \cup subject.batch.notices
           /\ dirty' = TRUE /\ UNCHANGED <<recent, Push!disk, armed, lock>>
  <2>1. SubjectOK(subject') /\ subject'.batch = Push!NoBatch /\ subject'.rendering = Push!NoBatch
    <3>1. subject' = With(subject, Push!NoBatch, Push!NoBatch)
      BY <1>5 DEF With, Push!DropBatches
    <3>2. Spoken(Push!NoBatch)
      BY NoBatchIs
    <3>3. SubjectOK(With(subject, Push!NoBatch, Push!NoBatch))
      BY <1>0, <3>2, SubjectWith
    <3>4. With(subject, Push!NoBatch, Push!NoBatch).batch = Push!NoBatch
      BY <1>0, <3>2, SubjectWith
    <3>5. With(subject, Push!NoBatch, Push!NoBatch).rendering = Push!NoBatch
      BY <1>0, <3>2, SubjectWith
    <3> QED  BY <3>1, <3>3, <3>4, <3>5
  <2>2. Excused \subseteq Excused' /\ \A e \in Event : subject.batch.latest = e => e \in Excused'
    BY <1>0, <1>1, <1>5, SpokenIs DEF Excused
  <2>3. \A e \in Event : subject.rendering.latest # e /\ subject'.rendering.latest # e
    BY <1>1, <2>1, NoneIs
  <2>4. Scalars'
    BY <1>0, <1>1, <1>5, SpokenIs DEF Scalars
  <2>5. Stages' /\ Awaiting'
    BY <1>1, <1>5, <2>1, LocksApart DEF Stages, Awaiting
  <2> QED  BY <1>1, <1>5, <2>1, <2>2, <2>3, <2>4, <2>5, Turns DEF Push!disk
<1>6. CASE /\ authorized /\ subject' = frozen /\ Push!Saves(frozen)
           /\ lock' = "freeze" /\ dirty' = FALSE /\ UNCHANGED <<armed, settled>>
  <2>1. Excused' = Excused
    BY <1>1, <1>6 DEF Excused
  <2>2. /\ PushStores' /\ Recents' /\ stored'.rows = stored.rows
        /\ (recent \in Seq(ReceiptRecord))' /\ (\A i \in DOMAIN recent : Spoken(recent[i].batch))'
    BY <1>0, <1>1, <1>2, <1>4, <1>6, <2>1, SaveKeeps
  <2>3. ReceiptsOK' /\ SubjectOK(subject)'
    <3>1. ReceiptsOK' /\ \A s : SubjectOK(s) => SubjectOK(s)'
      BY <1>0, <1>1, <2>1, StillAll
    <3>2. SubjectOK(subject')
      BY <1>2, <1>6
    <3> QED  BY <3>1, <3>2
  <2>4. Held(subject, stored)'
    <3>1. \A e \in Event : Newest(e) /\ subject'.batch # Push!NoBatch
            /\ subject'.rendering.latest = e => subject'.batch.latest = e
      BY <1>2, <1>6
    <3>2. \A e \in Event : e \in {frozen.batch.latest, frozen.rendering.latest}
            => e \in {subject'.batch.latest, subject'.rendering.latest}
      BY <1>6
    <3>3. \A e \in Event : stored.rows[e] > 0 => stored'.rows[e] > 0
      BY <2>2
    <3> QED  BY <1>0, <1>1, <1>4, <2>1, <3>1, <3>2, <3>3, HeldMoves
  <2>5. Scalars'
    BY <1>0, <1>1, <1>6 DEF Scalars
  <2>6. Stages' /\ Awaiting' /\ Answered'
    BY <1>1, <1>2, <1>6, LocksApart DEF PushInv, Stages, Awaiting, Answered
  <2> QED  BY <2>2, <2>3, <2>4, <2>5, <2>6, Assembled
<1>7. CASE authorized /\ Push!SaveThrows(frozen) /\ Push!FreezeFails(frozen) /\ UNCHANGED settled
  <2>1. Excused' = Excused
    BY <1>1, <1>7 DEF Excused
  <2>2. /\ PushStores' /\ Recents' /\ stored'.rows = stored.rows
        /\ (recent \in Seq(ReceiptRecord))' /\ (\A i \in DOMAIN recent : Spoken(recent[i].batch))'
    BY <1>0, <1>1, <1>2, <1>4, <1>7, <2>1, SaveKeeps
  <2>3. /\ SubjectOK(subject') /\ subject'.rendering = Push!NoBatch /\ subject'.batch # Push!NoBatch
        /\ subject'.batch.latest = subject.batch.latest
        /\ armed' = TRUE /\ dirty' = TRUE /\ lock' = "free"
    <3>1. frozen.batch # Push!NoBatch \/ frozen.rendering # Push!NoBatch
      BY <1>1, <1>2
    <3>2. /\ SubjectOK(subject') /\ subject'.rendering = Push!NoBatch /\ subject'.batch # Push!NoBatch
          /\ subject'.batch.latest = IF frozen.batch # Push!NoBatch THEN frozen.batch.latest ELSE frozen.rendering.latest
      BY <1>2, <1>7, <3>1, FreezeFailsIs
    <3> QED  BY <1>2, <1>7, <3>2 DEF Push!FreezeFails
  <2>4. ReceiptsOK' /\ SubjectOK(subject)'
    <3>1. ReceiptsOK' /\ \A s : SubjectOK(s) => SubjectOK(s)'
      BY <1>0, <1>1, <2>1, StillAll
    <3> QED  BY <2>3, <3>1
  <2>5. Held(subject, stored)'
    <3>1. \A e \in Event : subject'.rendering.latest # e /\ subject.rendering.latest # e
      BY <1>1, <2>3, NoneIs
    <3>2. \A e \in Event : stored.rows[e] > 0 => stored'.rows[e] > 0
      BY <2>2
    <3> QED  BY <1>0, <1>1, <2>1, <2>3, <3>1, <3>2, HeldMoves
  <2>6. Scalars'
    BY <1>0, <1>1, <1>7, <2>3 DEF Scalars
  <2>7. Stages' /\ Awaiting' /\ Answered'
    BY <1>1, <2>3, LocksApart DEF PushInv, Stages, Awaiting, Answered
  <2> QED  BY <2>2, <2>4, <2>5, <2>6, <2>7, Assembled
<1> QED  BY <1>3, <1>5, <1>6, <1>7

-----------------------------------------------------------------------------
(* Rendering.                                                               *)
LEMMA BoundIs ==
    ASSUME NEW b, Spoken(b), NEW x \in BOOLEAN, b = Push!NoBatch => x = FALSE
    PROVE  LET c == [b EXCEPT !.bound = b.bound \/ x] IN
           Spoken(c) /\ c.latest = b.latest /\ (c = Push!NoBatch <=> b = Push!NoBatch)
<1> DEFINE c == [b EXCEPT !.bound = b.bound \/ x]
<1>1. b = [latest |-> b.latest, notices |-> b.notices, noRender |-> b.noRender,
           mayBeStored |-> b.mayBeStored, bound |-> b.bound]
  BY SpokenIs
<1>2. b \in Push!Batch /\ c \in Push!Batch /\ c.latest = b.latest /\ c.notices = b.notices
  BY DEF Spoken, SoundBatch, Push!Batch
<1>3. b = Push!NoBatch => c = b
  <2> SUFFICES ASSUME b = Push!NoBatch PROVE c = b
    OBVIOUS
  <2> DEFINE y == b.bound \/ x
  <2>1. c = [b EXCEPT !.bound = y]
    OBVIOUS
  <2>2. b.bound = FALSE
    BY NoBatchIs
  <2>3. y = FALSE
    BY <2>2
  <2> HIDE DEF y, c
  <2>4. c = [b EXCEPT !.bound = FALSE]
    BY <2>1, <2>3
  <2> QED  BY <1>1, <2>2, <2>4
<1> HIDE DEF c
<1>4. Spoken(c) /\ (c = Push!NoBatch <=> b = Push!NoBatch)
  <2>1. CASE b = Push!NoBatch
    BY <1>3, <2>1
  <2>2. CASE b # Push!NoBatch
    BY <1>2, <2>2, SpokenAgain
  <2> QED  BY <2>1, <2>2
<1> QED  BY <1>2, <1>4 DEF c

LEMMA RowBump ==
    ASSUME NEW st, FullStore(st), NEW e \in Event
    PROVE  LET w == [st EXCEPT !.rows[e] = @ + 1] IN
           /\ FullStore(w) /\ w.rows[e] > 0 /\ w.recent = st.recent /\ w.snap = st.snap
           /\ \A d \in Event : st.rows[d] > 0 => w.rows[d] > 0
<1> DEFINE f == [st.rows EXCEPT ![e] = @ + 1]
           w == [st EXCEPT !.rows = f]
<1>1. st \in PushStore /\ st.rows \in [Event -> Nat]
  BY DEF FullStore, GoodStore, StoreTyped, PushStore
<1>2. f \in [Event -> Nat] /\ f[e] > 0 /\ (\A d \in Event : f[d] >= st.rows[d])
  BY <1>1
<1>3. w.rows = f /\ w.recent = st.recent /\ w.snap = st.snap
  BY <1>1 DEF PushStore
<1>4. \A d \in Event : st.rows[d] > 0 => f[d] > 0
  BY <1>1
<1>5. FullStore(w)
  <2> HIDE DEF f
  <2> QED  BY <1>2, RowsUp
<1>6. w = [st EXCEPT !.rows[e] = @ + 1]
  OBVIOUS
<1> HIDE DEF w, f
<1> QED  BY <1>2, <1>3, <1>4, <1>5, <1>6

LEMMA RenderedKeeps == ASSUME PushInv, NEW presented \in BOOLEAN, Push!Rendered(presented) PROVE PushInv'
<1> DEFINE b == subject.rendering
           e == b.latest
           follows == ~presented /\ subject.batch # Push!NoBatch /\ ~subject.batch.bound
           run == IF subject.rendered THEN subject.run ELSE <<>>
           h == IF presented THEN "some" ELSE subject.history
           r == IF presented THEN <<>> ELSE Append(run, e)
           c == [subject.batch EXCEPT !.bound = subject.batch.bound \/ follows]
           up == [stored EXCEPT !.rows[e] = @ + 1]
<1>0. SubjectOK(subject) /\ Spoken(subject.batch) /\ Spoken(b) /\ Scalars /\ Held(subject, stored)
      /\ ReceiptsOK /\ FullStore(stored) /\ stored \in lasting
      /\ recent \in Seq(ReceiptRecord) /\ (\A i \in DOMAIN recent : Spoken(recent[i].batch))
  BY ScalarsHold DEF PushInv, PushTyped, SubjectOK, PushStores
<1>1. /\ UNCHANGED <<line, kind, receipts, recent, answered, lock, suspended, authorized, settled,
           cutOff, missed, overlaid>>
      /\ lock = "free" /\ b # Push!NoBatch /\ ~suspended /\ authorized /\ armed' = FALSE /\ dirty' = TRUE
      /\ Push!Writes(<<IF b.mayBeStored /\ stored.rows[e] > 0 THEN stored ELSE up>>)
      /\ IF follows THEN Push!WakesForBatch ELSE UNCHANGED <<wake, keeper>>
  BY DEF Push!Rendered, Push!host, Push!lapses
<1>2. e \in Event /\ e \in Tries
  BY <1>0, <1>1, SpokenIs, PushGiven DEF Push!PushConstants
<1>3. subject' = SubjectOf(h, r, ~presented, c, Push!NoBatch, subject.by)
  <2>1. subject = [history |-> subject.history, run |-> subject.run, rendered |-> subject.rendered,
                   batch |-> subject.batch, rendering |-> subject.rendering, by |-> subject.by]
    BY <1>0, SubjectIs DEF SubjectOf
  <2>2. subject' = [subject EXCEPT
               !.rendering = Push!NoBatch, !.history = IF presented THEN "some" ELSE @,
               !.run = IF presented THEN <<>> ELSE Append(run, e),
               !.rendered = ~presented, !.batch.bound = @ \/ follows]
    BY DEF Push!Rendered
  <2> HIDE DEF run, e, follows
  <2> QED  BY <2>1, <2>2 DEF SubjectOf
<1>4. Spoken(c) /\ c.latest = subject.batch.latest /\ (c = Push!NoBatch <=> subject.batch = Push!NoBatch)
  <2>1. follows \in BOOLEAN /\ (subject.batch = Push!NoBatch => follows = FALSE)
    OBVIOUS
  <2> HIDE DEF follows
  <2> QED  BY <1>0, <2>1, BoundIs
<1> HIDE DEF b, c, follows, up
<1>5. SubjectOK(subject')
  <2>1. subject.history \in Push!History /\ subject.run \in Seq(Event)
          /\ (\A i \in DOMAIN subject.run : subject.run[i] \in Tries)
        /\ subject.by \in {"turn", "keeper"}
    BY <1>0, SubjectIs
  <2>2. run \in Seq(Event) /\ \A i \in DOMAIN run : run[i] \in Tries
    BY <2>1
  <2> HIDE DEF run, e
  <2>3. r \in Seq(Event) /\ \A i \in DOMAIN r : r[i] \in Tries
    <3>1. CASE presented
      BY <3>1
    <3>2. CASE ~presented
      <4>1. r = Append(run, e)
        BY <3>2
      <4> QED  BY <1>2, <2>2, <4>1, AppendIs
    <3> QED  BY <3>1, <3>2
  <2>4. h \in Push!History /\ (~presented) \in BOOLEAN
    BY <2>1 DEF Push!History
  <2> HIDE DEF r, h
  <2>5. Spoken(Push!NoBatch)
    BY NoBatchIs
  <2>6. SubjectOK(SubjectOf(h, r, ~presented, c, Push!NoBatch, subject.by))
    BY <1>4, <2>1, <2>3, <2>4, <2>5, SubjectMade
  <2> QED  BY <1>3, <2>6
<1>6. subject'.batch = c /\ subject'.rendering = Push!NoBatch
  BY <1>3 DEF SubjectOf
<1>7. /\ FullStore(stored') /\ lasting' = lasting \cup {stored'} /\ stored'.rows[e] > 0
      /\ stored'.recent = stored.recent /\ stored'.snap = stored.snap
      /\ \A d \in Event : stored.rows[d] > 0 => stored'.rows[d] > 0
  <2> HIDE DEF e
  <2>1. /\ FullStore(up) /\ up.rows[e] > 0 /\ up.recent = stored.recent /\ up.snap = stored.snap
        /\ \A d \in Event : stored.rows[d] > 0 => up.rows[d] > 0
    BY <1>0, <1>2, RowBump DEF up
  <2>2. CASE b.mayBeStored /\ stored.rows[e] > 0
    <3>1. Push!Writes(<<stored>>)
      BY <1>1, <2>2
    <3>2. stored' = stored /\ lasting' = lasting \cup {stored}
      BY <3>1, WritesOne
    <3> QED  BY <1>0, <2>2, <3>2
  <2>3. CASE ~(b.mayBeStored /\ stored.rows[e] > 0)
    <3>1. Push!Writes(<<up>>)
      BY <1>1, <2>3
    <3>2. stored' = up /\ lasting' = lasting \cup {up}
      BY <3>1, WritesOne
    <3> QED  BY <2>1, <3>2
  <2> QED  BY <2>2, <2>3
<1>8. Excused' = Excused
  BY <1>1 DEF Excused
<1>9. PushStores' /\ Recents'
  <2>1. PushStores'
    <3>1. PushStores /\ ReceiptsOK
      BY <1>0 DEF PushInv
    <3>2. stored' \in {stored', stored', stored'} /\ stored' \in lasting'
            /\ lasting' \subseteq lasting \cup {stored', stored', stored'}
      BY <1>7
    <3> QED  BY <1>1, <1>7, <1>8, <3>1, <3>2, PushStoresWritten
  <2>2. Recents'
    BY <1>1, <1>7 DEF PushInv, Recents
  <2> QED  BY <2>1, <2>2
<1>10. /\ ReceiptsOK' /\ SubjectOK(subject)'
       /\ (recent \in Seq(ReceiptRecord))' /\ (\A i \in DOMAIN recent : Spoken(recent[i].batch))'
  <2>1. /\ ReceiptsOK' /\ (\A s : SubjectOK(s) => SubjectOK(s)') /\ (\A x : Spoken(x) => Spoken(x)')
    BY <1>0, <1>1, <1>8, StillAll
  <2> QED  BY <1>0, <1>1, <1>5, <2>1
<1>11. Held(subject, stored)'
  <2>1. \A d \in Event : d \in {subject.batch.latest, subject.rendering.latest} =>
               d \in {subject'.batch.latest, subject'.rendering.latest} \cup Excused' \/ stored'.rows[d] > 0
    BY <1>4, <1>6, <1>7 DEF b
  <2>2. \A d \in Event : subject'.rendering.latest # d
    BY <1>6, NoneIs
  <2> QED  BY <1>0, <1>1, <1>7, <1>8, <2>1, <2>2, HeldMoves
<1>12. Awaiting'
  <2>1. CASE follows
    <3>1. wake' \/ keeper'
      BY <1>0, <1>1, <2>1, WakesIs DEF Scalars
    <3> QED  BY <3>1 DEF Awaiting
  <2>2. CASE ~follows
    <3>1. ~armed
      BY <1>1, LocksApart DEF PushInv, Stages, b
    <3> QED  BY <1>1, <1>4, <1>6, <2>2, <3>1 DEF PushInv, Awaiting
  <2> QED  BY <2>1, <2>2
<1>13. Stages' /\ Answered'
  BY <1>1, <1>6, LocksApart DEF PushInv, Stages, Answered
<1>14. Scalars'
  <2>1. wake' \in BOOLEAN /\ keeper' \in BOOLEAN
    BY <1>0, <1>1, WakesIs DEF Scalars
  <2> QED  BY <1>0, <1>1, <2>1 DEF Scalars
<1> QED  BY <1>9, <1>10, <1>11, <1>12, <1>13, <1>14, Assembled

WithBatch(s, c) == [s EXCEPT !.batch = c]

LEMMA SubjectBatch ==
    ASSUME NEW s, SubjectOK(s), NEW c, Spoken(c)
    PROVE  SubjectOK(WithBatch(s, c)) /\ WithBatch(s, c).batch = c
        /\ WithBatch(s, c).rendering = s.rendering
<1> DEFINE t == WithBatch(s, c)
<1>0. t = WithBatch(s, c)
  OBVIOUS
<1> HIDE DEF t
<1>1. s = [history |-> s.history, run |-> s.run, rendered |-> s.rendered, batch |-> s.batch,
           rendering |-> s.rendering, by |-> s.by]
  BY SubjectIs DEF SubjectOf
<1>2. t = SubjectOf(s.history, s.run, s.rendered, c, s.rendering, s.by)
  BY <1>0, <1>1 DEF SubjectOf, WithBatch
<1>3. SubjectOK(SubjectOf(s.history, s.run, s.rendered, c, s.rendering, s.by))
  <2>1. s.history \in Push!History /\ s.run \in Seq(Event) /\ s.rendered \in BOOLEAN
          /\ s.by \in {"turn", "keeper"}
        /\ Spoken(s.rendering) /\ \A i \in DOMAIN s.run : s.run[i] \in Tries
    BY SubjectIs
  <2> QED  BY <2>1, SubjectMade
<1>4. t.batch = c /\ t.rendering = s.rendering
  BY <1>2 DEF SubjectOf
<1>5. SubjectOK(t)
  BY <1>2, <1>3
<1> QED  BY <1>4, <1>5 DEF t

(* What a save writes, in the store's own fields.                           *)
LEMMA StartsIs ==
    ASSUME NEW st, st \in PushStore, NEW s
    PROVE  /\ Push!Starts(st, s).rows = st.rows /\ Push!Clears(Push!Starts(st, s)).rows = st.rows
           /\ Push!Clears(Push!Starts(st, s)).recent = <<>>
<1> DEFINE v == Push!Starts(st, s)
           w == Push!Clears(v)
<1>1. st = [rows |-> st.rows, recent |-> st.recent, torn |-> st.torn, snap |-> st.snap]
  BY DEF PushStore
<1> DEFINE p == Push!Snapshot(s, receipts)
           T == IF st.recent = <<>> THEN {} ELSE st.torn \cup {e \in Event : receipts[e].status = "unwritten"}
<1>2. v = [st EXCEPT !.snap = p, !.torn = T]
  BY DEF Push!Starts
<1> HIDE DEF v, p, T
<1>3. v = [rows |-> st.rows, recent |-> st.recent, torn |-> T, snap |-> p]
  BY <1>1, <1>2
<1>4. w = [v EXCEPT !.recent = <<>>, !.torn = {}]
  BY DEF Push!Clears
<1> HIDE DEF w
<1>5. w = [rows |-> st.rows, recent |-> <<>>, torn |-> {}, snap |-> p]
  BY <1>3, <1>4
<1> QED  BY <1>3, <1>5 DEF v, w

(* What a delivery that throws leaves, and what its save would write of it. *)
LEMMA RecoveryReady ==
    ASSUME PushInv, NEW f, subject.rendering # Push!NoBatch
    PROVE  LET r == Push!Recovering(f)
               placed == Push!Landed(f)
               start == Push!Starts(placed, r)
               clear == Push!Clears(start)
           IN  /\ SubjectOK(r) /\ r.batch # Push!NoBatch /\ r.rendering = subject.rendering
               /\ Held(r, placed)
               /\ FullStore(placed) /\ FullStore(start) /\ FullStore(clear)
               /\ start.rows = placed.rows /\ clear.rows = placed.rows
               /\ placed.recent = stored.recent /\ placed.snap = stored.snap /\ clear.recent = <<>>
               /\ \A e \in Event : start.snap.known[e] = receipts[e].outcome
<1> DEFINE b == subject.rendering
           c == IF subject.batch # Push!NoBatch THEN [subject.batch EXCEPT !.noRender = TRUE]
                ELSE [b EXCEPT !.noRender = TRUE, !.mayBeStored = b.mayBeStored \/ f # "thrown"]
           lines == IF f = "thrown but stored" THEN [stored.rows EXCEPT ![b.latest] = @ + 1] ELSE stored.rows
           placed == [stored EXCEPT !.rows = lines]
           backed == WithBatch(subject, c)
           start == Push!Starts(placed, backed)
           clear == Push!Clears(start)
<1>0. SubjectOK(subject) /\ Spoken(subject.batch) /\ Spoken(b) /\ Scalars /\ Held(subject, stored)
      /\ ReceiptsOK /\ FullStore(stored) /\ stored \in PushStore
  BY ScalarsHold DEF PushInv, PushTyped, SubjectOK, PushStores, FullStore, GoodStore, StoreTyped
<1>1. b # Push!NoBatch
  OBVIOUS
<1>2. Push!Recovering(f) = backed /\ Push!Landed(f) = placed
  <2>1. Push!Recovering(f) = backed
    BY DEF Push!Recovering, WithBatch
  <2>2. Push!Landed(f) = placed
    <3>1. CASE f = "thrown but stored"
      BY <3>1 DEF Push!Landed
    <3>2. CASE f # "thrown but stored"
      <4>1. Push!Landed(f) = stored /\ placed = [stored EXCEPT !.rows = stored.rows]
        BY <3>2 DEF Push!Landed
      <4> QED  BY <1>0, <4>1 DEF PushStore
    <3> QED  BY <3>1, <3>2
  <2> QED  BY <2>1, <2>2
<1>3. b.latest \in Event
  BY <1>0, <1>1, SpokenIs
<1>4. Spoken(c) /\ c # Push!NoBatch
        /\ c.latest = IF subject.batch # Push!NoBatch THEN subject.batch.latest ELSE b.latest
  <2>1. CASE subject.batch # Push!NoBatch
    <3>1. c = [subject.batch EXCEPT !.noRender = TRUE]
      BY <2>1
    <3> HIDE DEF c
    <3>2. c \in Push!Batch /\ c.latest = subject.batch.latest /\ c.notices = subject.batch.notices
      BY <1>0, <3>1 DEF Spoken, SoundBatch, Push!Batch
    <3> QED  BY <1>0, <2>1, <3>2, SpokenAgain
  <2>2. CASE subject.batch = Push!NoBatch
    <3> DEFINE x == b.mayBeStored \/ f # "thrown"
    <3>0. x \in BOOLEAN
      OBVIOUS
    <3>1. c = [b EXCEPT !.noRender = TRUE, !.mayBeStored = x]
      BY <2>2
    <3> HIDE DEF c, x
    <3>2. c \in Push!Batch /\ c.latest = b.latest /\ c.notices = b.notices
      BY <1>0, <3>0, <3>1 DEF Spoken, SoundBatch, Push!Batch
    <3> HIDE DEF b
    <3> QED  BY <1>0, <1>1, <2>2, <3>2, SpokenAgain
  <2> QED  BY <2>1, <2>2
<1> HIDE DEF b, c
<1>5. SubjectOK(backed) /\ backed.batch = c /\ backed.rendering = b
  BY <1>0, <1>4, SubjectBatch DEF b
<1>6. /\ FullStore(placed) /\ placed \in PushStore /\ \A e \in Event : stored.rows[e] > 0 => placed.rows[e] > 0
      /\ placed.recent = stored.recent /\ placed.snap = stored.snap
  <2>1. stored.rows \in [Event -> Nat]
    BY <1>0 DEF PushStore
  <2>2. lines \in [Event -> Nat] /\ \A e \in Event : lines[e] >= stored.rows[e]
          /\ (stored.rows[e] > 0 => lines[e] > 0)
    <3> DEFINE l == b.latest
               up == [stored.rows EXCEPT ![l] = @ + 1]
    <3>1. l \in Event
      BY <1>3
    <3> HIDE DEF l
    <3>2. up \in [Event -> Nat] /\ \A e \in Event : up[e] >= stored.rows[e] /\ (stored.rows[e] > 0
            => up[e] > 0)
      BY <2>1, <3>1
    <3>3. lines = IF f = "thrown but stored" THEN up ELSE stored.rows
      BY DEF l
    <3>4. \A e \in Event : stored.rows[e] >= stored.rows[e]
      BY <2>1
    <3> HIDE DEF up, lines
    <3> QED  BY <2>1, <3>2, <3>3, <3>4
  <2> HIDE DEF lines
  <2>3. FullStore(placed)
    BY <1>0, <2>2, RowsUp
  <2>4. placed.rows = lines /\ placed.recent = stored.recent /\ placed.snap = stored.snap
    BY <1>0 DEF PushStore
  <2> HIDE DEF placed
  <2> QED  BY <2>2, <2>3, <2>4 DEF FullStore, GoodStore, StoreTyped
<1> HIDE DEF placed, backed
<1>7. Held(backed, placed)
  <2>1. ASSUME NEW e \in Event, Newest(e)
        PROVE  /\ receipts[e].status # "none" => Holding(backed, placed, e)
               /\ backed.batch # Push!NoBatch /\ backed.rendering.latest = e => backed.batch.latest = e
    <3>1. /\ receipts[e].status # "none" => Holding(subject, stored, e)
          /\ subject.batch # Push!NoBatch /\ b.latest = e => subject.batch.latest = e
      BY <1>0, <2>1 DEF Held, b
    <3>2. subject.batch.latest = e => subject.batch # Push!NoBatch
      BY NoneIs
    <3>3. Holding(subject, stored, e) => Holding(backed, placed, e)
      BY <1>4, <1>5, <1>6, <3>2 DEF Holding, b
    <3> QED  BY <1>4, <1>5, <3>1, <3>3
  <2> QED  BY <2>1 DEF Held
<1>8. FullStore(start) /\ FullStore(clear)
  BY <1>0, <1>5, <1>6, <1>7, StartsFull DEF Scalars
<1>9. /\ placed.recent = stored.recent /\ placed.snap = stored.snap
      /\ start.rows = placed.rows /\ clear.rows = placed.rows /\ clear.recent = <<>>
  BY <1>6, StartsIs
<1>10. \A e \in Event : start.snap.known[e] = receipts[e].outcome
  <2>1. start.snap = Push!Snapshot(backed, receipts)
    BY <1>6 DEF Push!Starts, PushStore
  <2> HIDE DEF start
  <2> QED  BY <1>0, <1>5, <2>1, SnapshotIs
<1> HIDE DEF start, clear
<1>11. backed.batch # Push!NoBatch /\ backed.rendering = subject.rendering
  BY <1>4, <1>5 DEF b
<1> QED  BY <1>2, <1>5, <1>7, <1>6, <1>8, <1>9, <1>10, <1>11 DEF start, clear

LEMMA RenderThrowsKeeps == ASSUME PushInv, NEW f \in Push!Failures, Push!RenderThrows(f) PROVE PushInv'
<1> DEFINE r == Push!Recovering(f)
           placed == Push!Landed(f)
           start == Push!Starts(placed, r)
           clear == Push!Clears(start)
<1>0. Scalars /\ ReceiptsOK /\ stored \in lasting /\ PushStores /\ \A i \in DOMAIN recent : Spoken(recent[i].batch)
  BY ScalarsHold DEF PushInv, PushTyped, PushStores
<1>1. /\ UNCHANGED <<line, kind, receipts, answered, wake, keeper, armed, suspended, authorized,
           settled, cutOff, missed, overlaid>>
      /\ lock = "free" /\ lock' = "settle" /\ subject.rendering # Push!NoBatch
      /\ dirty' = FALSE /\ recent' = <<>>
      /\ subject' = r /\ Push!Writes(<<placed, start, clear>>)
  BY DEF Push!RenderThrows, Push!DeliveryThrows, Push!host, Push!lapses
<1>2. /\ SubjectOK(r) /\ r.batch # Push!NoBatch /\ r.rendering = subject.rendering
      /\ Held(r, placed) /\ FullStore(placed) /\ FullStore(start) /\ FullStore(clear)
      /\ clear.rows = placed.rows /\ clear.recent = <<>>
  BY <1>1, RecoveryReady
<1> HIDE DEF r, placed, start, clear
<1>3. stored' = clear /\ lasting' = lasting \cup {placed, start, clear}
  BY <1>1, WritesThree
<1>4. Excused' = Excused
  BY <1>1 DEF Excused
<1>5. PushStores' /\ Recents'
  <2>1. stored' \in {placed, start, clear} /\ stored' \in lasting'
          /\ lasting' \subseteq lasting \cup {placed, start, clear}
    BY <1>3
  <2>2. PushStores'
    BY <1>0, <1>1, <1>2, <1>4, <2>1, PushStoresWritten
  <2> QED  BY <1>1, <1>2, <1>3, <2>2 DEF Recents
<1>6. /\ ReceiptsOK' /\ SubjectOK(subject)' /\ Held(subject, stored)'
      /\ (recent \in Seq(ReceiptRecord))' /\ (\A i \in DOMAIN recent : Spoken(recent[i].batch))'
  <2>1. ReceiptsOK' /\ (\A s : SubjectOK(s) => SubjectOK(s)') /\ (\A s, st : Held(s, st) => Held(s, st)')
    BY <1>0, <1>1, <1>4, StillAll
  <2>2. Held(r, clear)
    BY <1>2 DEF Held, Holding
  <2>3. SubjectOK(subject') /\ Held(subject', stored')
    BY <1>1, <1>2, <1>3, <2>2
  <2> QED  BY <1>1, <2>1, <2>3
<1>7. Stages' /\ Awaiting' /\ Answered'
  BY <1>1, <1>2, LocksApart DEF PushInv, Stages, Awaiting, Answered
<1>8. Scalars'
  BY <1>0, <1>1 DEF Scalars
<1> QED  BY <1>5, <1>6, <1>7, <1>8, Assembled

LEMMA RenderUnsavedKeeps == ASSUME PushInv, NEW f \in Push!Failures, Push!RenderUnsaved(f) PROVE PushInv'
<1> DEFINE r == Push!Recovering(f)
           placed == Push!Landed(f)
           start == Push!Starts(placed, r)
           bare == [r EXCEPT !.rendering = Push!NoBatch]
<1>0. Scalars /\ ReceiptsOK /\ stored \in lasting /\ PushStores /\ Recents /\ recent \in Seq(ReceiptRecord)
      /\ \A i \in DOMAIN recent : Spoken(recent[i].batch)
  BY ScalarsHold DEF PushInv, PushTyped, PushStores
<1>1. /\ UNCHANGED <<line, kind, receipts, answered, wake, keeper, suspended, authorized,
           settled, cutOff, missed, overlaid, lock>>
      /\ lock = "free" /\ subject.rendering # Push!NoBatch
      /\ dirty' = TRUE /\ armed' = TRUE /\ subject' = bare
      /\ \/ Push!Writes(<<placed>>) /\ recent' = recent
         \/ Push!Writes(<<placed, start>>) /\ recent' = <<>>
  BY DEF Push!RenderUnsaved, Push!DeliveryThrows, Push!host, Push!lapses
<1>2. /\ SubjectOK(r) /\ r.batch # Push!NoBatch
      /\ Held(r, placed) /\ FullStore(placed) /\ FullStore(start) /\ start.rows = placed.rows
      /\ placed.recent = stored.recent /\ placed.snap = stored.snap
      /\ \A e \in Event : start.snap.known[e] = receipts[e].outcome
  BY <1>1, RecoveryReady
<1> HIDE DEF r, placed, start
<1>3. SubjectOK(bare) /\ bare.batch = r.batch /\ bare.rendering = Push!NoBatch
  BY <1>2, Unrendered
<1> HIDE DEF bare
<1>4. Excused' = Excused
  BY <1>1 DEF Excused
<1>5. stored'.rows = placed.rows /\ PushStores' /\ Recents'
  <2>1. CASE Push!Writes(<<placed>>) /\ recent' = recent
    <3>1. stored' = placed /\ lasting' = lasting \cup {placed}
      BY <2>1, WritesOne
    <3>2. stored' \in {placed, placed, placed} /\ stored' \in lasting'
            /\ lasting' \subseteq lasting \cup {placed, placed, placed}
      BY <3>1
    <3>3. PushStores'
      BY <1>0, <1>1, <1>2, <1>4, <3>2, PushStoresWritten
    <3> QED  BY <1>0, <1>1, <1>2, <2>1, <3>1, <3>3 DEF Recents
  <2>2. CASE Push!Writes(<<placed, start>>) /\ recent' = <<>>
    <3>1. stored' = start /\ lasting' = lasting \cup {placed, start}
      BY <2>2, WritesTwo
    <3>2. stored' \in {placed, start, start} /\ stored' \in lasting'
            /\ lasting' \subseteq lasting \cup {placed, start, start}
      BY <3>1
    <3>3. PushStores'
      BY <1>0, <1>1, <1>2, <1>4, <3>2, PushStoresWritten
    <3>4. \A e \in Event : receipts'[e].status \in {"written", "committed"} => stored'.snap.known[e] # "none"
      BY <1>0, <1>1, <1>2, <3>1 DEF ReceiptsOK
    <3> QED  BY <1>2, <2>2, <3>1, <3>3, <3>4 DEF Recents
  <2> QED  BY <1>1, <2>1, <2>2
<1>6. /\ ReceiptsOK' /\ SubjectOK(subject)' /\ Held(subject, stored)'
      /\ (recent \in Seq(ReceiptRecord))' /\ (\A i \in DOMAIN recent : Spoken(recent[i].batch))'
  <2>1. /\ ReceiptsOK' /\ (\A s : SubjectOK(s) => SubjectOK(s)') /\ (\A s, st : Held(s, st) => Held(s, st)')
        /\ \A x : Spoken(x) => Spoken(x)'
    BY <1>0, <1>1, <1>4, StillAll
  <2>2. Held(bare, stored')
    <3>1. ASSUME NEW e \in Event, Newest(e), receipts[e].status # "none" PROVE Holding(bare, stored', e)
      <4>1. Holding(r, placed, e) /\ (r.rendering.latest = e => r.batch.latest = e)
        BY <1>2, <3>1 DEF Held
      <4> QED  BY <1>3, <1>5, <4>1 DEF Holding
    <3>2. ASSUME NEW e \in Event PROVE bare.rendering.latest # e
      BY <1>3, NoBatchIs, PushGiven DEF Push!PushConstants
    <3> QED  BY <3>1, <3>2 DEF Held
  <2>3. SubjectOK(subject') /\ Held(subject', stored')
    BY <1>1, <1>3, <2>2
  <2>4. CASE recent' = recent
    BY <1>0, <2>1, <2>3, <2>4
  <2>5. CASE recent' = <<>>
    BY <2>1, <2>3, <2>5
  <2> QED  BY <1>1, <2>1, <2>3, <2>4, <2>5
<1>7. Stages' /\ Awaiting' /\ Answered'
  BY <1>1, <1>2, <1>3, LocksApart DEF PushInv, Stages, Awaiting, Answered
<1>8. Scalars'
  BY <1>0, <1>1 DEF Scalars
<1> QED  BY <1>5, <1>6, <1>7, <1>8, Assembled

-----------------------------------------------------------------------------
(* Admitting.                                                               *)
LEMMA RecordsIs ==
    ASSUME NEW st, st \in PushStore, NEW more
    PROVE  Push!Records(st, more).recent = more /\ Push!Records(st, more).rows = st.rows
<1> DEFINE v == Push!Records(st, more)
<1>1. st = [rows |-> st.rows, recent |-> st.recent, torn |-> st.torn, snap |-> st.snap]
  BY DEF PushStore
<1>2. v = [st EXCEPT !.recent = more, !.torn = {}]
  BY DEF Push!Records
<1> HIDE DEF v
<1>3. v = [rows |-> st.rows, recent |-> more, torn |-> {}, snap |-> st.snap]
  BY <1>1, <1>2
<1> QED  BY <1>3 DEF v

LEMMA AcceptAgainKeeps == ASSUME PushInv, NEW e \in Event, Push!AcceptAgain(e) PROVE PushInv'
<1>0. SubjectOK(subject) /\ Scalars /\ Held(subject, stored) /\ PushTyped /\ Recents /\ PushStores
      /\ ReceiptsOK /\ FullStore(stored) /\ stored \in lasting /\ stored \in PushStore
      /\ recent \in Seq(ReceiptRecord) /\ (\A i \in DOMAIN recent : Spoken(recent[i].batch))
  BY ScalarsHold DEF PushInv, PushTyped, SubjectOK, PushStores, FullStore, GoodStore, StoreTyped
<1>1. /\ UNCHANGED <<line, kind, subject, dirty, suspended, authorized, settled, cutOff, missed, overlaid>>
      /\ lock = "free" /\ receipts[e].status # "none"
      /\ IF subject.batch # Push!NoBatch /\ subject.rendering = Push!NoBatch
         THEN Push!WakesForBatch /\ armed' = FALSE
         ELSE UNCHANGED <<wake, keeper, armed>>
      /\ answered' = IF receipts[e].status = "committed" THEN answered \cup {e} ELSE answered
  BY DEF Push!AcceptAgain, Push!host, Push!lapses, Push!wakes, Push!ended
<1>2. Excused' = Excused
  BY <1>1 DEF Excused
<1>3. Awaiting' /\ wake' \in BOOLEAN /\ keeper' \in BOOLEAN /\ armed' \in BOOLEAN
      /\ (subject'.rendering # Push!NoBatch => ~armed')
  <2>1. CASE subject.batch # Push!NoBatch /\ subject.rendering = Push!NoBatch
    <3>1. Push!WakesForBatch /\ armed' = FALSE
      BY <1>1, <2>1
    <3>2. wake' \in BOOLEAN /\ keeper' \in BOOLEAN /\ (wake' \/ keeper')
      BY <1>0, <3>1, WakesIs DEF Scalars
    <3> QED  BY <1>1, <2>1, <3>1, <3>2 DEF Awaiting
  <2>2. CASE ~(subject.batch # Push!NoBatch /\ subject.rendering = Push!NoBatch)
    <3>1. UNCHANGED <<wake, keeper, armed>>
      BY <1>1, <2>2
    <3> QED  BY <1>0, <1>1, <3>1, LocksApart DEF Scalars, PushInv, Stages, Awaiting
  <2> QED  BY <2>1, <2>2
<1>4. CASE /\ UNCHANGED <<recent, Push!disk, receipts>>
           /\ lock' = lock \/ (lock' = e /\ receipts[e].status = "written")
  <2>1. UNCHANGED <<recent, stored, lasting, receipts>>
    BY <1>4 DEF Push!disk
  <2>2. /\ PushStores' /\ Recents' /\ ReceiptsOK' /\ SubjectOK(subject)'
        /\ (recent \in Seq(ReceiptRecord))' /\ (\A i \in DOMAIN recent : Spoken(recent[i].batch))'
    BY <1>0, <1>1, <1>2, <2>1, Quiet
  <2>3. Held(subject, stored)'
    <3>1. \A s, st : Held(s, st) => Held(s, st)'
      BY <1>0, <1>1, <1>2, <2>1, StillAll
    <3> QED  BY <1>0, <1>1, <2>1, <3>1
  <2>4. Stages'
    BY <1>1, <1>3, <1>4, <2>1, LocksApart DEF Stages
  <2>5. Answered'
    BY <1>1, <2>1 DEF PushInv, Answered
  <2>6. Scalars'
    BY <1>0, <1>1, <1>3, <1>4 DEF Scalars
  <2> QED  BY <1>3, <2>2, <2>3, <2>4, <2>5, <2>6, Assembled
<1>5. CASE /\ receipts[e].status = "unwritten"
           /\ LET more == Append(recent, Push!Record(e, subject, receipts[e]))
              IN  recent' = more /\ Push!Writes(<<Push!Records(stored, more)>>)
           /\ receipts' = [receipts EXCEPT ![e].status = "written"]
           /\ lock' = e
  <2> DEFINE r == Push!Record(e, subject, receipts[e])
             more == Append(recent, r)
             v == Push!Records(stored, more)
  <2>1. stored' = v /\ lasting' = lasting \cup {v} /\ recent' = more
    BY <1>5, WritesOne
  <2>2. FullStore(v) /\ Push!Known(v, e) /\ v.recent = more /\ v.rows = stored.rows
    <3>1. FullStore(v) /\ Push!Known(v, e)
      BY <1>0, <1>1, RecordsFull
    <3> HIDE DEF more
    <3>2. v.recent = more /\ v.rows = stored.rows
      BY <1>0, RecordsIs
    <3> QED  BY <3>1, <3>2
  <2>3. more \in Seq(ReceiptRecord) /\ \A i \in DOMAIN more : Spoken(more[i].batch)
    <3>1. v \in PushStore /\ StoreTyped(v)
      BY <2>2 DEF FullStore, GoodStore, StoreTyped
    <3> HIDE DEF v, more
    <3> QED  BY <2>2, <3>1 DEF PushStore, StoreTyped
  <2> HIDE DEF v, more
  <2>4. /\ \A d \in Event : receipts'[d].outcome = receipts[d].outcome
        /\ receipts'[e].status = "written" /\ receipts'[e].status # "committed"
        /\ \A d \in Event : d # e => receipts'[d] = receipts[d]
        /\ ReceiptsOK'
    <3>1. receipts' \in [Event -> [outcome : Push!Outcome, status : Statuses,
            born : Push!History \cup {"kept"}]]
      BY <1>0, <1>5 DEF ReceiptsOK, Statuses
    <3>2. \A d \in Event : receipts'[d] = IF d = e THEN [receipts[d] EXCEPT !.status = "written"] ELSE receipts[d]
      BY <1>0, <1>5 DEF ReceiptsOK
    <3>3. receipts[e] \in [outcome : Push!Outcome, status : Statuses, born : Push!History \cup {"kept"}]
      BY <1>0 DEF ReceiptsOK
    <3>4. receipts'[e].outcome = receipts[e].outcome /\ receipts'[e].status = "written"
      BY <3>2, <3>3
    <3>5. \A d \in Event : receipts'[d].outcome = receipts[d].outcome /\ (d # e
            => receipts'[d] = receipts[d])
      BY <3>2, <3>4
    <3>6. \A d \in Event : receipts'[d].status = "none" <=> receipts'[d].outcome = "none"
      BY <1>0, <1>1, <3>4, <3>5 DEF ReceiptsOK
    <3> QED  BY <3>1, <3>4, <3>5, <3>6 DEF ReceiptsOK
  <2>5. /\ \A b : Spoken(b) => Spoken(b)'
        /\ \A s : SubjectOK(s) => SubjectOK(s)'
        /\ \A st : GoodStore(st) /\ (\A d \in Event : receipts'[d].status = "committed"
             => Push!Known(st, d))
             => GoodStore(st)'
        /\ \A s, st : Held(s, st) => Held(s, st)'
    BY <1>0, <1>1, <1>2, <2>4, Still
  <2>6. \A st : GoodStore(st) => GoodStore(st)'
    <3> SUFFICES ASSUME NEW st, GoodStore(st) PROVE GoodStore(st)'
      OBVIOUS
    <3>1. \A d \in Event : receipts'[d].status = "committed" => Push!Known(st, d)
      BY <2>4 DEF GoodStore, Faithful
    <3> QED  BY <2>5, <3>1
  <2>7. PushStores'
    <3>1. \A d \in Event : receipts'[d].status \in {"written", "committed"} => Push!Known(v, d)
      BY <2>2, <2>4 DEF FullStore
    <3>2. \A st \in lasting' : GoodStore(st)
      BY <1>0, <2>1, <2>2 DEF PushStores, FullStore
    <3>3. GoodStore(stored)' /\ \A st \in lasting' : GoodStore(st)'
      <4>1. stored' \in lasting'
        BY <2>1
      <4>2. \A st \in lasting' : GoodStore(st)'
        BY <2>6, <3>2
      <4>3. GoodStore(stored')
        BY <3>2, <4>1
      <4> QED  BY <2>6, <4>2, <4>3
    <3>4. \A d \in Event : receipts'[d].status \in {"written", "committed"} => Push!Known(stored', d)
      BY <2>1, <3>1
    <3> QED  BY <2>1, <3>3, <3>4 DEF PushStores, FullStore, Push!Known
  <2>8. Recents'
    BY <2>1, <2>2 DEF Recents
  <2>9. SubjectOK(subject)' /\ (recent \in Seq(ReceiptRecord))'
          /\ (\A i \in DOMAIN recent : Spoken(recent[i].batch))'
    BY <1>0, <1>1, <2>1, <2>3, <2>5
  <2>10. Held(subject, stored)'
    <3>1. Held(subject, v)
      BY <1>0, <2>2 DEF Held, Holding
    <3>2. Held(subject', stored')
      BY <1>1, <2>1, <3>1
    <3> QED  BY <2>5, <3>2
  <2>11. Stages'
    BY <1>1, <1>3, <1>5, <2>4, LocksApart DEF Stages
  <2>12. Answered'
    BY <1>1, <1>5, <2>4 DEF PushInv, Answered
  <2>13. Scalars'
    BY <1>0, <1>1, <1>3, <1>5 DEF Scalars
  <2> QED  BY <1>3, <2>4, <2>7, <2>8, <2>9, <2>10, <2>11, <2>12, <2>13, Assembled
<1> QED  BY <1>4, <1>5 DEF Push!AcceptAgain

(* The subject an occurrence finds: what is read is out of its run.         *)
Readied(s) ==
    /\ SubjectOK(s) /\ s.batch = subject.batch /\ s.rendering = subject.rendering
    /\ \A i \in DOMAIN s.run : stored.rows[s.run[i]] > 0

LEMMA RunIs ==
    ASSUME NEW run \in Seq(Event), NEW S, \A i \in DOMAIN run : run[i] \in Tries
    PROVE  /\ Push!Within(run, S) \in Seq(Event)
           /\ \A i \in DOMAIN Push!Within(run, S) : Push!Within(run, S)[i] \in Tries \cap S
<1> DEFINE w == Push!Within(run, S)
<1>1. /\ w \in Seq(Event \cap S)
      /\ \A a : Among(w, Len(w), a) <=> Among(run, Len(run), a) /\ a \in S
  BY WithinIs
<1> HIDE DEF w
<1>2. w \in Seq(Event)
  BY <1>1
<1>3. ASSUME NEW i \in DOMAIN w PROVE w[i] \in Tries \cap S
  <2>1. Among(w, Len(w), w[i])
    BY <1>1, <1>3 DEF Among
  <2>2. Among(run, Len(run), w[i]) /\ w[i] \in S
    BY <1>1, <2>1
  <2>3. PICK j \in 1..Len(run) : run[j] = w[i]
    BY <2>2 DEF Among
  <2> QED  BY <2>2, <2>3
<1> QED  BY <1>2, <1>3 DEF w

LEMMA RefreshedIs == ASSUME SubjectOK(subject) PROVE Readied(Push!Refreshed)
<1> DEFINE S == {e \in Event : Push!Unread(e)}
           w == Push!Within(subject.run, S)
<1>1. w \in Seq(Event) /\ \A i \in DOMAIN w : w[i] \in Tries \cap S
  BY SubjectIs, RunIs
<1>2. \A a \in S : stored.rows[a] > 0
  BY DEF Push!Unread
<1> HIDE DEF S
<1>3. CASE w = subject.run
  <2>1. Push!Refreshed = subject
    BY <1>3 DEF Push!Refreshed, S
  <2> HIDE DEF w
  <2> QED  BY <1>1, <1>2, <1>3, <2>1 DEF Readied
<1>4. CASE w # subject.run
  <2> DEFINE t == Push!Refreshed
  <2>1. t = [subject EXCEPT !.history = "some", !.run = w]
    BY <1>4 DEF Push!Refreshed, S
  <2>2. subject = [history |-> subject.history, run |-> subject.run, rendered |-> subject.rendered,
                   batch |-> subject.batch, rendering |-> subject.rendering, by |-> subject.by]
    BY SubjectIs DEF SubjectOf
  <2> HIDE DEF t, w
  <2>3. t = SubjectOf("some", w, subject.rendered, subject.batch, subject.rendering, subject.by)
    BY <2>1, <2>2 DEF SubjectOf
  <2>4. SubjectOK(SubjectOf("some", w, subject.rendered, subject.batch, subject.rendering, subject.by))
    <3>1. subject.rendered \in BOOLEAN /\ subject.by \in {"turn", "keeper"} /\ Spoken(subject.batch)
            /\ Spoken(subject.rendering)
      BY SubjectIs
    <3>2. "some" \in Push!History
      BY DEF Push!History
    <3> QED  BY <1>1, <3>1, <3>2, SubjectMade
  <2>5. t.batch = subject.batch /\ t.rendering = subject.rendering /\ t.run = w
    BY <2>3 DEF SubjectOf
  <2>6. Readied(t)
    BY <1>1, <1>2, <2>3, <2>4, <2>5 DEF Readied
  <2> QED  BY <2>6 DEF t
<1> QED  BY <1>3, <1>4

LEMMA TrackedIs == ASSUME NEW s, Readied(s), NEW initial \in BOOLEAN PROVE Readied(Push!Tracked(s, initial))
<1> DEFINE h == IF initial THEN "none" ELSE "unknown"
<1>1. CASE s.history # "untracked"
  BY <1>1 DEF Push!Tracked
<1>2. CASE s.history = "untracked"
  <2> DEFINE t == Push!Tracked(s, initial)
  <2>1. t = [s EXCEPT !.history = h]
    BY <1>2 DEF Push!Tracked
  <2>2. s = [history |-> s.history, run |-> s.run, rendered |-> s.rendered, batch |-> s.batch,
             rendering |-> s.rendering, by |-> s.by]
    BY SubjectIs DEF SubjectOf, Readied
  <2> HIDE DEF t
  <2>3. h \in Push!History
    BY DEF Push!History
  <2> HIDE DEF h
  <2>4. t = SubjectOf(h, s.run, s.rendered, s.batch, s.rendering, s.by)
    BY <2>1, <2>2 DEF SubjectOf
  <2>5. SubjectOK(SubjectOf(h, s.run, s.rendered, s.batch, s.rendering, s.by))
    <3>1. s.run \in Seq(Event) /\ s.rendered \in BOOLEAN /\ s.by \in {"turn", "keeper"}
            /\ Spoken(s.batch) /\ Spoken(s.rendering)
          /\ \A i \in DOMAIN s.run : s.run[i] \in Tries
      BY SubjectIs DEF Readied
    <3> QED  BY <2>3, <3>1, SubjectMade
  <2>6. t.batch = s.batch /\ t.rendering = s.rendering /\ t.run = s.run
    BY <2>4 DEF SubjectOf
  <2>7. Readied(t)
    BY <2>4, <2>5, <2>6 DEF Readied
  <2> QED  BY <2>7 DEF t
<1> QED  BY <1>1, <1>2

(* What is removed was there.                                               *)
LEMMA RemovedIs ==
    ASSUME stored.rows \in [Event -> Nat], NEW run \in Seq(Event),
        \A i \in DOMAIN run : stored.rows[run[i]] > 0, NEW n
    PROVE  Push!Removed(run, n) \in [Event -> Nat]
<1>1. ASSUME NEW e \in Event
      PROVE  (IF \E i \in 1..Len(run) : i > Len(run) - n
          /\ run[i] = e THEN stored.rows[e] - 1 ELSE stored.rows[e]) \in Nat
  <2>1. CASE \E i \in 1..Len(run) : i > Len(run) - n /\ run[i] = e
    <3>1. PICK i \in 1..Len(run) : run[i] = e
      BY <2>1
    <3>2. stored.rows[e] > 0 /\ stored.rows[e] \in Nat
      BY <3>1
    <3> QED  BY <2>1, <3>2
  <2>2. CASE ~ \E i \in 1..Len(run) : i > Len(run) - n /\ run[i] = e
    BY <2>2
  <2> QED  BY <2>1, <2>2
<1> QED  BY <1>1 DEF Push!Removed

(* A store that is typed and tells the truth, whatever its rows.            *)
Sound(st) == StoreTyped(st) /\ Faithful(st)
SameRecords(st, w) == w.recent = st.recent /\ w.snap = st.snap /\ w.torn = st.torn

LEMMA SoundRows ==
    ASSUME NEW st, Sound(st), NEW f \in [Event -> Nat]
    PROVE  LET w == [st EXCEPT !.rows = f] IN Sound(w) /\ SameRecords(st, w) /\ w.rows = f
<1> DEFINE w == [st EXCEPT !.rows = f]
<1>1. st \in PushStore
  BY DEF Sound, StoreTyped
<1>2. w \in PushStore /\ w.rows = f /\ w.recent = st.recent /\ w.torn = st.torn /\ w.snap = st.snap
  BY <1>1 DEF PushStore
<1> HIDE DEF w
<1>3. \A e \in Event : Push!Known(w, e) <=> Push!Known(st, e)
  BY <1>2 DEF Push!Known
<1>4. Sound(w)
  BY <1>2, <1>3 DEF Sound, StoreTyped, Faithful
<1> QED  BY <1>2, <1>4 DEF w, SameRecords

LEMMA SoundBump ==
    ASSUME NEW st, Sound(st), NEW e \in Event
    PROVE  LET w == [st EXCEPT !.rows[e] = @ + 1] IN Sound(w) /\ SameRecords(st, w) /\ w.rows[e] > 0
<1> DEFINE f == [st.rows EXCEPT ![e] = @ + 1]
           w == [st EXCEPT !.rows = f]
<1>1. st.rows \in [Event -> Nat]
  BY DEF Sound, StoreTyped, PushStore
<1>2. f \in [Event -> Nat] /\ f[e] > 0
  BY <1>1
<1>3. w = [st EXCEPT !.rows[e] = @ + 1]
  OBVIOUS
<1>4. Sound(w) /\ SameRecords(st, w) /\ w.rows = f
  <2> HIDE DEF f
  <2> QED  BY <1>2, SoundRows
<1> HIDE DEF w, f
<1> QED  BY <1>2, <1>3, <1>4

(* A subject built of events tried once the step is over.                   *)
LEMMA MadeNext ==
    ASSUME Tries \subseteq Tries', NEW h \in Push!History, NEW run \in Seq(Event),
        \A i \in DOMAIN run : run[i] \in Tries',
           NEW rendered \in BOOLEAN, NEW b, Spoken(b)', NEW r, Spoken(r)', NEW y \in {"turn", "keeper"}
    PROVE  SubjectOK(SubjectOf(h, run, rendered, b, r, y))'
<1>1. b \in Push!Batch /\ r \in Push!Batch
  BY DEF Spoken, SoundBatch
<1> QED  BY <1>1 DEF SubjectOK, SubjectType, SubjectOf

LEMMA SpokenNext == ASSUME Tries \subseteq Tries', NEW b, Spoken(b) PROVE Spoken(b)'
BY DEF Spoken

(* What a kind of occurrence makes of the subject.                          *)
Resolves(x, e, k) ==
    /\ SubjectOK(x.s)' /\ x.outcome \in Push!Outcome \ {"none"}
    /\ k = "deferred" => /\ x.s.batch # Push!NoBatch /\ x.s.batch.latest = e
         /\ x.s.rendering = subject.rendering
                         /\ ~x.places /\ x.wake = "asked"
    /\ k # "deferred" => x.s.batch = Push!NoBatch /\ x.s.rendering = Push!NoBatch
         /\ x.wake \in {"withdrawn", "kept"}
    /\ k = "plain" => x.places
    /\ k = "retract" /\ ~x.places => x.outcome # "noted"

LEMMA RetractResolves ==
    ASSUME Tries \subseteq Tries', NEW e, NEW s, Readied(s), NEW n, NEW blank \in BOOLEAN
    PROVE  Resolves(Push!RetractEffect(s, n, blank), e, "retract")
<1> DEFINE h == IF n < Len(s.run) THEN "unknown" ELSE s.history
           left == [Push!DropBatches(s) EXCEPT !.run = <<>>,
               !.history = IF n < Len(s.run) THEN "unknown" ELSE @]
           d == Push!DropBatches(s)
           o == CASE h = "none" -> "retracted" [] h # "none" /\ blank -> "consumed" [] OTHER -> "noted"
           p == h # "none" /\ ~blank
           x == Push!RetractEffect(s, n, blank)
<1>1. /\ s.history \in Push!History /\ s.run \in Seq(Event) /\ s.rendered \in BOOLEAN
           /\ s.by \in {"turn", "keeper"}
      /\ s = [history |-> s.history, run |-> s.run, rendered |-> s.rendered, batch |-> s.batch,
              rendering |-> s.rendering, by |-> s.by]
  BY SubjectIs DEF SubjectOf, Readied
<1>2. left = SubjectOf(h, <<>>, s.rendered, Push!NoBatch, Push!NoBatch, s.by)
  <2>1. d = [s EXCEPT !.batch = Push!NoBatch, !.rendering = Push!NoBatch]
    BY DEF Push!DropBatches
  <2> HIDE DEF d
  <2>2. d = [history |-> s.history, run |-> s.run, rendered |-> s.rendered, batch |-> Push!NoBatch,
             rendering |-> Push!NoBatch, by |-> s.by]
    BY <1>1, <2>1
  <2> DEFINE g == IF n < Len(s.run) THEN "unknown" ELSE d.history
             l == [d EXCEPT !.run = <<>>, !.history = g]
  <2>3. l = [d EXCEPT !.run = <<>>, !.history = g] /\ g = h
    BY <2>2
  <2>4. left = l
    BY DEF d
  <2> HIDE DEF l, g, h
  <2>5. l = SubjectOf(h, <<>>, s.rendered, Push!NoBatch, Push!NoBatch, s.by)
    BY <2>2, <2>3 DEF SubjectOf
  <2> QED  BY <2>4, <2>5
<1>3. h \in Push!History
  BY <1>1 DEF Push!History
<1>4. SubjectOK(left)' /\ left.history = h /\ left.batch = Push!NoBatch /\ left.rendering = Push!NoBatch
  <2> HIDE DEF h, left
  <2>1. Spoken(Push!NoBatch)'
    BY NoBatchIs, SpokenNext
  <2>2. SubjectOK(SubjectOf(h, <<>>, s.rendered, Push!NoBatch, Push!NoBatch, s.by))'
    <3>1. <<>> \in Seq(Event) /\ \A i \in DOMAIN <<>> : <<>>[i] \in Tries'
      OBVIOUS
    <3> QED  BY <1>1, <1>3, <2>1, <3>1, MadeNext
  <2>3. left.history = h /\ left.batch = Push!NoBatch /\ left.rendering = Push!NoBatch
    BY <1>2 DEF SubjectOf
  <2> QED  BY <1>2, <2>2, <2>3
<1>5. x.s = left /\ x.places = (left.history # "none" /\ ~blank) /\ x.wake = "withdrawn"
      /\ x.outcome = CASE left.history = "none" -> "retracted"
                       [] left.history # "none" /\ blank -> "consumed" [] OTHER -> "noted"
  BY DEF Push!RetractEffect
<1> HIDE DEF left, x
<1>6. x.outcome \in Push!Outcome \ {"none"} /\ (~x.places => x.outcome # "noted")
  BY <1>5 DEF Push!Outcome
<1>7. Resolves(x, e, "retract")
  BY <1>4, <1>5, <1>6 DEF Resolves
<1> QED  BY <1>7 DEF x

LEMMA PlainResolves ==
    ASSUME Tries \subseteq Tries', NEW e, NEW s, Readied(s), NEW n
    PROVE  Resolves(Push!PlainEffect(s, n), e, "plain")
<1> DEFINE replaces == s.run # <<>> /\ n = Len(s.run)
           h == IF n < Len(s.run) THEN "unknown" ELSE s.history
           run == IF replaces THEN s.run ELSE <<>>
           d == Push!DropBatches(s)
           left == [Push!DropBatches(s) EXCEPT !.run = IF replaces THEN @ ELSE <<>>,
               !.history = IF n < Len(s.run) THEN "unknown" ELSE @]
           x == Push!PlainEffect(s, n)
<1>1. /\ s.history \in Push!History /\ s.run \in Seq(Event) /\ s.rendered \in BOOLEAN
           /\ s.by \in {"turn", "keeper"}
      /\ \A i \in DOMAIN s.run : s.run[i] \in Tries
      /\ s = [history |-> s.history, run |-> s.run, rendered |-> s.rendered, batch |-> s.batch,
              rendering |-> s.rendering, by |-> s.by]
  BY SubjectIs DEF SubjectOf, Readied
<1>2. left = SubjectOf(h, run, s.rendered, Push!NoBatch, Push!NoBatch, s.by)
  <2>1. d = [s EXCEPT !.batch = Push!NoBatch, !.rendering = Push!NoBatch]
    BY DEF Push!DropBatches
  <2> HIDE DEF d
  <2>2. d = [history |-> s.history, run |-> s.run, rendered |-> s.rendered, batch |-> Push!NoBatch,
             rendering |-> Push!NoBatch, by |-> s.by]
    BY <1>1, <2>1
  <2> DEFINE g == IF n < Len(s.run) THEN "unknown" ELSE d.history
             q == IF replaces THEN d.run ELSE <<>>
             l == [d EXCEPT !.run = q, !.history = g]
  <2>3. l = [d EXCEPT !.run = q, !.history = g] /\ g = h /\ q = run
    BY <2>2
  <2>4. left = l
    BY DEF d
  <2> HIDE DEF l, g, q, h, run
  <2>5. l = SubjectOf(h, run, s.rendered, Push!NoBatch, Push!NoBatch, s.by)
    BY <2>2, <2>3 DEF SubjectOf
  <2> QED  BY <2>4, <2>5
<1>3. h \in Push!History
  BY <1>1 DEF Push!History
<1>4. run \in Seq(Event) /\ \A i \in DOMAIN run : run[i] \in Tries'
  BY <1>1
<1>5. SubjectOK(left)' /\ left.batch = Push!NoBatch /\ left.rendering = Push!NoBatch
  <2> HIDE DEF h, left, run
  <2>1. Spoken(Push!NoBatch)'
    BY NoBatchIs, SpokenNext
  <2>2. SubjectOK(SubjectOf(h, run, s.rendered, Push!NoBatch, Push!NoBatch, s.by))'
    BY <1>1, <1>3, <1>4, <2>1, MadeNext
  <2>3. left.batch = Push!NoBatch /\ left.rendering = Push!NoBatch
    BY <1>2 DEF SubjectOf
  <2> QED  BY <1>2, <2>2, <2>3
<1> DEFINE wk == IF replaces \/ Push!HadBatch(s) THEN "withdrawn" ELSE "kept"
           o == CASE replaces \/ Push!HadBatch(s) -> "replaced"
                  [] ~replaces /\ ~Push!HadBatch(s) /\ left.history = "none" -> "first"
                  [] OTHER -> "appended"
<1>6. x = [s |-> left, places |-> TRUE, wake |-> wk, outcome |-> o]
  BY DEF Push!PlainEffect
<1>7. o \in Push!Outcome \ {"none"} /\ wk \in {"withdrawn", "kept"}
  <2> HIDE DEF left, replaces
  <2> QED  BY DEF Push!Outcome
<1> HIDE DEF left, x, wk, o
<1>8. Resolves(x, e, "plain")
  BY <1>5, <1>6, <1>7 DEF Resolves
<1> QED  BY <1>8 DEF x

LEMMA DeferredResolves ==
    ASSUME Tries \subseteq Tries', NEW e \in Event, e \in Tries', NEW s, Readied(s), NEW n
    PROVE  Resolves(Push!DeferredEffect(e, s, n), e, "deferred")
<1> DEFINE displaces == s.run # <<>> /\ ~s.rendered
           h == IF displaces /\ n = 0 THEN "unknown" ELSE s.history
           run == IF displaces THEN <<>> ELSE s.run
           left == IF ~displaces THEN s
                   ELSE [s EXCEPT !.run = <<>>, !.history = IF n = 0 THEN "unknown" ELSE s.history]
           bound == IF s.run # <<>> THEN s.rendered \/ n = 1 ELSE s.batch.bound
           c == [latest |-> e, notices |-> s.batch.notices \cup {e}, noRender |-> s.batch.noRender,
                 mayBeStored |-> FALSE, bound |-> bound]
           x == Push!DeferredEffect(e, s, n)
           out == [left EXCEPT !.batch = c]
<1>1. /\ s.history \in Push!History /\ s.run \in Seq(Event) /\ s.rendered \in BOOLEAN
           /\ s.by \in {"turn", "keeper"}
      /\ \A i \in DOMAIN s.run : s.run[i] \in Tries
      /\ s = [history |-> s.history, run |-> s.run, rendered |-> s.rendered, batch |-> s.batch,
              rendering |-> s.rendering, by |-> s.by]
  BY SubjectIs DEF SubjectOf, Readied
<1>2. Spoken(s.batch) /\ Spoken(s.rendering) /\ s.rendering = subject.rendering
  BY SubjectIs DEF Readied
<1>3. Spoken(c)' /\ c # Push!NoBatch /\ c.latest = e
  <2>1. bound \in BOOLEAN
    BY <1>1, <1>2, SpokenIs
  <2>2. s.batch.notices \subseteq Event /\ s.batch.noRender \in BOOLEAN
    BY <1>2, SpokenIs
  <2> HIDE DEF bound
  <2>3. c \in Push!Batch /\ c.latest = e /\ e \in c.notices
    BY <2>1, <2>2 DEF Push!Batch
  <2> HIDE DEF c
  <2>4. c # Push!NoBatch
    BY <2>3, NoneIs
  <2> QED  BY <2>3, <2>4 DEF Spoken, SoundBatch
<1> HIDE DEF c, bound
<1>4. left = [history |-> h, run |-> run, rendered |-> s.rendered, batch |-> s.batch,
              rendering |-> s.rendering, by |-> s.by]
  <2>1. CASE ~displaces
    BY <1>1, <2>1
  <2>2. CASE displaces
    <3> DEFINE l == [s EXCEPT !.run = <<>>, !.history = h]
    <3>1. left = l
      BY <2>2
    <3>2. l = [s EXCEPT !.run = <<>>, !.history = h] /\ run = <<>>
      BY <2>2
    <3> HIDE DEF left, l, h, run
    <3>3. l = [history |-> h, run |-> <<>>, rendered |-> s.rendered, batch |-> s.batch,
               rendering |-> s.rendering, by |-> s.by]
      BY <1>1, <3>2
    <3> QED  BY <3>1, <3>2, <3>3
  <2> QED  BY <2>1, <2>2
<1>5. h \in Push!History
  BY <1>1 DEF Push!History
<1>6. run \in Seq(Event) /\ \A i \in DOMAIN run : run[i] \in Tries'
  BY <1>1
<1>7. x.s = out /\ x.places = FALSE /\ x.wake = "asked" /\ x.outcome \in {"replaced", "first"}
  BY DEF Push!DeferredEffect, c, bound
<1> HIDE DEF x, left, h, run
<1>8. out = SubjectOf(h, run, s.rendered, c, s.rendering, s.by)
  BY <1>4 DEF SubjectOf
<1> HIDE DEF out
<1>9. SubjectOK(out)' /\ out.batch = c /\ out.rendering = s.rendering
  <2>1. Spoken(s.rendering)'
    BY <1>2, SpokenNext
  <2>2. SubjectOK(SubjectOf(h, run, s.rendered, c, s.rendering, s.by))'
    BY <1>1, <1>3, <1>5, <1>6, <2>1, MadeNext
  <2>3. out.batch = c /\ out.rendering = s.rendering
    BY <1>8 DEF SubjectOf
  <2> QED  BY <1>8, <2>2, <2>3
<1>10. x.outcome \in Push!Outcome \ {"none"}
  BY <1>7 DEF Push!Outcome
<1>11. Resolves(x, e, "deferred")
  BY <1>2, <1>3, <1>7, <1>9, <1>10 DEF Resolves
<1> QED  BY <1>11 DEF x

(* The versions a store goes through.                                       *)
LEMMA GoneThen ==
    ASSUME NEW S, NEW n \in Nat, NEW g \in [1..n -> S], NEW a \in S, Push!Writes(g \o <<a>>)
    PROVE  /\ stored' = a /\ stored' \in lasting'
           /\ \A st \in lasting' : st \in lasting \/ st \in S
<1> DEFINE t == g \o <<a>>
<1>1. g \in Seq(S) /\ Len(g) = n
  OBVIOUS
<1>2. t \in Seq(S) /\ Len(t) = n + 1 /\ t[n + 1] = a
  BY <1>1
<1>3. stored' = t[Len(t)] /\ lasting' = lasting \cup {t[i] : i \in DOMAIN t}
  BY DEF Push!Writes, Push!Last, Push!ToSet
<1> HIDE DEF t
<1>4. DOMAIN t = 1..(n + 1) /\ \A i \in DOMAIN t : t[i] \in S
  BY <1>2
<1>5. n + 1 \in DOMAIN t
  BY <1>4
<1> QED  BY <1>2, <1>3, <1>4, <1>5

LEMMA GoneThenTwo ==
    ASSUME NEW S, NEW n \in Nat, NEW g \in [1..n -> S], NEW a \in S, NEW b, Push!Writes(g \o <<a, b>>)
    PROVE  /\ stored' = b /\ stored' \in lasting'
           /\ \A st \in lasting' : st \in lasting \/ st \in S \/ st = b
<1> DEFINE t == g \o <<a, b>>
           X == S \cup {b}
<1>1. g \in Seq(X) /\ Len(g) = n /\ <<a, b>> \in Seq(X) /\ Len(<<a, b>>) = 2
  OBVIOUS
<1>2. t \in Seq(X) /\ Len(t) = n + 2 /\ t[n + 2] = b
  BY <1>1
<1>3. stored' = t[Len(t)] /\ lasting' = lasting \cup {t[i] : i \in DOMAIN t}
  BY DEF Push!Writes, Push!Last, Push!ToSet
<1> HIDE DEF t
<1>4. DOMAIN t = 1..(n + 2) /\ \A i \in DOMAIN t : t[i] \in X
  BY <1>2
<1>5. n + 2 \in DOMAIN t
  BY <1>4
<1> QED  BY <1>2, <1>3, <1>4, <1>5

(* An event is tried: it is the newest, and no store has it.                *)
TriedNow(e) ==
    /\ line' \in Seq(Event) /\ Tries \subseteq Tries' /\ e \in Tries'
    /\ \A d : Newest(d)' <=> d = e

LEMMA TriedIs == ASSUME line \in Seq(Event), NEW e \in Event, Push!Tried(e) PROVE TriedNow(e)
<1> DEFINE w == Push!Within(line, Event \ {e})
<1>1. /\ w \in Seq(Event \cap (Event \ {e}))
      /\ \A a : Among(w, Len(w), a) <=> Among(line, Len(line), a) /\ a \in Event \ {e}
  BY WithinIs
<1>2. line' = Append(w, e)
  BY DEF Push!Tried
<1> HIDE DEF w
<1>3. w \in Seq(Event)
  BY <1>1
<1>4. /\ line' \in Seq(Event) /\ line' # <<>> /\ Len(line') \in DOMAIN line' /\ line'[Len(line')] = e
      /\ \A i \in DOMAIN w : i \in DOMAIN line' /\ line'[i] = w[i]
  BY <1>2, <1>3, AppendIs
<1>5. e \in Tries'
  BY <1>4 DEF Tries
<1>6. ASSUME NEW a \in Tries PROVE a \in Tries'
  <2>1. CASE a = e
    BY <1>5, <2>1
  <2>2. CASE a # e
    <3>1. Among(line, Len(line), a) /\ a \in Event \ {e}
      BY <2>2 DEF Tries, Among
    <3>2. Among(w, Len(w), a)
      BY <1>1, <3>1
    <3>3. PICK i \in 1..Len(w) : w[i] = a
      BY <3>2 DEF Among
    <3>4. i \in DOMAIN w
      BY <1>3
    <3>5. i \in DOMAIN line' /\ line'[i] = a
      BY <1>4, <3>3, <3>4
    <3> QED  BY <3>5 DEF Tries
  <2> QED  BY <2>1, <2>2
<1>7. \A d : Newest(d)' <=> d = e
  BY <1>4 DEF Newest
<1> QED  BY <1>4, <1>5, <1>6, <1>7 DEF TriedNow

(* The receipts of the others stay; its own is not yet durable.             *)
Answering(e) ==
    /\ ReceiptsOK' /\ receipts[e].status = "none" /\ receipts'[e].status # "committed"
    /\ \A d \in Event \ {e} : receipts'[d] = receipts[d]

LEMMA SoundNext ==
    ASSUME ReceiptsOK, NEW e \in Event, TriedNow(e), Answering(e), NEW st, Sound(st)
    PROVE  /\ GoodStore(st)' /\ ~Push!Known(st, e)
           /\ StoreTyped(st)'
           /\ \A d \in Event : st.snap.known[d] # "none" => st.snap.known[d] = receipts'[d].outcome
           /\ \A i \in DOMAIN st.recent : st.recent[i].outcome = receipts'[st.recent[i].event].outcome
<1>1. /\ \A d \in Event : st.snap.known[d] # "none" => st.snap.known[d] = receipts[d].outcome
      /\ \A i \in DOMAIN st.recent : st.recent[i].outcome = receipts[st.recent[i].event].outcome
      /\ \A d \in Event : receipts[d].status = "committed" => Push!Known(st, d)
      /\ StoreTyped(st) /\ Tries \subseteq Tries'
  BY DEF Sound, Faithful, TriedNow
<1>2. ~Push!Known(st, e)
  BY <1>1, KnownIs DEF Answering
<1>3. \A i \in DOMAIN st.recent : st.recent[i].event \in Event \ {e}
  <2> SUFFICES ASSUME NEW i \in DOMAIN st.recent PROVE st.recent[i].event \in Event \ {e}
    OBVIOUS
  <2>1. st.recent[i] \in ReceiptRecord
    BY <1>1 DEF StoreTyped, PushStore
  <2>2. st.recent[i].event # e
    BY <1>2 DEF Push!Known
  <2> QED  BY <2>1, <2>2 DEF ReceiptRecord
<1>4. st.snap.known[e] = "none"
  BY <1>2 DEF Push!Known
<1>5. \A d \in Event : st.snap.known[d] # "none" => st.snap.known[d] = receipts'[d].outcome
  BY <1>1, <1>4 DEF Answering
<1>6. \A i \in DOMAIN st.recent : st.recent[i].outcome = receipts'[st.recent[i].event].outcome
  BY <1>1, <1>3 DEF Answering
<1>7. StoreTyped(st)'
  <2>1. \A b : Spoken(b) => Spoken(b)'
    BY <1>1, SpokenNext
  <2> QED  BY <1>1, <2>1 DEF StoreTyped
<1>8. \A d \in Event : receipts'[d].status = "committed" => Push!Known(st, d)
  BY <1>1 DEF Answering
<1>9. Faithful(st)'
  BY <1>5, <1>6, <1>8 DEF Faithful, Push!Known
<1>10. \A d \in Event : ~(Newest(d) /\ Push!Known(st, d))'
  BY <1>2 DEF TriedNow, Push!Known
<1> QED  BY <1>2, <1>5, <1>6, <1>7, <1>9, <1>10 DEF GoodStore

(* A store with a record of the event, and what the record says is kept.    *)
LEMMA RecordedGood ==
    ASSUME PushInv, NEW e \in Event, TriedNow(e), Answering(e), NEW w, Sound(w), SameRecords(stored, w),
           NEW r \in ReceiptRecord, r.event = e, r.outcome = receipts'[e].outcome, Spoken(r.batch)',
           Taken(e)' \/ w.rows[e] > 0 \/ r.batch.latest = e,
           NEW more, more = Append(recent, r), NEW v, v = Push!Records(w, more)
    PROVE  /\ FullStore(v)' /\ v.recent = more /\ v.rows = w.rows
           /\ more \in Seq(ReceiptRecord) /\ (\A i \in DOMAIN more : Spoken(more[i].batch)')
<1>0. /\ ReceiptsOK /\ recent \in Seq(ReceiptRecord) /\ (\A i \in DOMAIN recent : Spoken(recent[i].batch))
      /\ FullStore(stored) /\ Recents /\ Sound(stored) /\ w \in PushStore /\ Tries \subseteq Tries'
  BY DEF PushInv, PushTyped, PushStores, FullStore, GoodStore, Sound, StoreTyped, TriedNow
<1>1. /\ more \in Seq(ReceiptRecord) /\ more # <<>> /\ Len(more) \in DOMAIN more /\ more[Len(more)] = r
      /\ \A i \in DOMAIN recent : i \in DOMAIN more /\ more[i] = recent[i]
      /\ \A i \in DOMAIN more : (i \in DOMAIN recent /\ more[i] = recent[i]) \/ more[i] = r
  BY <1>0, AppendIs
<1>2. v \in PushStore /\ v.rows = w.rows /\ v.recent = more /\ v.torn = {} /\ v.snap = w.snap
  <2>1. v = [w EXCEPT !.recent = more, !.torn = {}]
    BY DEF Push!Records
  <2>2. w = [rows |-> w.rows, recent |-> w.recent, torn |-> w.torn, snap |-> w.snap]
    BY <1>0 DEF PushStore
  <2>3. v = [rows |-> w.rows, recent |-> more, torn |-> {}, snap |-> w.snap]
    BY <2>1, <2>2
  <2>4. w.rows \in [Event -> Nat] /\ w.snap \in [history : Push!History,
          known : [Event -> Push!Outcome], batch : Push!Batch]
    BY <1>0 DEF PushStore
  <2> QED  BY <1>1, <2>3, <2>4 DEF PushStore
<1>3. /\ StoreTyped(w)'
      /\ \A d \in Event : w.snap.known[d] # "none" => w.snap.known[d] = receipts'[d].outcome
      /\ \A i \in DOMAIN stored.recent : stored.recent[i].outcome = receipts'[stored.recent[i].event].outcome
      /\ ~Push!Known(stored, e)
  BY <1>0, SoundNext
<1>4. \A b : Spoken(b) => Spoken(b)'
  BY <1>0, SpokenNext
<1>5. \A i \in DOMAIN more : Spoken(more[i].batch)'
  BY <1>0, <1>1, <1>4
<1>6. StoreTyped(v)'
  BY <1>2, <1>3, <1>5 DEF StoreTyped
<1>7. Push!Known(v, e)
  BY <1>1, <1>2 DEF Push!Known
<1>8. \A d \in Event : receipts'[d].status \in {"written", "committed"} => Push!Known(v, d)
  <2> SUFFICES ASSUME NEW d \in Event, receipts'[d].status \in {"written", "committed"},
        d # e PROVE Push!Known(v, d)
    BY <1>7
  <2>1. receipts[d].status \in {"written", "committed"}
    BY DEF Answering
  <2>2. stored.snap.known[d] # "none" \/ \E i \in DOMAIN more : more[i].event = d
    BY <1>0, <1>1, <2>1, OnTheHosts
  <2> QED  BY <1>2, <2>2 DEF Push!Known, SameRecords
<1>9. Faithful(v)'
  <2>1. \A i \in DOMAIN recent : recent[i].outcome = receipts'[recent[i].event].outcome
    BY <1>0, <1>3, RecentTrue
  <2>2. \A i \in DOMAIN more : more[i].outcome = receipts'[more[i].event].outcome
    BY <1>1, <2>1
  <2>3. \A d \in Event : v.snap.known[d] # "none" => v.snap.known[d] = receipts'[d].outcome
    BY <1>2, <1>3
  <2>4. \A d \in Event : receipts'[d].status = "committed" => Push!Known(v, d)
    BY <1>8
  <2>5. \A i \in DOMAIN v.recent : v.recent[i].outcome = receipts'[v.recent[i].event].outcome
    BY <1>2, <2>2
  <2> QED  BY <2>3, <2>4, <2>5 DEF Faithful, Push!Known
<1>10. KeptBy(v, e)'
  <2>1. StoreBatch(v) = r.batch
    BY <1>1, <1>2 DEF StoreBatch
  <2> QED  BY <1>2, <2>1 DEF KeptBy, StoreBatch
<1>11. \A d \in Event : (Newest(d) /\ Push!Known(v, d))' => KeptBy(v, d)'
  BY <1>10 DEF TriedNow
<1>12. FullStore(v)'
  BY <1>6, <1>8, <1>9, <1>11 DEF FullStore, GoodStore, Push!Known
<1> QED  BY <1>1, <1>2, <1>5, <1>12

(* Once the occurrence is placed.                                           *)
Placing(s, e) == [s EXCEPT !.run = <<e>>, !.rendered = FALSE]

LEMMA PlacingIs ==
    ASSUME NEW s, SubjectOK(s)', NEW e \in Event, e \in Tries'
    PROVE  SubjectOK(Placing(s, e))' /\ Placing(s, e).batch = s.batch
        /\ Placing(s, e).rendering = s.rendering
<1> DEFINE t == Placing(s, e)
<1>1. /\ s.history \in Push!History /\ s.by \in {"turn", "keeper"} /\ Spoken(s.batch)'
           /\ Spoken(s.rendering)'
      /\ s.batch \in Push!Batch /\ s.rendering \in Push!Batch
      /\ s = [history |-> s.history, run |-> s.run, rendered |-> s.rendered, batch |-> s.batch,
              rendering |-> s.rendering, by |-> s.by]
  BY DEF SubjectOK, SubjectType
<1>2. t = [s EXCEPT !.run = <<e>>, !.rendered = FALSE]
  BY DEF Placing
<1> HIDE DEF t
<1>3. t = [history |-> s.history, run |-> <<e>>, rendered |-> FALSE, batch |-> s.batch,
           rendering |-> s.rendering, by |-> s.by]
  BY <1>1, <1>2
<1>4. <<e>> \in Seq(Event) /\ \A i \in DOMAIN <<e>> : <<e>>[i] \in Tries'
  OBVIOUS
<1>5. SubjectOK(t)'
  BY <1>1, <1>3, <1>4 DEF SubjectOK, SubjectType
<1> QED  BY <1>3, <1>5 DEF t

(* What an admission does, by the values it computes.                       *)
Thrown(f) == f \in {"thrown", "thrown but stored"}

Taking(e, k, f, s, run, n, x, entry, gone, cleared, placed, after, more, recorded) ==
    /\ k \in {"plain", "deferred", "retract"}
    /\ \E i \in BOOLEAN : s = Push!Tracked(Push!Refreshed, i)
    /\ run = Push!Leaving(s, k)
    /\ n = (IF f = "refused" THEN Len(run) - 1 ELSE Len(run)) /\ (f = "refused" => run # <<>>)
    /\ \E blank \in BOOLEAN : x = Push!Effect(e, s, n, blank)
    /\ entry = [outcome |-> x.outcome, status |-> IF f = "unwritten" THEN "unwritten" ELSE "written",
                born |-> IF subject.history = "untracked" THEN s.history ELSE "kept"]
    /\ gone = [i \in 1..n |-> [stored EXCEPT !.rows = Push!Removed(run, i)]]
    /\ cleared = [stored EXCEPT !.rows = Push!Removed(run, n)]
    /\ placed = IF x.places /\ f # "thrown" THEN [cleared EXCEPT !.rows[e] = @ + 1] ELSE cleared
    /\ after = IF x.places THEN Placing(x.s, e) ELSE x.s
    /\ more = Append(recent, Push!Record(e, after, entry))
    /\ recorded = Push!Records(placed, more)
    /\ kind' = [kind EXCEPT ![e] = k]
    /\ Thrown(f) => x.places
    /\ Push!Tried(e) /\ Push!Wakes(x.wake)
    /\ Thrown(f) =>
         /\ subject' = x.s /\ Push!Writes(gone \o <<placed>>)
         /\ UNCHANGED <<receipts, recent, dirty, lock>>
    /\ ~Thrown(f) =>
         /\ subject' = after /\ receipts' = [receipts EXCEPT ![e] = entry] /\ dirty' = TRUE
         /\ f = "unwritten" => Push!Writes(gone \o <<placed>>) /\ UNCHANGED <<recent, lock>>
         /\ f # "unwritten" => Push!Writes(gone \o <<placed, recorded>>) /\ recent' = more /\ lock' = e

Takes(e, k, initial, blank, f) ==
        LET s == Push!Tracked(Push!Refreshed, initial /\ k # "retract")
            run == Push!Leaving(s, k)
            n == IF f = "refused" THEN Len(run) - 1 ELSE Len(run)
            x == Push!Effect(e, s, n, blank)
            entry == [outcome |-> x.outcome,
                      status |-> IF f = "unwritten" THEN "unwritten" ELSE "written",
                      born |-> IF subject.history = "untracked" THEN s.history ELSE "kept"]
            gone == [i \in 1..n |-> [stored EXCEPT !.rows = Push!Removed(run, i)]]
            cleared == [stored EXCEPT !.rows = Push!Removed(run, n)]
            stores == x.places /\ f # "thrown"
            placed == IF stores THEN [cleared EXCEPT !.rows[e] = @ + 1] ELSE cleared
            after == IF x.places THEN [x.s EXCEPT !.run = <<e>>, !.rendered = FALSE] ELSE x.s
            more == Append(recent, Push!Record(e, after, entry))
            recorded == Push!Records(placed, more)
        IN  /\ Push!Fails(f)
            /\ kind[e] \in {"unsent", k} /\ kind' = [kind EXCEPT ![e] = k]
            /\ Push!Sent(kind') + failures' <= MaxEvents
            /\ initial => line = <<>>
            /\ f = "refused" => run # <<>>
            /\ f # "thrown in doubt"     \* as "thrown but stored" or "thrown" here
            /\ f \in {"thrown", "thrown but stored"} => x.places
            /\ Push!Tried(e)
            /\ Push!Wakes(x.wake)
            /\ IF f \in {"thrown", "thrown but stored"}
               THEN /\ subject' = x.s
                    /\ Push!Writes(gone \o <<placed>>)
                    /\ doubted' = IF f = "thrown" THEN doubted ELSE doubted \cup {e}
                    /\ UNCHANGED <<receipts, recent, dirty, lock>>
               ELSE /\ subject' = after
                    /\ receipts' = [receipts EXCEPT ![e] = entry]
                    /\ dirty' = TRUE
                    /\ IF f = "unwritten"
                       THEN Push!Writes(gone \o <<placed>>) /\ UNCHANGED <<recent, lock>>
                       ELSE /\ Push!Writes(gone \o <<placed, recorded>>)
                            /\ recent' = more /\ lock' = e
                    /\ UNCHANGED doubted
            /\ told' = IF k = "deferred" THEN told ELSE told \cup {d \in Event : kind[d] = "deferred"}
            /\ UNCHANGED <<Push!host, answered, settled, Push!lapses>>

LEMMA Takings ==
    ASSUME NEW e \in Event, Push!Accept(e)
    PROVE  /\ lock = "free" /\ ~suspended /\ authorized /\ receipts[e].status = "none"
           /\ UNCHANGED <<suspended, authorized, answered, settled, cutOff, missed, overlaid>>
           /\ \E k, f, s, run, n, x, entry, gone, cleared, placed, after, more, recorded :
                Taking(e, k, f, s, run, n, x, entry, gone, cleared, placed, after, more, recorded)
<1>1. PICK k \in {"plain", "deferred", "retract"}, initial \in BOOLEAN, blank \in BOOLEAN,
        f \in Push!Failures :
        Takes(e, k, initial, blank, f)
  BY DEF Push!Accept, Takes
<1> DEFINE j == initial /\ k # "retract"
           s == Push!Tracked(Push!Refreshed, j)
           run == Push!Leaving(s, k)
           n == IF f = "refused" THEN Len(run) - 1 ELSE Len(run)
           x == Push!Effect(e, s, n, blank)
           entry == [outcome |-> x.outcome,
                     status |-> IF f = "unwritten" THEN "unwritten" ELSE "written",
                     born |-> IF subject.history = "untracked" THEN s.history ELSE "kept"]
           gone == [i \in 1..n |-> [stored EXCEPT !.rows = Push!Removed(run, i)]]
           cleared == [stored EXCEPT !.rows = Push!Removed(run, n)]
           placed == IF x.places /\ f # "thrown" THEN [cleared EXCEPT !.rows[e] = @ + 1] ELSE cleared
           after == IF x.places THEN [x.s EXCEPT !.run = <<e>>, !.rendered = FALSE] ELSE x.s
           more == Append(recent, Push!Record(e, after, entry))
           recorded == Push!Records(placed, more)
<1>2. /\ kind' = [kind EXCEPT ![e] = k]
      /\ f = "refused" => run # <<>>
      /\ Thrown(f) => x.places
      /\ Push!Tried(e)
      /\ Push!Wakes(x.wake)
      /\ Thrown(f) =>
           /\ subject' = x.s /\ Push!Writes(gone \o <<placed>>)
           /\ UNCHANGED <<receipts, recent, dirty, lock>>
      /\ ~Thrown(f) =>
           /\ subject' = after /\ receipts' = [receipts EXCEPT ![e] = entry] /\ dirty' = TRUE
           /\ f = "unwritten" => Push!Writes(gone \o <<placed>>) /\ UNCHANGED <<recent, lock>>
           /\ f # "unwritten" => Push!Writes(gone \o <<placed, recorded>>) /\ recent' = more /\ lock' = e
      /\ UNCHANGED <<Push!host, answered, settled, Push!lapses>>
  BY <1>1 DEF Takes, Thrown
<1>3. j \in BOOLEAN
  OBVIOUS
<1>4. after = IF x.places THEN Placing(x.s, e) ELSE x.s
  BY DEF Placing
<1>5. Taking(e, k, f, s, run, n, x, entry, gone, cleared, placed, after, more, recorded)
  <2>1. /\ \E i \in BOOLEAN : s = Push!Tracked(Push!Refreshed, i)
        /\ \E bl \in BOOLEAN : x = Push!Effect(e, s, n, bl)
    <3> HIDE DEF j, n
    <3> QED  BY <1>3
  <2>2. /\ run = Push!Leaving(s, k)
        /\ n = (IF f = "refused" THEN Len(run) - 1 ELSE Len(run))
        /\ entry = [outcome |-> x.outcome, status |-> IF f = "unwritten" THEN "unwritten" ELSE "written",
                    born |-> IF subject.history = "untracked" THEN s.history ELSE "kept"]
        /\ gone = [i \in 1..n |-> [stored EXCEPT !.rows = Push!Removed(run, i)]]
        /\ cleared = [stored EXCEPT !.rows = Push!Removed(run, n)]
        /\ placed = IF x.places /\ f # "thrown" THEN [cleared EXCEPT !.rows[e] = @ + 1] ELSE cleared
        /\ more = Append(recent, Push!Record(e, after, entry))
        /\ recorded = Push!Records(placed, more)
    OBVIOUS
  <2> HIDE DEF j, s, run, n, x, entry, gone, cleared, placed, after, more, recorded
  <2> QED  BY <1>2, <1>4, <2>1, <2>2 DEF Taking
<1>6. UNCHANGED <<suspended, authorized, answered, settled, cutOff, missed, overlaid>>
  BY <1>2 DEF Push!host, Push!lapses
<1>7. lock = "free" /\ ~suspended /\ authorized /\ receipts[e].status = "none"
  BY DEF Push!Accept
<1> HIDE DEF j, s, run, n, x, entry, gone, cleared, placed, after, more, recorded
<1>8. \E kk, ff, ss, rr, nn, xx, en, go, cl, pl, af, mo, re : Taking(e, kk, ff, ss, rr, nn, xx, en, go,
        cl, pl, af, mo, re)
  BY <1>5
<1> QED  BY <1>6, <1>7, <1>8

(* The stores once an occurrence is tried that no store has a record of.    *)
LEMMA Unrecorded ==
    ASSUME PushInv, NEW e \in Event, TriedNow(e), Answering(e), receipts'[e].status \notin {"written",
        "committed"},
           \A st \in lasting' : st \in lasting \/ Sound(st), stored' \in lasting', SameRecords(stored,
               stored'), UNCHANGED recent
    PROVE  /\ PushStores' /\ Recents'
           /\ (recent \in Seq(ReceiptRecord))' /\ (\A i \in DOMAIN recent : Spoken(recent[i].batch))'
<1>0. /\ ReceiptsOK /\ FullStore(stored) /\ Tries \subseteq Tries'
      /\ recent \in Seq(ReceiptRecord) /\ (\A i \in DOMAIN recent : Spoken(recent[i].batch))
  BY DEF PushInv, PushTyped, PushStores, TriedNow
<1>1. \A st : Sound(st) => GoodStore(st)'
  BY <1>0, SoundNext
<1>2. \A st \in lasting' : Sound(st)
  BY DEF PushInv, PushStores, GoodStore, Sound
<1>3. \A d \in Event : receipts'[d].status \in {"written", "committed"} => Push!Known(stored', d)
  <2> SUFFICES ASSUME NEW d \in Event, receipts'[d].status \in {"written",
        "committed"} PROVE Push!Known(stored', d)
    OBVIOUS
  <2>1. receipts[d].status \in {"written", "committed"}
    BY DEF Answering
  <2>2. Push!Known(stored, d)
    BY <1>0, <2>1 DEF FullStore
  <2> QED  BY <2>2 DEF Push!Known, SameRecords
<1>4. PushStores'
  <2>1. \A st \in lasting' : GoodStore(st)'
    BY <1>1, <1>2
  <2>2. Sound(stored')
    BY <1>2
  <2>3. GoodStore(stored)'
    BY <1>1, <2>2
  <2> QED  BY <1>3, <2>1, <2>3 DEF PushStores, FullStore, Push!Known
<1>5. Recents'
  <2>1. stored'.recent = stored.recent /\ stored'.snap = stored.snap
    BY DEF SameRecords
  <2>2. \A d \in Event : receipts'[d].status \in {"written", "committed"}
          => receipts[d].status \in {"written", "committed"}
    BY DEF Answering
  <2> QED  BY <2>1, <2>2 DEF PushInv, Recents
<1>6. \A b : Spoken(b) => Spoken(b)'
  BY <1>0, SpokenNext
<1> QED  BY <1>0, <1>4, <1>5, <1>6

(* How the wake of an admitted occurrence is asked for, or withdrawn.       *)
LEMMA WakesHow ==
    ASSUME Scalars, NEW how, Push!Wakes(how), how \in {"asked", "withdrawn", "kept"}
    PROVE  /\ wake' \in BOOLEAN /\ keeper' \in BOOLEAN /\ armed' \in BOOLEAN
           /\ how = "asked" => (wake' \/ keeper') /\ armed' = armed
<1>1. CASE how = "asked"
  <2>1. Push!WakesForBatch /\ UNCHANGED armed
    BY <1>1 DEF Push!Wakes
  <2> QED  BY <2>1, WakesIs DEF Scalars
<1>2. CASE how = "withdrawn"
  <2>1. wake' = FALSE /\ armed' = FALSE /\ UNCHANGED keeper
    BY <1>2 DEF Push!Wakes
  <2> QED  BY <1>2, <2>1 DEF Scalars
<1>3. CASE how = "kept"
  <2>1. armed' = FALSE /\ UNCHANGED <<wake, keeper>>
    BY <1>3 DEF Push!Wakes
  <2> QED  BY <1>3, <2>1 DEF Scalars
<1> QED  BY <1>1, <1>2, <1>3

LEMMA AcceptKeeps == ASSUME PushInv, NEW e \in Event, Push!Accept(e) PROVE PushInv'
<1>0. SubjectOK(subject) /\ Scalars /\ ReceiptsOK /\ FullStore(stored) /\ stored \in PushStore
        /\ Sound(stored)
      /\ recent \in Seq(ReceiptRecord) /\ stored.rows \in [Event -> Nat]
  BY ScalarsHold DEF PushInv, PushTyped, PushStores, FullStore, GoodStore, StoreTyped, Sound, PushStore
<1>1. /\ lock = "free" /\ ~suspended /\ authorized /\ receipts[e].status = "none"
      /\ UNCHANGED <<suspended, authorized, answered, settled, cutOff, missed, overlaid>>
  BY Takings
<1>2. \E k, f, s, run, n, x, entry, gone, cleared, placed, after, more, recorded :
        Taking(e, k, f, s, run, n, x, entry, gone, cleared, placed, after, more, recorded)
  BY Takings
<1>3. PICK k, f, s, run, n, x, entry, gone, cleared, placed, after, more, recorded :
        Taking(e, k, f, s, run, n, x, entry, gone, cleared, placed, after, more, recorded)
  BY <1>2
<1>4. TriedNow(e) /\ Tries \subseteq Tries' /\ e \in Tries'
  BY <1>0, <1>3, TriedIs DEF Taking, Scalars, TriedNow
<1>5. k \in {"plain", "deferred", "retract"} /\ kind' = [kind EXCEPT ![e] = k] /\ kind'[e] = k
        /\ kind' \in [Event -> KindsOf]
  BY <1>0, <1>3 DEF Taking, Scalars, KindsOf
<1>6. Readied(s)
  <2>1. PICK i \in BOOLEAN : s = Push!Tracked(Push!Refreshed, i)
    BY <1>3 DEF Taking
  <2> QED  BY <1>0, <2>1, RefreshedIs, TrackedIs
<1>7. Resolves(x, e, k)
  <2>1. PICK blank \in BOOLEAN : x = Push!Effect(e, s, n, blank)
    BY <1>3 DEF Taking
  <2>2. CASE k = "retract"
    BY <1>4, <1>5, <1>6, <2>1, <2>2, RetractResolves DEF Push!Effect
  <2>3. CASE k = "plain"
    BY <1>4, <1>5, <1>6, <2>1, <2>3, PlainResolves DEF Push!Effect
  <2>4. CASE k = "deferred"
    BY <1>4, <1>5, <1>6, <2>1, <2>4, DeferredResolves DEF Push!Effect
  <2> QED  BY <1>5, <2>2, <2>3, <2>4
<1>8. SubjectOK(after)' /\ after.batch = x.s.batch /\ after.rendering = x.s.rendering
  <2>1. after = IF x.places THEN Placing(x.s, e) ELSE x.s
    BY <1>3 DEF Taking
  <2>2. SubjectOK(x.s)'
    BY <1>7 DEF Resolves
  <2>3. CASE x.places
    BY <1>4, <2>1, <2>2, <2>3, PlacingIs
  <2>4. CASE ~x.places
    BY <2>1, <2>2, <2>4
  <2> QED  BY <2>3, <2>4
<1>9. run \in Seq(Event) /\ n \in Nat /\ \A i \in DOMAIN run : stored.rows[run[i]] > 0
  <2>1. s.run \in Seq(Event) /\ \A i \in DOMAIN s.run : stored.rows[s.run[i]] > 0
    BY <1>6, SubjectIs DEF Readied
  <2>2. run = Push!Leaving(s, k) /\ n = (IF f = "refused" THEN Len(run) - 1 ELSE Len(run))
          /\ (f = "refused" => run # <<>>)
    BY <1>3 DEF Taking
  <2>3. run \in Seq(Event) /\ \A i \in DOMAIN run : stored.rows[run[i]] > 0
    BY <2>1, <2>2 DEF Push!Leaving
  <2>4. run # <<>> => Len(run) - 1 \in Nat
    BY <2>3
  <2> QED  BY <2>2, <2>3, <2>4
<1> DEFINE S == {st \in PushStore : Sound(st)}
<1>10. gone \in [1..n -> S]
  <2>1. gone = [i \in 1..n |-> [stored EXCEPT !.rows = Push!Removed(run, i)]]
    BY <1>3 DEF Taking
  <2>2. ASSUME NEW i \in 1..n PROVE [stored EXCEPT !.rows = Push!Removed(run, i)] \in S
    <3>1. Push!Removed(run, i) \in [Event -> Nat]
      BY <1>0, <1>9, RemovedIs
    <3>2. Sound([stored EXCEPT !.rows = Push!Removed(run, i)])
      BY <1>0, <3>1, SoundRows
    <3> QED  BY <3>2 DEF Sound, StoreTyped
  <2> HIDE DEF S
  <2> QED  BY <2>1, <2>2
<1>11. placed \in S /\ SameRecords(stored, placed) /\ (x.places /\ f # "thrown" => placed.rows[e] > 0)
  <2>1. Push!Removed(run, n) \in [Event -> Nat]
    BY <1>0, <1>9, RemovedIs
  <2>2. cleared = [stored EXCEPT !.rows = Push!Removed(run, n)]
    BY <1>3 DEF Taking
  <2>3. Sound(cleared) /\ SameRecords(stored, cleared)
    BY <1>0, <2>1, <2>2, SoundRows
  <2>4. placed = IF x.places /\ f # "thrown" THEN [cleared EXCEPT !.rows[e] = @ + 1] ELSE cleared
    BY <1>3 DEF Taking
  <2>5. CASE x.places /\ f # "thrown"
    <3>1. placed = [cleared EXCEPT !.rows[e] = @ + 1]
      BY <2>4, <2>5
    <3>2. Sound(placed) /\ SameRecords(cleared, placed) /\ placed.rows[e] > 0
      BY <2>3, <3>1, SoundBump
    <3> QED  BY <2>3, <3>2 DEF SameRecords, Sound, StoreTyped
  <2>6. CASE ~(x.places /\ f # "thrown")
    BY <2>3, <2>4, <2>6 DEF Sound, StoreTyped
  <2> QED  BY <2>5, <2>6
<1>12. Excused' = Excused
  BY <1>1 DEF Excused
<1>13. /\ wake' \in BOOLEAN /\ keeper' \in BOOLEAN /\ armed' \in BOOLEAN
       /\ x.wake = "asked" => (wake' \/ keeper') /\ armed' = armed
  <2>1. Push!Wakes(x.wake) /\ x.wake \in {"asked", "withdrawn", "kept"}
    BY <1>3, <1>5, <1>7 DEF Taking, Resolves
  <2> QED  BY <1>0, <2>1, WakesHow
<1>14. ASSUME NEW t, t.batch = x.s.batch, t.rendering = x.s.rendering, subject' = t, lock' \in {lock, e}
       PROVE  /\ Awaiting'
              /\ lock' \notin {"freeze", "settle"} /\ (subject'.rendering # Push!NoBatch => ~armed')
              /\ subject'.batch # Push!NoBatch /\ subject'.rendering.latest = e => subject'.batch.latest = e
  <2>0. lock' \notin {"freeze", "settle"}
    BY <1>1, <1>14, LocksApart
  <2>1. CASE k = "deferred"
    <3>1. /\ t.batch.latest = e /\ t.rendering = subject.rendering /\ x.wake = "asked"
      BY <1>7, <1>14, <2>1 DEF Resolves
    <3>2. subject.rendering # Push!NoBatch => ~armed
      BY <1>1, LocksApart DEF PushInv, Stages
    <3> QED  BY <1>13, <1>14, <2>0, <3>1, <3>2 DEF Awaiting
  <2>2. CASE k # "deferred"
    <3>1. t.batch = Push!NoBatch /\ t.rendering = Push!NoBatch
      BY <1>7, <1>14, <2>2 DEF Resolves
    <3> QED  BY <1>14, <2>0, <3>1 DEF Awaiting
  <2> QED  BY <2>1, <2>2
<1>15. CASE Thrown(f)
  <2>1. /\ subject' = x.s /\ Push!Writes(gone \o <<placed>>)
             /\ UNCHANGED <<receipts, recent, dirty, lock>> /\ x.places
    BY <1>3, <1>15 DEF Taking
  <2>2. Answering(e) /\ ReceiptsOK' /\ receipts'[e].status = "none"
    BY <1>0, <1>1, <2>1 DEF Answering, ReceiptsOK
  <2>3. /\ stored' = placed /\ stored' \in lasting'
        /\ \A st \in lasting' : st \in lasting \/ st \in S
    <3> HIDE DEF S
    <3> QED  BY <1>9, <1>10, <1>11, <2>1, GoneThen
  <2>4. /\ PushStores' /\ Recents'
        /\ (recent \in Seq(ReceiptRecord))' /\ (\A i \in DOMAIN recent : Spoken(recent[i].batch))'
    <3>1. \A st \in lasting' : st \in lasting \/ Sound(st)
      BY <2>3
    <3> QED  BY <1>4, <1>11, <2>1, <2>2, <2>3, <3>1, Unrecorded
  <2>5. SubjectOK(subject)'
    <3>1. SubjectOK(x.s)'
      BY <1>7 DEF Resolves
    <3> QED  BY <2>1, <3>1 DEF SubjectOK
  <2>6. /\ Awaiting' /\ lock' \notin {"freeze", "settle"} /\ (subject'.rendering # Push!NoBatch => ~armed')
        /\ subject'.batch # Push!NoBatch /\ subject'.rendering.latest = e => subject'.batch.latest = e
    BY <1>14, <2>1
  <2>7. Stages'
    BY <1>1, <2>1, <2>6, LocksApart DEF Stages
  <2>8. Held(subject, stored)'
    BY <1>4, <2>2, <2>6 DEF Held, TriedNow
  <2>9. Scalars' /\ Answered'
    BY <1>0, <1>1, <1>4, <1>5, <1>13, <2>1 DEF Scalars, PushInv, Answered, TriedNow
  <2> QED  BY <2>2, <2>4, <2>5, <2>6, <2>7, <2>8, <2>9, Assembled
<1>16. CASE ~Thrown(f)
  <2>1. /\ subject' = after /\ receipts' = [receipts EXCEPT ![e] = entry] /\ dirty' = TRUE
        /\ f = "unwritten" => Push!Writes(gone \o <<placed>>) /\ UNCHANGED <<recent, lock>>
        /\ f # "unwritten" => Push!Writes(gone \o <<placed, recorded>>) /\ recent' = more /\ lock' = e
    BY <1>3, <1>16 DEF Taking
  <2>2. /\ entry.outcome = x.outcome /\ entry.outcome \in Push!Outcome \ {"none"}
             /\ entry.born \in Push!History \cup {"kept"}
        /\ entry.status = (IF f = "unwritten" THEN "unwritten" ELSE "written")
        /\ entry \in [outcome : Push!Outcome, status : Statuses, born : Push!History \cup {"kept"}]
    <3>1. entry = [outcome |-> x.outcome, status |-> IF f = "unwritten" THEN "unwritten" ELSE "written",
                   born |-> IF subject.history = "untracked" THEN s.history ELSE "kept"]
      BY <1>3 DEF Taking
    <3>2. x.outcome \in Push!Outcome \ {"none"} /\ s.history \in Push!History
      BY <1>6, <1>7, SubjectIs DEF Resolves, Readied
    <3> QED  BY <3>1, <3>2 DEF Statuses
  <2>3. /\ receipts'[e] = entry /\ Answering(e) /\ ReceiptsOK'
    <3>1. receipts' \in [Event -> [outcome : Push!Outcome, status : Statuses,
            born : Push!History \cup {"kept"}]]
      BY <1>0, <2>1, <2>2 DEF ReceiptsOK
    <3>2. receipts'[e] = entry /\ \A d \in Event \ {e} : receipts'[d] = receipts[d]
      BY <1>0, <2>1 DEF ReceiptsOK
    <3>3. \A d \in Event : receipts'[d].status = "none" <=> receipts'[d].outcome = "none"
      BY <1>0, <2>2, <3>2 DEF ReceiptsOK
    <3> QED  BY <1>1, <2>2, <3>1, <3>2, <3>3 DEF Answering, ReceiptsOK
  <2>4. Taken(e)' \/ placed.rows[e] > 0 \/ (x.s.batch # Push!NoBatch /\ x.s.batch.latest = e)
    <3>1. CASE k = "deferred"
      BY <1>7, <3>1 DEF Resolves
    <3>2. CASE x.places
      BY <1>11, <1>16, <3>2 DEF Thrown
    <3>3. CASE k # "deferred" /\ ~x.places
      <4>1. k = "retract" /\ x.outcome # "noted"
        BY <1>5, <1>7, <3>3 DEF Resolves
      <4> QED  BY <1>5, <2>2, <2>3, <4>1 DEF Taken
    <3> QED  BY <3>1, <3>2, <3>3
  <2>5. SubjectOK(subject)'
    BY <1>8, <2>1 DEF SubjectOK
  <2>6. /\ Awaiting' /\ lock' \notin {"freeze", "settle"} /\ (subject'.rendering # Push!NoBatch => ~armed')
        /\ subject'.batch # Push!NoBatch /\ subject'.rendering.latest = e => subject'.batch.latest = e
    <3>1. lock' \in {lock, e}
      BY <2>1
    <3> QED  BY <1>8, <1>14, <2>1, <3>1
  <2>7. Answered'
    BY <1>1, <2>3 DEF PushInv, Answered, Answering
  <2>8. ASSUME stored'.rows = placed.rows PROVE Held(subject, stored)'
    <3>1. Holding(subject, stored, e)'
      BY <1>8, <2>1, <2>4, <2>8 DEF Holding
    <3> QED  BY <1>4, <2>6, <3>1 DEF Held, TriedNow
  <2>9. CASE f = "unwritten"
    <3>1. Push!Writes(gone \o <<placed>>) /\ UNCHANGED <<recent, lock>>
      BY <2>1, <2>9
    <3>2. /\ stored' = placed /\ stored' \in lasting'
          /\ \A st \in lasting' : st \in lasting \/ st \in S
      <4> HIDE DEF S
      <4> QED  BY <1>9, <1>10, <1>11, <3>1, GoneThen
    <3>3. /\ PushStores' /\ Recents'
          /\ (recent \in Seq(ReceiptRecord))' /\ (\A i \in DOMAIN recent : Spoken(recent[i].batch))'
      <4>1. \A st \in lasting' : st \in lasting \/ Sound(st)
        BY <3>2
      <4>2. receipts'[e].status \notin {"written", "committed"}
        BY <2>2, <2>3, <2>9
      <4> QED  BY <1>4, <1>11, <2>3, <3>1, <3>2, <4>1, <4>2, Unrecorded
    <3>4. Held(subject, stored)'
      BY <2>8, <3>2
    <3>5. Stages'
      BY <1>1, <2>6, <3>1, LocksApart DEF Stages
    <3>6. Scalars'
      BY <1>0, <1>1, <1>4, <1>5, <1>13, <2>1, <3>1 DEF Scalars, TriedNow
    <3> QED  BY <2>3, <2>5, <2>6, <2>7, <3>3, <3>4, <3>5, <3>6, Assembled
  <2>10. CASE f # "unwritten"
    <3>1. Push!Writes(gone \o <<placed, recorded>>) /\ recent' = more /\ lock' = e
      BY <2>1, <2>10
    <3>2. /\ stored' = recorded /\ stored' \in lasting'
          /\ \A st \in lasting' : st \in lasting \/ st \in S \/ st = recorded
      <4> HIDE DEF S
      <4> QED  BY <1>9, <1>10, <1>11, <3>1, GoneThenTwo
    <3>3. PICK r : r = Push!Record(e, after, entry)
      OBVIOUS
    <3>4. /\ r \in ReceiptRecord /\ r.event = e /\ r.outcome = receipts'[e].outcome /\ Spoken(r.batch)'
          /\ r.batch = IF after.batch # Push!NoBatch THEN after.batch ELSE after.rendering
      <4>1. /\ Spoken(after.batch)' /\ Spoken(after.rendering)' /\ after.batch \in Push!Batch
                 /\ after.rendering \in Push!Batch
        BY <1>8 DEF SubjectOK, Spoken, SoundBatch
      <4>2. PICK b : b = IF after.batch # Push!NoBatch THEN after.batch ELSE after.rendering
        OBVIOUS
      <4>3. r = [event |-> e, outcome |-> entry.outcome, born |-> entry.born, batch |-> b]
        BY <3>3, <4>2 DEF Push!Record
      <4>4. b \in Push!Batch /\ Spoken(b)'
        BY <4>1, <4>2
      <4>5. r \in ReceiptRecord /\ r.event = e /\ r.outcome = entry.outcome /\ r.batch = b
        BY <2>2, <4>3, <4>4 DEF ReceiptRecord
      <4> QED  BY <2>3, <4>2, <4>4, <4>5
    <3>5. more = Append(recent, r) /\ recorded = Push!Records(placed, more)
      BY <1>3, <3>3 DEF Taking
    <3>6. Taken(e)' \/ placed.rows[e] > 0 \/ r.batch.latest = e
      BY <1>8, <2>4, <3>4
    <3>7. /\ FullStore(recorded)' /\ recorded.recent = more /\ recorded.rows = placed.rows
          /\ more \in Seq(ReceiptRecord) /\ (\A i \in DOMAIN more : Spoken(more[i].batch)')
      <4>1. Sound(placed) /\ SameRecords(stored, placed)
        BY <1>11
      <4>2. r \in ReceiptRecord /\ r.event = e /\ r.outcome = receipts'[e].outcome /\ Spoken(r.batch)'
        BY <3>4
      <4>3. FullStore(recorded)'
        BY <1>4, <2>3, <3>5, <3>6, <4>1, <4>2, RecordedGood
      <4>4. recorded.recent = more /\ recorded.rows = placed.rows
        BY <1>11, <3>5, RecordsIs
      <4>5. StoreTyped(recorded)' /\ recorded \in PushStore
        BY <4>3 DEF FullStore, GoodStore, StoreTyped
      <4> QED  BY <4>3, <4>4, <4>5 DEF StoreTyped, PushStore
    <3>8. PushStores'
      <4>1. \A st : Sound(st) => GoodStore(st)'
        BY <1>0, <1>4, <2>3, SoundNext
      <4>2. \A st \in lasting' : Sound(st) \/ st = recorded
        BY <3>2 DEF PushInv, PushStores, GoodStore, Sound
      <4>3. \A st \in lasting' : GoodStore(st)'
        BY <3>7, <4>1, <4>2 DEF FullStore
      <4>4. FullStore(stored)'
        BY <3>2, <3>7 DEF FullStore, GoodStore
      <4> QED  BY <3>2, <4>3, <4>4 DEF PushStores
    <3>9. /\ Recents'
          /\ (recent \in Seq(ReceiptRecord))' /\ (\A i \in DOMAIN recent : Spoken(recent[i].batch))'
      BY <3>1, <3>2, <3>7 DEF Recents
    <3>10. Held(subject, stored)'
      BY <2>8, <3>2, <3>7
    <3>11. Stages'
      BY <1>1, <2>2, <2>3, <2>6, <2>10, <3>1, LocksApart DEF Stages
    <3>12. Scalars'
      BY <1>0, <1>1, <1>4, <1>5, <1>13, <2>1, <3>1 DEF Scalars, TriedNow
    <3> QED  BY <2>3, <2>5, <2>6, <2>7, <3>8, <3>9, <3>10, <3>11, <3>12, Assembled
  <2> QED  BY <2>9, <2>10
<1> QED  BY <1>15, <1>16

-----------------------------------------------------------------------------
(* Restarting.                                                              *)
Restorable == {s \in SubjectType : SubjectOK(s) /\ s.rendering = Push!NoBatch}

LEMMA SettleIs ==
    ASSUME NEW s \in Restorable, NEW lines
    PROVE  /\ Push!SettlePublished(s, lines) \in Restorable
           /\ Push!SettlePublished(s, lines).batch = s.batch
                \/ (Push!SettlePublished(s, lines).batch = Push!NoBatch /\ lines[s.batch.latest] > 0)
<1>1. CASE s.batch.noRender /\ lines[s.batch.latest] > 0
  <2> DEFINE t == Push!SettlePublished(s, lines)
  <2>1. t = [s EXCEPT !.batch = Push!NoBatch, !.history = "some"]
    BY <1>1 DEF Push!SettlePublished
  <2>2. /\ s.history \in Push!History /\ s.run \in Seq(Event) /\ s.rendered \in BOOLEAN
             /\ s.by \in {"turn", "keeper"}
        /\ (\A i \in DOMAIN s.run : s.run[i] \in Tries) /\ s.rendering = Push!NoBatch
        /\ s = [history |-> s.history, run |-> s.run, rendered |-> s.rendered, batch |-> s.batch,
                rendering |-> s.rendering, by |-> s.by]
    BY SubjectIs DEF SubjectOf, Restorable
  <2> HIDE DEF t
  <2>3. t = SubjectOf("some", s.run, s.rendered, Push!NoBatch, Push!NoBatch, s.by)
    BY <2>1, <2>2 DEF SubjectOf
  <2>4. SubjectOK(SubjectOf("some", s.run, s.rendered, Push!NoBatch, Push!NoBatch, s.by))
    <3>1. "some" \in Push!History /\ Spoken(Push!NoBatch)
      BY NoBatchIs DEF Push!History
    <3> QED  BY <2>2, <3>1, SubjectMade
  <2>5. t.batch = Push!NoBatch /\ t.rendering = Push!NoBatch
    BY <2>3 DEF SubjectOf
  <2>6. t \in Restorable
    BY <2>3, <2>4, <2>5 DEF Restorable, SubjectOK
  <2> QED  BY <1>1, <2>5, <2>6 DEF t
<1>2. CASE ~(s.batch.noRender /\ lines[s.batch.latest] > 0)
  BY <1>2 DEF Push!SettlePublished
<1> QED  BY <1>1, <1>2

LEMMA RestoreIs ==
    ASSUME NEW s \in Restorable, NEW r \in ReceiptRecord, Spoken(r.batch), NEW lines
    PROVE  Push!RestoreRecord(s, r, lines) \in Restorable /\ Push!RestoreRecord(s, r,
        lines).batch.latest = r.batch.latest
<1> DEFINE t == Push!RestoreRecord(s, r, lines)
           h == IF lines[r.event] > 0 THEN "some"
                ELSE IF s.history = "untracked" THEN IF r.born # "kept" THEN r.born ELSE "unknown"
                ELSE s.history
           c == IF r.batch = Push!NoBatch THEN Push!NoBatch ELSE [r.batch EXCEPT !.noRender = TRUE,
               !.mayBeStored = FALSE]
<1>1. t = [s EXCEPT !.history = h, !.batch = c]
  BY DEF Push!RestoreRecord
<1>2. /\ s.history \in Push!History /\ s.run \in Seq(Event) /\ s.rendered \in BOOLEAN
           /\ s.by \in {"turn", "keeper"}
      /\ (\A i \in DOMAIN s.run : s.run[i] \in Tries) /\ s.rendering = Push!NoBatch
      /\ s = [history |-> s.history, run |-> s.run, rendered |-> s.rendered, batch |-> s.batch,
              rendering |-> s.rendering, by |-> s.by]
  BY SubjectIs DEF SubjectOf, Restorable
<1>3. h \in Push!History
  BY <1>2 DEF ReceiptRecord, Push!History
<1>4. Spoken(c) /\ c.latest = r.batch.latest
  <2>1. CASE r.batch = Push!NoBatch
    BY <2>1, NoBatchIs
  <2>2. CASE r.batch # Push!NoBatch
    <3>1. c = [r.batch EXCEPT !.noRender = TRUE, !.mayBeStored = FALSE]
      BY <2>2
    <3> HIDE DEF c
    <3>2. c \in Push!Batch /\ c.latest = r.batch.latest /\ c.notices = r.batch.notices
      BY <3>1 DEF Spoken, SoundBatch, Push!Batch
    <3> QED  BY <2>2, <3>2, SpokenAgain
  <2> QED  BY <2>1, <2>2
<1> HIDE DEF t, h, c
<1>5. t = SubjectOf(h, s.run, s.rendered, c, Push!NoBatch, s.by)
  BY <1>1, <1>2 DEF SubjectOf
<1>6. SubjectOK(SubjectOf(h, s.run, s.rendered, c, Push!NoBatch, s.by))
  <2>1. Spoken(Push!NoBatch)
    BY NoBatchIs
  <2> QED  BY <1>2, <1>3, <1>4, <2>1, SubjectMade
<1>7. t.batch = c /\ t.rendering = Push!NoBatch
  BY <1>5 DEF SubjectOf
<1>8. t \in Restorable
  BY <1>5, <1>6, <1>7 DEF Restorable, SubjectOK
<1> QED  BY <1>4, <1>7, <1>8 DEF t

IsReplay(f, st, first) ==
    f = [i \in 0..Len(st.recent) |->
          IF i = 0 THEN first ELSE Push!RestoreRecord(f[i - 1], st.recent[i], st.rows)]

LEMMA ReplayFun ==
    ASSUME NEW st, StoreTyped(st), NEW first \in Restorable
    PROVE  LET f == CHOOSE g : IsReplay(g, st, first) IN
           /\ f[Len(st.recent)] \in Restorable
           /\ st.recent = <<>> => f[Len(st.recent)] = first
           /\ st.recent # <<>> => f[Len(st.recent)].batch.latest = StoreBatch(st).latest
<1> DEFINE n == Len(st.recent)
           f == CHOOSE g : IsReplay(g, st, first)
           F == [p \in ((0 + 1)..n) \X Restorable |-> Push!RestoreRecord(p[2], st.recent[p[1]], st.rows)]
<1>0. n \in Nat /\ 0 <= n /\ \A i \in 1..n : st.recent[i] \in ReceiptRecord /\ Spoken(st.recent[i].batch)
  <2>1. st.recent \in Seq(ReceiptRecord) /\ \A i \in DOMAIN st.recent : Spoken(st.recent[i].batch)
    BY DEF StoreTyped, PushStore
  <2> QED  BY <2>1
<1>1. F \in [((0 + 1)..n) \X Restorable -> Restorable]
  <2>1. ASSUME NEW p \in ((0 + 1)..n) \X Restorable PROVE Push!RestoreRecord(p[2], st.recent[p[1]],
          st.rows) \in Restorable
    <3>1. p[1] \in 1..n /\ p[2] \in Restorable
      BY <1>0
    <3> HIDE DEF n
    <3> QED  BY <1>0, <3>1, RestoreIs
  <2> QED  BY <2>1
<1>2. PICK g \in [0..n -> Restorable] : Recurs(0, n, first, F, g)
  <2> HIDE DEF F, n
  <2> QED  BY <1>0, <1>1, Recursion
<1>3. ASSUME NEW i \in 1..n PROVE g[i] = Push!RestoreRecord(g[i - 1], st.recent[i], st.rows)
  <2>1. i \in (0 + 1)..n /\ i - 1 \in 0..n
    BY <1>0
  <2>2. <<i, g[i - 1]>> \in ((0 + 1)..n) \X Restorable
    BY <2>1
  <2>3. g[i] = F[<<i, g[i - 1]>>]
    BY <1>2, <2>1 DEF Recurs
  <2> HIDE DEF n
  <2> QED  BY <2>2, <2>3
<1>4. g[0] = first
  BY <1>2 DEF Recurs
<1>5. IsReplay(g, st, first)
  <2>1. g = [i \in 0..n |-> g[i]]
    OBVIOUS
  <2>2. ASSUME NEW i \in 0..n
        PROVE  g[i] = IF i = 0 THEN first ELSE Push!RestoreRecord(g[i - 1], st.recent[i], st.rows)
    <3> HIDE DEF n
    <3>1. i = 0 \/ i \in 1..n
      BY <1>0
    <3>2. CASE i = 0
      BY <1>4, <3>2
    <3>3. CASE i \in 1..n
      <4>1. i # 0
        BY <3>3
      <4> QED  BY <1>3, <3>3, <4>1
    <3> QED  BY <3>1, <3>2, <3>3
  <2> QED  BY <2>1, <2>2 DEF IsReplay
<1>6. IsReplay(f, st, first)
  <2> HIDE DEF n
  <2> QED  BY <1>5
<1>7. f[0] = first /\ \A i \in 1..n : f[i] = Push!RestoreRecord(f[i - 1], st.recent[i], st.rows)
  <2> HIDE DEF f, n
  <2>1. f = [i \in 0..n |-> IF i = 0 THEN first ELSE Push!RestoreRecord(f[i - 1], st.recent[i], st.rows)]
    BY <1>6 DEF IsReplay, n
  <2>2. 0 \in 0..n /\ \A i \in 1..n : i \in 0..n /\ i # 0
    BY <1>0
  <2> QED  BY <2>1, <2>2
<1>8. 0..n \subseteq {i \in 0..n : f[i] = g[i]}
  <2> HIDE DEF f
  <2> DEFINE T == {i \in 0..n : f[i] = g[i]}
  <2>1. 0 \in T
    BY <1>0, <1>4, <1>7
  <2>2. ASSUME NEW i \in (0 + 1)..n, i - 1 \in T PROVE i \in T
    <3>1. i \in 1..n /\ f[i - 1] = g[i - 1] /\ i \in 0..n
      BY <1>0, <2>2
    <3> QED  BY <1>3, <1>7, <3>1
  <2>3. 0..n \subseteq T
    <3> HIDE DEF T, n
    <3> QED  BY <1>0, <2>1, <2>2, UpFrom
  <2> QED  BY <2>3
<1>9. \A i \in 0..n : f[i] \in Restorable
  <2> HIDE DEF f, n
  <2> QED  BY <1>8
<1>10. st.recent # <<>> => f[n].batch.latest = StoreBatch(st).latest
  <2> SUFFICES ASSUME st.recent # <<>> PROVE f[n].batch.latest = StoreBatch(st).latest
    OBVIOUS
  <2>1. n \in 1..n /\ n - 1 \in 0..n
    <3>1. st.recent \in Seq(ReceiptRecord)
      BY DEF StoreTyped, PushStore
    <3> QED  BY <3>1
  <2> HIDE DEF f
  <2>2. f[n] = Push!RestoreRecord(f[n - 1], st.recent[n], st.rows) /\ f[n - 1] \in Restorable
    BY <1>7, <1>9, <2>1
  <2>3. f[n].batch.latest = st.recent[n].batch.latest
    <3> HIDE DEF n
    <3> QED  BY <1>0, <2>1, <2>2, RestoreIs
  <2> QED  BY <2>3 DEF StoreBatch
<1>11. f[n] \in Restorable
  BY <1>0, <1>9
<1>12. st.recent = <<>> => f[n] = first
  <2>1. st.recent = <<>> => n = 0
    OBVIOUS
  <2> HIDE DEF f, n
  <2> QED  BY <1>7, <2>1
<1> QED  BY <1>10, <1>11, <1>12

LEMMA RestoredIs ==
    ASSUME NEW st, StoreTyped(st)
    PROVE  /\ Push!Restored(st) \in Restorable
           /\ \A e \in Event : StoreBatch(st).latest = e => Push!Restored(st).batch.latest = e
                \/ st.rows[e] > 0
<1> DEFINE snapped == [Push!Untracked EXCEPT !.history = st.snap.history, !.batch = st.snap.batch]
           first == Push!SettlePublished(snapped, st.rows)
           f == CHOOSE g : IsReplay(g, st, first)
           last == f[Len(st.recent)]
<1>1. snapped \in Restorable /\ snapped.batch = st.snap.batch
  <2>1. st.snap.history \in Push!History /\ Spoken(st.snap.batch) /\ Spoken(Push!NoBatch)
    BY NoBatchIs DEF StoreTyped, PushStore
  <2>2. snapped = SubjectOf(st.snap.history, <<>>, FALSE, st.snap.batch, Push!NoBatch, "turn")
    <3>1. PICK u : u = Push!Untracked
      OBVIOUS
    <3>2. u = [history |-> "untracked", run |-> <<>>, rendered |-> FALSE,
               batch |-> Push!NoBatch, rendering |-> Push!NoBatch, by |-> "turn"]
      BY <3>1 DEF Push!Untracked
    <3>3. snapped = [u EXCEPT !.history = st.snap.history, !.batch = st.snap.batch]
      BY <3>1
    <3> HIDE DEF snapped
    <3> QED  BY <3>2, <3>3 DEF SubjectOf
  <2>3. SubjectOK(SubjectOf(st.snap.history, <<>>, FALSE, st.snap.batch, Push!NoBatch, "turn"))
    <3>1. <<>> \in Seq(Event) /\ \A i \in DOMAIN <<>> : <<>>[i] \in Tries
      OBVIOUS
    <3> QED  BY <2>1, <3>1, SubjectMade
  <2> HIDE DEF snapped
  <2>4. snapped.batch = st.snap.batch /\ snapped.rendering = Push!NoBatch
    BY <2>2 DEF SubjectOf
  <2> QED  BY <2>2, <2>3, <2>4 DEF Restorable, SubjectOK
<1> HIDE DEF snapped
<1>2. /\ first \in Restorable
      /\ first.batch = st.snap.batch \/ (first.batch = Push!NoBatch /\ st.rows[st.snap.batch.latest] > 0)
  BY <1>1, SettleIs
<1>3. Push!Restored(st) = Push!SettlePublished(last, st.rows)
  BY DEF Push!Restored, IsReplay, snapped
<1> HIDE DEF first
<1>4. /\ last \in Restorable
      /\ st.recent = <<>> => last = first
      /\ st.recent # <<>> => last.batch.latest = StoreBatch(st).latest
  BY <1>2, ReplayFun
<1> HIDE DEF last
<1>5. /\ Push!Restored(st) \in Restorable
      /\ Push!Restored(st).batch = last.batch \/ (Push!Restored(st).batch = Push!NoBatch
           /\ st.rows[last.batch.latest] > 0)
  BY <1>3, <1>4, SettleIs
<1>6. ASSUME NEW e \in Event, StoreBatch(st).latest = e PROVE last.batch.latest = e \/ st.rows[e] > 0
  <2>1. CASE st.recent = <<>>
    BY <1>2, <1>4, <1>6, <2>1 DEF StoreBatch
  <2>2. CASE st.recent # <<>>
    BY <1>4, <1>6, <2>2
  <2> QED  BY <2>1, <2>2
<1> QED  BY <1>5, <1>6

(* The newest of some indices.                                              *)
LEMMA GreatestTo ==
    ASSUME NEW n \in Nat, NEW T, T \subseteq 1..n, T # {}
    PROVE  \E i \in T : \A j \in T : j <= i
<1>1. T \subseteq Nat /\ \A i \in T : i <= n
  OBVIOUS
<1> QED  BY <1>1, Greatest

(* What a restart takes for the outcome is what was answered.               *)
LEMMA OutcomeIs ==
    ASSUME ReceiptsOK, NEW st, StoreTyped(st), Faithful(st), NEW e \in Event, Push!Known(st, e)
    PROVE  Push!OutcomeOf(st, e) = receipts[e].outcome /\ receipts[e].outcome \in Push!Outcome \ {"none"}
<1> DEFINE T == {i \in DOMAIN st.recent : st.recent[i].event = e}
<1>1. receipts[e].status # "none"
  BY KnownIs DEF Faithful
<1>2. receipts[e].outcome \in Push!Outcome \ {"none"}
  BY <1>1 DEF ReceiptsOK
<1>3. CASE T = {}
  <2>1. Push!OutcomeOf(st, e) = st.snap.known[e] /\ st.snap.known[e] # "none"
    BY <1>3 DEF Push!OutcomeOf, Push!Known
  <2> QED  BY <1>2, <2>1 DEF Faithful
<1>4. CASE T # {}
  <2>1. st.recent \in Seq(ReceiptRecord)
    BY DEF StoreTyped, PushStore
  <2>2. Len(st.recent) \in Nat /\ T \subseteq 1..Len(st.recent)
    BY <2>1
  <2>3. \E i \in T : \A j \in T : j <= i
    <3> HIDE DEF T
    <3> QED  BY <1>4, <2>2, GreatestTo
  <2> DEFINE m == CHOOSE i \in T : \A j \in T : j <= i
  <2>4. m \in T
    <3> HIDE DEF T
    <3> QED  BY <2>3
  <2>5. Push!OutcomeOf(st, e) = st.recent[m].outcome
    BY <1>4 DEF Push!OutcomeOf
  <2> HIDE DEF m
  <2>6. st.recent[m].outcome = receipts[e].outcome
    BY <2>4 DEF Faithful
  <2> QED  BY <1>2, <2>5, <2>6
<1> QED  BY <1>3, <1>4

LEMMA RestartsKeeps == ASSUME PushInv, Push!Restarts PROVE PushInv'
<1>0. /\ Scalars /\ ReceiptsOK /\ stored \in lasting /\ (\A st \in lasting : GoodStore(st))
  BY ScalarsHold DEF PushInv, PushTyped, PushStores
<1>1. PICK st \in lasting :
        /\ stored' = st /\ lasting' = {st} /\ subject' = Push!Restored(st)
        /\ receipts' = [e \in Event |-> IF Push!Known(st, e)
                          THEN [outcome |-> Push!OutcomeOf(st, e), status |-> "committed", born |-> "kept"]
                          ELSE Push!NoReceipt]
        /\ recent' = st.recent /\ dirty' = FALSE /\ lock' = "free"
        /\ wake' = (subject'.batch # Push!NoBatch) /\ keeper' = FALSE /\ armed' = FALSE
        /\ suspended' = FALSE /\ overlaid' = overlaid \cup st.torn
        /\ UNCHANGED <<authorized, kind, line, answered, settled, cutOff, missed>>
  BY <1>0 DEF Push!Restarts, Push!ended
<1>2. GoodStore(st) /\ StoreTyped(st) /\ Faithful(st) /\ st \in PushStore
  BY <1>0 DEF GoodStore, StoreTyped
<1>3. /\ Tries' = Tries /\ Excused \subseteq Excused' /\ st.torn \subseteq Excused'
           /\ overlaid' \subseteq Event
      /\ \A e : Newest(e)' <=> Newest(e)
  BY <1>0, <1>1, <1>2 DEF Tries, Excused, Newest, PushStore, Scalars
<1>4. \A e \in Event : Push!Known(st, e) =>
        /\ receipts'[e].outcome = receipts[e].outcome /\ receipts'[e].status = "committed"
        /\ receipts[e].outcome \in Push!Outcome \ {"none"}
        /\ receipts'[e] = [outcome |-> receipts[e].outcome, status |-> "committed", born |-> "kept"]
  <2> SUFFICES ASSUME NEW e \in Event, Push!Known(st, e)
               PROVE  /\ receipts'[e].outcome = receipts[e].outcome /\ receipts'[e].status = "committed"
                      /\ receipts[e].outcome \in Push!Outcome \ {"none"}
                      /\ receipts'[e] = [outcome |-> receipts[e].outcome, status |-> "committed",
                           born |-> "kept"]
    OBVIOUS
  <2>1. Push!OutcomeOf(st, e) = receipts[e].outcome /\ receipts[e].outcome \in Push!Outcome \ {"none"}
    BY <1>0, <1>2, OutcomeIs
  <2>2. receipts'[e] = [outcome |-> Push!OutcomeOf(st, e), status |-> "committed", born |-> "kept"]
    BY <1>1
  <2> QED  BY <2>1, <2>2
<1>5. \A e \in Event : ~Push!Known(st, e) => receipts'[e] = Push!NoReceipt
  BY <1>1
<1>6. ReceiptsOK'
  <2>1. \A e \in Event : receipts'[e] \in [outcome : Push!Outcome, status : Statuses,
          born : Push!History \cup {"kept"}]
                         /\ (receipts'[e].status = "none" <=> receipts'[e].outcome = "none")
    <3> SUFFICES ASSUME NEW e \in Event
                 PROVE  /\ receipts'[e] \in [outcome : Push!Outcome, status : Statuses,
                             born : Push!History \cup {"kept"}]
                        /\ (receipts'[e].status = "none" <=> receipts'[e].outcome = "none")
      OBVIOUS
    <3>1. CASE Push!Known(st, e)
      <4>1. /\ receipts[e].outcome \in Push!Outcome \ {"none"}
            /\ receipts'[e] = [outcome |-> receipts[e].outcome, status |-> "committed", born |-> "kept"]
        BY <1>4, <3>1
      <4>2. PICK o \in Push!Outcome \ {"none"} : o = receipts[e].outcome
        BY <4>1
      <4>3. receipts'[e] = [outcome |-> o, status |-> "committed", born |-> "kept"]
        BY <4>1, <4>2
      <4> QED  BY <4>3 DEF Statuses
    <3>2. CASE ~Push!Known(st, e)
      BY <1>5, <3>2 DEF Push!NoReceipt, Statuses, Push!Outcome
    <3> QED  BY <3>1, <3>2
  <2>2. \E g : receipts' = [e \in Event |-> g[e]]
    <3> DEFINE g == [e \in Event |-> IF Push!Known(st, e)
                          THEN [outcome |-> Push!OutcomeOf(st, e), status |-> "committed", born |-> "kept"]
                          ELSE Push!NoReceipt]
    <3>1. receipts' = g /\ g = [e \in Event |-> g[e]]
      BY <1>1
    <3> HIDE DEF g
    <3> QED  BY <3>1
  <2> QED  BY <2>1, <2>2 DEF ReceiptsOK
<1>7. \A b : Spoken(b) => Spoken(b)'
  BY <1>3 DEF Spoken
<1>8. StoreTyped(st)'
  BY <1>2, <1>7 DEF StoreTyped
<1>9. Faithful(st)'
  <2>1. \A i \in DOMAIN st.recent : st.recent[i].event \in Event /\ Push!Known(st, st.recent[i].event)
    <3> SUFFICES ASSUME NEW i \in DOMAIN st.recent PROVE st.recent[i].event \in Event
          /\ Push!Known(st, st.recent[i].event)
      OBVIOUS
    <3>1. st.recent[i] \in ReceiptRecord
      BY <1>2 DEF PushStore
    <3> QED  BY <3>1 DEF Push!Known, ReceiptRecord
  <2>2. \A i \in DOMAIN st.recent : st.recent[i].outcome = receipts'[st.recent[i].event].outcome
    BY <1>2, <1>4, <2>1 DEF Faithful
  <2>3. \A e \in Event : st.snap.known[e] # "none" => st.snap.known[e] = receipts'[e].outcome
    BY <1>2, <1>4 DEF Faithful, Push!Known
  <2>4. \A e \in Event : receipts'[e].status = "committed" => Push!Known(st, e)
    BY <1>5 DEF Push!NoReceipt
  <2> QED  BY <2>2, <2>3, <2>4 DEF Faithful, Push!Known
<1>10. ASSUME NEW e \in Event, Newest(e)', Push!Known(st, e)
       PROVE  Taken(e)' \/ st.rows[e] > 0 \/ StoreBatch(st).latest = e \/ e \in Excused'
  <2>1. KeptBy(st, e)
    BY <1>2, <1>3, <1>10 DEF GoodStore
  <2>2. Taken(e) => Taken(e)'
    BY <1>1, <1>4, <1>10 DEF Taken
  <2> QED  BY <1>3, <2>1, <2>2 DEF KeptBy
<1>11. GoodStore(st)'
  <2>1. \A e \in Event : (Newest(e) /\ Push!Known(st, e))' => KeptBy(st, e)'
    BY <1>10 DEF KeptBy, Push!Known, StoreBatch
  <2> QED  BY <1>8, <1>9, <2>1 DEF GoodStore
<1>12. \A e \in Event : receipts'[e].status # "none" => Push!Known(st, e)
  BY <1>5 DEF Push!NoReceipt
<1>13. PushStores'
  <2>1. FullStore(st)'
    BY <1>11, <1>12 DEF FullStore, Push!Known
  <2>2. FullStore(stored)'
    <3>1. stored' = st
      BY <1>1
    <3>2. StoreTyped(stored)'
      BY <1>11, <3>1 DEF GoodStore, StoreTyped, StoreBatch, Push!Known
    <3>3. Faithful(stored)'
      BY <1>11, <3>1 DEF GoodStore, Faithful, Push!Known
    <3>4. \A e \in Event : (Newest(e) /\ Push!Known(stored, e))' => KeptBy(stored, e)'
      BY <1>11, <3>1 DEF GoodStore, KeptBy, StoreBatch, Push!Known
    <3>5. GoodStore(stored)'
      BY <3>2, <3>3, <3>4 DEF GoodStore
    <3> QED  BY <1>12, <3>1, <3>5 DEF FullStore, Push!Known
  <2>3. \A w \in lasting' : GoodStore(w)'
    BY <1>1, <1>11
  <2> QED  BY <1>1, <2>2, <2>3 DEF PushStores
<1>14. Recents'
  BY <1>1 DEF Recents
<1>15. subject' \in Restorable /\ subject'.rendering = Push!NoBatch
       /\ \A e \in Event : StoreBatch(st).latest = e => subject'.batch.latest = e \/ st.rows[e] > 0
  BY <1>1, <1>2, RestoredIs DEF Restorable
<1>16. SubjectOK(subject)'
  <2>1. SubjectOK(subject')
    BY <1>15 DEF Restorable
  <2>2. \A s : SubjectOK(s) => SubjectOK(s)'
    BY <1>3, <1>7 DEF SubjectOK
  <2> QED  BY <2>1, <2>2
<1>17. (recent \in Seq(ReceiptRecord))' /\ (\A i \in DOMAIN recent : Spoken(recent[i].batch))'
  BY <1>1, <1>2, <1>8 DEF StoreTyped, PushStore
<1>18. Held(subject, stored)'
  <2> SUFFICES ASSUME NEW e \in Event, Newest(e)'
               PROVE  /\ receipts'[e].status # "none" => Holding(subject, stored, e)'
                      /\ subject'.batch # Push!NoBatch /\ subject'.rendering.latest = e
                           => subject'.batch.latest = e
    BY DEF Held
  <2>1. subject'.rendering.latest # e
    BY <1>15, NoneIs
  <2>2. ASSUME receipts'[e].status # "none" PROVE Holding(subject, stored, e)'
    <3>1. Push!Known(st, e)
      BY <1>12, <2>2
    <3>2. Taken(e)' \/ st.rows[e] > 0 \/ StoreBatch(st).latest = e \/ e \in Excused'
      BY <1>10, <3>1
    <3> QED  BY <1>1, <1>15, <3>2 DEF Holding
  <2> QED  BY <2>1, <2>2
<1>19. Stages' /\ Awaiting'
  BY <1>1, <1>15, LocksApart DEF Stages, Awaiting
<1>20. Answered'
  <2>1. \A e \in answered : e \in Event /\ Push!Known(st, e)
    BY <1>2 DEF PushInv, Answered, Faithful
  <2> QED  BY <1>1, <1>4, <2>1 DEF PushInv, Answered
<1>21. Scalars'
  BY <1>0, <1>1, <1>3 DEF Scalars
<1> QED  BY <1>6, <1>13, <1>14, <1>16, <1>17, <1>18, <1>19, <1>20, <1>21, Assembled


(* At the start nothing was tried.                                          *)
LEMMA PushInit == ASSUME Push!Init PROVE PushInv
<1>1. /\ Push!NoBatch \in Push!Batch /\ Spoken(Push!NoBatch) /\ "untracked" \in Push!History
      /\ "none" \in Push!Outcome /\ "none" \in Statuses /\ "unsent" \in KindsOf
  BY NoBatchIs DEF Push!History, Push!Outcome, Statuses, KindsOf
<1>2. Tries = {} /\ line = <<>>
  BY DEF Push!Init, Tries
<1>3. SubjectOK(subject)
  <2>1. subject \in SubjectType
    BY <1>1 DEF Push!Init, Push!Untracked, SubjectType
  <2>2. subject.batch = Push!NoBatch /\ subject.rendering = Push!NoBatch /\ subject.run = <<>>
    BY DEF Push!Init, Push!Untracked
  <2> QED  BY <1>1, <2>1, <2>2 DEF SubjectOK
<1>4. /\ \A e \in Event : receipts[e].status = "none" /\ receipts[e].outcome = "none"
      /\ ReceiptsOK
  <2>1. Push!NoReceipt \in [outcome : Push!Outcome, status : Statuses, born : Push!History \cup {"kept"}]
    BY <1>1 DEF Push!NoReceipt
  <2>2. receipts \in [Event -> [outcome : Push!Outcome, status : Statuses,
          born : Push!History \cup {"kept"}]]
    BY <2>1 DEF Push!Init
  <2>3. \A e \in Event : receipts[e].status = "none" /\ receipts[e].outcome = "none"
    BY DEF Push!Init, Push!NoReceipt
  <2> QED  BY <2>2, <2>3 DEF ReceiptsOK
<1>5. /\ stored.rows = [e \in Event |-> 0] /\ stored.recent = <<>> /\ stored.torn = {}
      /\ stored.snap.history = "untracked" /\ stored.snap.batch = Push!NoBatch
      /\ stored.snap.known = [e \in Event |-> "none"]
  BY DEF Push!Init
<1>6. StoreTyped(stored)
  <2>1. [history |-> "untracked", known |-> [e \in Event |-> "none"], batch |-> Push!NoBatch]
          \in [history : Push!History, known : [Event -> Push!Outcome], batch : Push!Batch]
    BY <1>1
  <2>2. [e \in Event |-> 0] \in [Event -> Nat] /\ <<>> \in Seq(ReceiptRecord) /\ {} \in SUBSET Event
    OBVIOUS
  <2>3. stored \in PushStore
    BY <2>1, <2>2 DEF Push!Init, PushStore
  <2> QED  BY <1>1, <1>5, <2>3 DEF StoreTyped
<1>7. \A e \in Event : ~Newest(e)
  BY <1>2 DEF Newest
<1>8. FullStore(stored)
  <2>1. Faithful(stored)
    BY <1>4, <1>5 DEF Faithful
  <2> QED  BY <1>4, <1>6, <1>7, <2>1 DEF FullStore, GoodStore
<1>9. PushStores
  BY <1>8 DEF PushStores, FullStore, Push!Init
<1>10. PushTyped
  <2>1. recent = <<>> /\ recent \in Seq(ReceiptRecord) /\ line \in Seq(Event)
    BY DEF Push!Init
  <2>2. kind \in [Event -> KindsOf]
    BY <1>1 DEF Push!Init
  <2>3. \A i \in DOMAIN recent : Spoken(recent[i].batch)
    BY <2>1
  <2>4. /\ wake = FALSE /\ keeper = FALSE /\ armed = FALSE /\ suspended = FALSE /\ authorized = TRUE
        /\ dirty = FALSE /\ missed = FALSE /\ lock = "free"
        /\ settled = {} /\ cutOff = {} /\ overlaid = {}
    BY DEF Push!Init
  <2> QED  BY <1>3, <1>4, <2>1, <2>2, <2>3, <2>4 DEF PushTyped
<1>11. Recents
  BY <1>5 DEF Recents, Push!Init
<1>12. Stages /\ Awaiting
  BY LocksApart DEF Stages, Awaiting, Push!Init, Push!Untracked
<1>13. Answered /\ Held(subject, stored)
  BY <1>7 DEF Answered, Held, Push!Init
<1> QED  BY <1>9, <1>10, <1>11, <1>12, <1>13 DEF PushInv

LEMMA RestKeeps == ASSUME PushInv, UNCHANGED Push!vars PROVE PushInv'
<1>1. Scalars'
  BY ScalarsHold DEF Scalars, Push!vars, Push!held, Push!disk, Push!wakes, Push!host, Push!ended,
     Push!lapses, Push!outside
<1>2. Stages' /\ Awaiting'
  BY DEF PushInv, Stages, Awaiting, Push!vars, Push!held, Push!disk, Push!wakes, Push!host, Push!ended,
     Push!lapses, Push!outside
<1> QED  BY <1>1, <1>2, Resting DEF Push!vars, Push!held, Push!disk, Push!wakes, Push!host, Push!ended,
            Push!lapses, Push!outside

LEMMA PushStep == ASSUME PushInv, [Push!Next]_(Push!vars) PROVE PushInv'
<1>1. ASSUME NEW e \in Event, Push!Accept(e) \/ Push!AcceptAgain(e) PROVE PushInv'
  BY <1>1, AcceptKeeps, AcceptAgainKeeps
<1>2. ASSUME Push!Acknowledges PROVE PushInv'
  BY <1>2, AcknowledgesKeeps
<1>3. ASSUME NEW who \in {"turn", "keeper"}, Push!Freeze(who) PROVE PushInv'
  BY <1>3, FreezeKeeps
<1>4. ASSUME Push!Frozen \/ Push!Joins \/ Push!KeeperLeaves PROVE PushInv'
  BY <1>4, FrozenKeeps, JoinsKeeps, KeeperLeavesKeeps
<1>5. ASSUME Push!RenderDropped PROVE PushInv'
  BY <1>5, RenderDroppedKeeps
<1>6. ASSUME NEW presented \in BOOLEAN, Push!Rendered(presented) PROVE PushInv'
  BY <1>6, RenderedKeeps
<1>7. ASSUME NEW f \in Push!Failures, Push!RenderThrows(f) \/ Push!RenderUnsaved(f) PROVE PushInv'
  BY <1>7, RenderThrowsKeeps, RenderUnsavedKeeps
<1>8. ASSUME Push!RenderEnds \/ Push!RecoveryFires PROVE PushInv'
  BY <1>8, RenderEndsKeeps, RecoveryFiresKeeps
<1>9. ASSUME Push!Flush \/ Push!Suspend \/ Push!Revoke \/ Push!Reads \/ Push!Restarts PROVE PushInv'
  BY <1>9, FlushKeeps, SuspendKeeps, RevokeKeeps, ReadsKeeps, RestartsKeeps
<1>10. ASSUME UNCHANGED Push!vars PROVE PushInv'
  BY <1>10, RestKeeps
<1> QED  BY <1>1, <1>2, <1>3, <1>4, <1>5, <1>6, <1>7, <1>8, <1>9, <1>10 DEF Push!Next

LEMMA PushKeeps == ASSUME PushInv PROVE Push!KeepsAccepted
<1>1. ASSUME NEW e \in Event PROVE Push!Keeps(e) \/ e \in cutOff \cup overlaid
  <2>1. CASE e \notin answered \/ ~Newest(e)
    BY <2>1 DEF Push!Keeps, Newest, Push!Last
  <2>2. CASE e \in answered /\ Newest(e)
    <3>1. receipts[e].status = "committed"
      BY <2>2 DEF PushInv, Answered
    <3>2. Holding(subject, stored, e)
      BY <2>2, <3>1 DEF PushInv, Held
    <3> QED  BY <3>1, <3>2 DEF Holding, Taken, Excused, Push!Keeps
  <2> QED  BY <2>1, <2>2
<1>2. Push!BatchAwaitsUnjoined
  <2>1. lock = "free" => lock # "settle"
    OBVIOUS
  <2> QED  BY <2>1 DEF PushInv, Awaiting, Push!BatchAwaitsUnjoined, Push!BatchAwaits
<1> QED  BY <1>1, <1>2 DEF Push!KeepsAccepted

(* The module's own types.                                                  *)
LEMMA PushTypes == ASSUME PushInv PROVE Push!TypeOK
<1>1. SubjectOK(subject) /\ ReceiptsOK
  BY DEF PushInv, PushTyped
<1>2. subject \in [history : Push!History, run : Seq(Event), rendered : BOOLEAN,
                   batch : Push!Batch, rendering : Push!Batch, by : {"turn", "keeper"}]
  BY <1>1 DEF SubjectOK, SubjectType
<1>3. \A i \in DOMAIN subject.run : subject.run[i] \in answered \cup Push!ToSet(line)
  BY <1>1 DEF SubjectOK, Tries, Push!ToSet
<1>4. \A e \in Event : receipts[e].outcome \in Push!Outcome
  BY <1>1 DEF ReceiptsOK
<1> QED  BY <1>2, <1>3, <1>4 DEF PushInv, PushTyped, PushStores, Push!TypeOK

LEMMA PushesAlways == StoresSpec => []PushInv
<1>1. StoresInit => PushInv
  BY PushInit DEF StoresInit
<1>2. PushInv /\ [StoresNext]_<<part, vars, registryVars, pushVars>> => PushInv'
  <2> SUFFICES ASSUME PushInv, [StoresNext]_<<part, vars, registryVars, pushVars>> PROVE PushInv'
    OBVIOUS
  <2>1. [Push!Next]_(Push!vars)
    BY DEF StoresNext, pushVars, Push!vars, Push!held, Push!disk, Push!wakes, Push!host,
           Push!ended, Push!lapses, Push!outside
  <2> QED  BY <2>1, PushStep
<1> QED  BY <1>1, <1>2, PTL DEF StoresSpec

(* The newest occurrence that was acknowledged is in the agent's context,   *)
(* in a batch or rendering after any number of replacements, failed saves   *)
(* and deliveries, suspensions and crashes at any commit, and a batch has a *)
(* wake, a keeper, a timer or a render that reaches it; what a stop cut     *)
(* off, a torn save laid over or an assembly that joined a render left is   *)
(* excepted (push-coalescer.ts admit, freeze, render, restoreReceipts).     *)
THEOREM AcceptedPushesAreKept == StoresSpec => []KeepsAccepted
<1>1. PushInv => KeepsAccepted
  BY PushKeeps DEF KeepsAccepted
<1> QED  BY <1>1, PushesAlways, PTL
-----------------------------------------------------------------------------
(* The registry's tree.                                                     *)

(* A recursion has one value at each place, however far it is carried.      *)
LEMMA RecursOnce ==
    ASSUME NEW b \in Nat, NEW c \in Nat, NEW s, NEW F, NEW g, NEW h,
           Recurs(0, b, s, F, g), Recurs(0, c, s, F, h)
    PROVE  \A i \in 0..b : i <= c => g[i] = h[i]
<1> DEFINE T == {i \in 0..b : i <= c => g[i] = h[i]}
<1>1. 0 \in T
  BY DEF Recurs
<1>2. ASSUME NEW i \in (0 + 1)..b, i - 1 \in T PROVE i \in T
  <2>1. i \in 0..b /\ (i <= c => i \in (0 + 1)..c) /\ (i <= c => i - 1 <= c)
    OBVIOUS
  <2>2. i <= c => g[i - 1] = h[i - 1]
    BY <1>2, <2>1
  <2>3. i <= c => g[i] = h[i]
    BY <2>1, <2>2 DEF Recurs
  <2> QED  BY <2>1, <2>3
<1> HIDE DEF T
<1>3. 0..b \subseteq T
  BY <1>1, <1>2, UpFrom
<1> QED  BY <1>3 DEF T

(* A recursion over every number.                                           *)
LEMMA RecursionNat ==
    ASSUME NEW S, NEW s \in S, NEW F \in [S -> S]
    PROVE  \E h \in [Nat -> S] : h[0] = s /\ \A k \in Nat \ {0} : h[k] = F[h[k - 1]]
<1> DEFINE G(n) == [p \in ((0 + 1)..n) \X S |-> F[p[2]]]
           Is(n, g) == g \in [0..n -> S] /\ Recurs(0, n, s, G(n), g)
           Upto(n) == CHOOSE g : Is(n, g)
           h == [n \in Nat |-> Upto(n)[n]]
<1>1. ASSUME NEW n \in Nat PROVE Is(n, Upto(n))
  <2>1. G(n) \in [((0 + 1)..n) \X S -> S]
    OBVIOUS
  <2>2. \E g \in [0..n -> S] : Recurs(0, n, s, G(n), g)
    <3> SUFFICES ASSUME NEW E, E = G(n) PROVE \E g \in [0..n -> S] : Recurs(0, n, s, E, g)
      OBVIOUS
    <3>1. E \in [((0 + 1)..n) \X S -> S]
      BY <2>1
    <3>2. 0 \in Nat /\ 0 <= n
      OBVIOUS
    <3> HIDE DEF G
    <3> QED  BY <3>1, <3>2, Recursion
  <2> HIDE DEF G
  <2>3. \E g : Is(n, g)
    BY <2>2
  <2> HIDE DEF Is
  <2> QED  BY <2>3
<1> HIDE DEF Upto
<1>2. ASSUME NEW n \in Nat
      PROVE  /\ Upto(n) \in [0..n -> S] /\ Upto(n)[0] = s
             /\ \A i \in (0 + 1)..n : Upto(n)[i] = F[Upto(n)[i - 1]]
  <2>1. Upto(n) \in [0..n -> S] /\ Recurs(0, n, s, G(n), Upto(n))
    BY <1>1
  <2> HIDE DEF Is
  <2>2. ASSUME NEW i \in (0 + 1)..n PROVE Upto(n)[i] = F[Upto(n)[i - 1]]
    <3>1. i - 1 \in 0..n
      OBVIOUS
    <3>2. Upto(n)[i - 1] \in S
      BY <2>1, <3>1
    <3>3. <<i, Upto(n)[i - 1]>> \in ((0 + 1)..n) \X S
      BY <3>2
    <3>4. Upto(n)[i] = G(n)[<<i, Upto(n)[i - 1]>>]
      BY <2>1 DEF Recurs
    <3> QED  BY <3>3, <3>4
  <2> HIDE DEF G
  <2> QED  BY <2>1, <2>2 DEF Recurs
<1> HIDE DEF Is, G
<1>3. ASSUME NEW k \in Nat \ {0} PROVE Upto(k - 1)[k - 1] = Upto(k)[k - 1]
  <2> DEFINE E == [p \in Nat \X S |-> F[p[2]]]
  <2>1. k - 1 \in Nat /\ k \in Nat
    OBVIOUS
  <2>2. ASSUME NEW n \in Nat PROVE Recurs(0, n, s, E, Upto(n))
    <3>1. ASSUME NEW i \in (0 + 1)..n PROVE Upto(n)[i] = E[<<i, Upto(n)[i - 1]>>]
      <4>1. i \in Nat /\ i - 1 \in 0..n
        OBVIOUS
      <4>2. Upto(n)[i - 1] \in S
        BY <1>2, <4>1
      <4>3. E[<<i, Upto(n)[i - 1]>>] = F[Upto(n)[i - 1]]
        BY <4>1, <4>2
      <4> QED  BY <1>2, <4>3
    <3> HIDE DEF E
    <3> QED  BY <1>2, <3>1 DEF Recurs
  <2> HIDE DEF E
  <2>3. Recurs(0, k - 1, s, E, Upto(k - 1)) /\ Recurs(0, k, s, E, Upto(k))
    BY <2>1, <2>2
  <2>4. \A i \in 0..(k - 1) : i <= k => Upto(k - 1)[i] = Upto(k)[i]
    BY <2>1, <2>3, RecursOnce
  <2>5. k - 1 \in 0..(k - 1) /\ k - 1 <= k
    BY <2>1
  <2> QED  BY <2>4, <2>5
<1>4. \A n \in Nat : n \in 0..n
  OBVIOUS
<1>5. h \in [Nat -> S]
  BY <1>2, <1>4
<1>6. h[0] = s
  BY <1>2
<1>7. ASSUME NEW k \in Nat \ {0} PROVE h[k] = F[h[k - 1]]
  <2>1. k \in (0 + 1)..k /\ k \in Nat /\ k - 1 \in Nat
    OBVIOUS
  <2>2. h[k] = Upto(k)[k] /\ h[k - 1] = Upto(k - 1)[k - 1]
    BY <2>1
  <2> HIDE DEF h
  <2> QED  BY <1>2, <1>3, <2>1, <2>2
<1> HIDE DEF h
<1> QED  BY <1>5, <1>6, <1>7

LEMMA CardinalityIs == ASSUME NEW S PROVE Reg!Cardinality(S) = Cardinality(S)
BY DEF Reg!Cardinality, Cardinality

(* Ancestors: the names above p, a generation at a time.                    *)
Parents(near) == {r.spawner : r \in {s \in reg.live : s.name \in near}}
IsClimb(g, p) ==
    g = [k \in Nat |-> IF k = 0 THEN {p} ELSE g[k - 1] \cup Parents(g[k - 1])]

LEMMA ClimbIs ==
    ASSUME reg.live \subseteq Reg!Record, NEW p \in Reg!Name
    PROVE  \E g : /\ Reg!Ancestors(p) = g[Cardinality(Reg!Live)] \cap (Reg!Live \ {p})
                  /\ g[0] = {p}
                  /\ \A k \in Nat : g[k + 1] = g[k] \cup Parents(g[k])
<1> DEFINE X == Reg!Name \cup {NoAgent}
           S == SUBSET X
           F == [near \in S |-> near \cup Parents(near)]
           f == CHOOSE g : IsClimb(g, p)
<1>1. \A near \in S : Parents(near) \subseteq X
  BY DEF Parents, Reg!Record
<1>2. F \in [S -> S] /\ {p} \in S
  BY <1>1
<1>3. PICK h \in [Nat -> S] : h[0] = {p} /\ \A k \in Nat \ {0} : h[k] = F[h[k - 1]]
  <2> HIDE DEF F, S
  <2> QED  BY <1>2, RecursionNat
<1>4. ASSUME NEW k \in Nat \ {0} PROVE h[k] = h[k - 1] \cup Parents(h[k - 1])
  <2>1. k - 1 \in Nat
    OBVIOUS
  <2>2. h[k - 1] \in S
    BY <1>3, <2>1
  <2> HIDE DEF S
  <2> QED  BY <1>3, <2>2
<1>5. IsClimb(h, p)
  BY <1>3, <1>4 DEF IsClimb
<1>6. IsClimb(f, p)
  BY <1>5
<1>7. Reg!Ancestors(p) = f[Cardinality(Reg!Live)] \cap (Reg!Live \ {p})
  BY CardinalityIs DEF Reg!Ancestors, IsClimb, Parents
<1> HIDE DEF f
<1>8. f = [k \in Nat |-> IF k = 0 THEN {p} ELSE f[k - 1] \cup Parents(f[k - 1])]
  BY <1>6 DEF IsClimb
<1>9. f[0] = {p}
  BY <1>8
<1>10. ASSUME NEW k \in Nat PROVE f[k + 1] = f[k] \cup Parents(f[k])
  <2>1. k + 1 \in Nat /\ k + 1 # 0 /\ (k + 1) - 1 = k
    OBVIOUS
  <2> QED  BY <1>8, <2>1
<1> QED  BY <1>7, <1>9, <1>10

(* Who is above p, and above whom is above p, is above p: the climb from it *)
(* comes to its end within as many generations as there are live agents.    *)
LEMMA ClimbEnds ==
    ASSUME reg.live \subseteq Reg!Record, NEW p \in Reg!Live, IsFiniteSet(Reg!Live)
    PROVE  \E C : /\ Reg!Ancestors(p) = C \cap (Reg!Live \ {p}) /\ p \in C
                  /\ \A r \in reg.live : r.name \in C => r.spawner \in C
<1> DEFINE K == Cardinality(Reg!Live)
<1>0. K \in Nat /\ p \in Reg!Name
  BY FS_CardinalityType DEF Reg!Live, Reg!Names, Reg!Record
<1>1. PICK g : /\ Reg!Ancestors(p) = g[K] \cap (Reg!Live \ {p})
               /\ g[0] = {p}
               /\ \A k \in Nat : g[k + 1] = g[k] \cup Parents(g[k])
  BY <1>0, ClimbIs
<1> HIDE DEF K
<1>2. \A k \in 0..K : k \in Nat /\ p \in g[k]
  <2> DEFINE T == {k \in 0..K : p \in g[k]}
  <2>1. 0 \in T
    BY <1>0, <1>1
  <2>2. ASSUME NEW k \in (0 + 1)..K, k - 1 \in T PROVE k \in T
    <3>1. k - 1 \in Nat /\ (k - 1) + 1 = k /\ k \in 0..K
      BY <1>0
    <3> QED  BY <1>1, <2>2, <3>1
  <2> HIDE DEF T
  <2>3. 0..K \subseteq T
    BY <1>0, <2>1, <2>2, UpFrom
  <2> QED  BY <2>3 DEF T
<1>3. ASSUME NEW r \in reg.live, r.name \in g[K], r.spawner \notin g[K] PROVE FALSE
  <2> DEFINE A(k) == g[k] \cap Reg!Live
  <2>1. ASSUME NEW k \in 0..K, k < K PROVE A(k) # A(k + 1)
    <3> SUFFICES ASSUME A(k) = A(k + 1) PROVE FALSE
      OBVIOUS
    <3>1. k \in Nat /\ k + 1 \in Nat /\ k + 1 <= K
      BY <1>0, <2>1
    <3>2. \A N, M : N \cap Reg!Live = M \cap Reg!Live => Parents(N) = Parents(M)
      BY DEF Parents, Reg!Live, Reg!Names
    <3>3. Parents(g[k + 1]) = Parents(g[k]) /\ Parents(g[k]) \subseteq g[k + 1]
      BY <1>1, <3>1, <3>2
    <3> DEFINE T == {j \in (k + 1)..K : g[j] = g[k + 1]}
    <3>4. k + 1 \in T
      BY <1>0, <3>1
    <3>5. ASSUME NEW j \in ((k + 1) + 1)..K, j - 1 \in T PROVE j \in T
      <4>1. j - 1 \in Nat /\ (j - 1) + 1 = j /\ j \in (k + 1)..K
        BY <1>0, <3>1
      <4>2. g[j] = g[j - 1] \cup Parents(g[j - 1])
        BY <1>1, <4>1
      <4> QED  BY <3>3, <3>5, <4>1, <4>2
    <3> HIDE DEF T
    <3>6. (k + 1)..K \subseteq T
      BY <1>0, <3>1, <3>4, <3>5, UpFrom
    <3>7. K \in (k + 1)..K
      BY <1>0, <3>1
    <3>8. g[K] = g[k + 1]
      BY <3>6, <3>7 DEF T
    <3>9. r.spawner \in Parents(g[K])
      BY <1>3 DEF Parents
    <3> QED  BY <1>3, <3>3, <3>8, <3>9
  <2> DEFINE T == {k \in 0..K : Cardinality(A(k)) >= k + 1}
  <2>2. \A k : A(k) \in SUBSET Reg!Live
    OBVIOUS
  <2>3. \A k : IsFiniteSet(A(k)) /\ Cardinality(A(k)) \in Nat /\ Cardinality(A(k)) <= K
    <3> SUFFICES ASSUME NEW k PROVE IsFiniteSet(A(k)) /\ Cardinality(A(k)) \in Nat /\ Cardinality(A(k)) <= K
      OBVIOUS
    <3>1. PICK B : B = A(k)
      OBVIOUS
    <3>2. B \in SUBSET Reg!Live
      BY <3>1
    <3>3. IsFiniteSet(B) /\ Cardinality(B) <= Cardinality(Reg!Live)
      BY <3>2, FS_Subset
    <3>4. Cardinality(B) \in Nat
      BY <3>3, FS_CardinalityType
    <3> QED  BY <3>1, <3>3, <3>4 DEF K
  <2>4. 0 \in T
    <3>1. A(0) = {p}
      BY <1>1
    <3>2. Cardinality({p}) = 1
      BY FS_Singleton
    <3> QED  BY <1>0, <3>1, <3>2
  <2>5. ASSUME NEW k \in (0 + 1)..K, k - 1 \in T PROVE k \in T
    <3>1. k - 1 \in 0..K /\ k - 1 < K /\ (k - 1) + 1 = k /\ k \in 0..K /\ k \in Nat /\ k - 1 \in Nat
      BY <1>0
    <3>2. A(k - 1) # A(k)
      BY <2>1, <3>1
    <3>3. A(k - 1) \subseteq A(k)
      BY <1>1, <3>1
    <3>4. Cardinality(A(k - 1)) <= Cardinality(A(k)) /\ Cardinality(A(k - 1)) # Cardinality(A(k))
      <4>1. PICK B, D : B = A(k - 1) /\ D = A(k)
        OBVIOUS
      <4>2. B \in SUBSET D /\ IsFiniteSet(D) /\ B # D
        BY <2>3, <3>2, <3>3, <4>1
      <4>3. Cardinality(B) <= Cardinality(D) /\ (Cardinality(D) = Cardinality(B) => D = B)
        BY <4>2, FS_Subset
      <4> QED  BY <4>1, <4>2, <4>3
    <3>5. Cardinality(A(k - 1)) \in Nat /\ Cardinality(A(k)) \in Nat
      BY <2>3
    <3>6. Cardinality(A(k - 1)) >= (k - 1) + 1
      BY <2>5
    <3>7. Cardinality(A(k)) >= k + 1
      <4> HIDE DEF A
      <4> QED  BY <3>1, <3>4, <3>5, <3>6
    <3> QED  BY <3>1, <3>7
  <2> HIDE DEF T
  <2>6. 0..K \subseteq T
    BY <1>0, <2>4, <2>5, UpFrom
  <2>7. Cardinality(A(K)) >= K + 1
    BY <1>0, <2>6 DEF T
  <2>8. Cardinality(A(K)) \in Nat /\ Cardinality(A(K)) <= K
    BY <2>3
  <2> HIDE DEF A
  <2> QED  BY <1>0, <2>7, <2>8
<1>4. p \in g[K]
  BY <1>0, <1>2
<1> QED  BY <1>1, <1>3, <1>4

(* Live records whose parents are live, and no ring of them.                *)
Rooted(L) ==
    /\ \A r \in L : r.spawner # NoAgent /\ ~r.orphan => r.spawner \in Reg!Names(L)
    /\ \A S \in SUBSET L : S # {} => \E r \in S : r.orphan \/ r.spawner \notin Reg!Names(S)

LEMMA NoAgentIs == \A r \in Reg!Record : r.name # NoAgent
BY StoresConstants DEF Reg!Record, Reg!Name, Reg!RegistryConstants

(* A record that comes is nobody's parent.                                  *)
LEMMA RootedComes ==
    ASSUME NEW L \in SUBSET Reg!Record, Rooted(L), NEW r \in Reg!Record,
           r.name \notin Reg!Names(L), r.spawner # r.name,
           r.orphan \/ r.spawner = NoAgent \/ r.spawner \in Reg!Names(L)
    PROVE  Rooted(L \cup {r})
<1> DEFINE M == L \cup {r}
<1>1. Reg!Names(M) = Reg!Names(L) \cup {r.name}
  BY DEF Reg!Names
<1>2. \A s \in L : s.orphan \/ s.spawner # r.name
  BY NoAgentIs DEF Rooted
<1>3. \A s \in M : s.spawner # NoAgent /\ ~s.orphan => s.spawner \in Reg!Names(M)
  BY <1>1 DEF Rooted
<1>4. ASSUME NEW S \in SUBSET M, S # {} PROVE \E s \in S : s.orphan \/ s.spawner \notin Reg!Names(S)
  <2> DEFINE T == S \ {r}
  <2>1. T \in SUBSET L
    OBVIOUS
  <2>2. CASE T = {}
    <3>1. S = {r}
      BY <1>4, <2>2
    <3> QED  BY <3>1 DEF Reg!Names
  <2>3. CASE T # {}
    <3>1. PICK s \in T : s.orphan \/ s.spawner \notin Reg!Names(T)
      BY <2>1, <2>3 DEF Rooted
    <3>2. s \in L /\ s \in S
      BY <2>1
    <3>3. \A n \in Reg!Names(S) : n = r.name \/ n \in Reg!Names(T)
      BY DEF Reg!Names
    <3> HIDE DEF T
    <3> QED  BY <1>2, <3>1, <3>2, <3>3
  <2> QED  BY <2>2, <2>3
<1> QED  BY <1>3, <1>4 DEF Rooted

(* Whoever ends, the children that stay are orphans or have theirs.         *)
LEMMA RootedWithout ==
    ASSUME NEW L \in SUBSET Reg!Record, Rooted(L), NEW gone, NEW M,
           \A s \in M : \E r \in L : r.name \notin gone /\ s.name = r.name /\ s = After(r, gone),
           \A r \in L : r.name \notin gone => \E s \in M : s.name = r.name
    PROVE  Rooted(M)
<1>1. \A r \in L : After(r, gone).spawner = r.spawner /\ (r.orphan => After(r, gone).orphan)
                   /\ (r.spawner \in gone => After(r, gone).orphan)
  BY DEF After, Reg!Record
<1>2. ASSUME NEW s \in M, s.spawner # NoAgent, ~s.orphan PROVE s.spawner \in Reg!Names(M)
  <2>1. PICK r \in L : r.name \notin gone /\ s = After(r, gone)
    OBVIOUS
  <2>2. r.spawner = s.spawner /\ ~r.orphan /\ r.spawner \notin gone
    BY <1>1, <1>2, <2>1
  <2>3. PICK q \in L : q.name = s.spawner
    BY <1>2, <2>2 DEF Rooted, Reg!Names
  <2>4. \E t \in M : t.name = q.name
    BY <2>2, <2>3
  <2> QED  BY <2>3, <2>4 DEF Reg!Names
<1>3. ASSUME NEW S \in SUBSET M, S # {} PROVE \E s \in S : s.orphan \/ s.spawner \notin Reg!Names(S)
  <2> DEFINE T == {r \in L : r.name \notin gone /\ \E s \in S : s.name = r.name /\ s = After(r, gone)}
  <2>1. T \in SUBSET L /\ T # {}
    BY <1>3
  <2>2. PICK r \in T : r.orphan \/ r.spawner \notin Reg!Names(T)
    <3> HIDE DEF T
    <3> QED  BY <2>1 DEF Rooted
  <2>3. PICK s \in S : s.name = r.name /\ s = After(r, gone)
    OBVIOUS
  <2>4. Reg!Names(S) \subseteq Reg!Names(T)
    <3>0. SUFFICES ASSUME NEW t \in S PROVE \E q \in T : q.name = t.name
      <4> HIDE DEF T
      <4> QED  BY <3>0 DEF Reg!Names
    <3>1. PICK q \in L : q.name \notin gone /\ t.name = q.name /\ t = After(q, gone)
      OBVIOUS
    <3>2. q \in T
      BY <3>1
    <3> QED  BY <3>1, <3>2
  <2>5. r \in L
    OBVIOUS
  <2> HIDE DEF T
  <2> QED  BY <1>1, <2>2, <2>3, <2>4, <2>5
<1> QED  BY <1>2, <1>3 DEF Rooted

(* A new parent that the agent is not above closes no ring.                 *)
LEMMA RootedAdopts ==
    ASSUME reg.live \subseteq Reg!Record, Rooted(reg.live), IsFiniteSet(Reg!Live),
           NEW n \in Reg!Name, NEW p \in Reg!Live, p # n, Reg!MayAdopt(n, p)
    PROVE  Rooted({IF r.name = n THEN Reg!Adopted(r, p) ELSE r : r \in reg.live})
<1> DEFINE turned(r) == IF r.name = n THEN Reg!Adopted(r, p) ELSE r
           M == {turned(r) : r \in reg.live}
<1>1. p \in Reg!Name
  BY DEF Reg!Live, Reg!Names, Reg!Record
<1>2. \A r \in reg.live : /\ turned(r).name = r.name
                          /\ r.name = n => turned(r).spawner = p
                          /\ r.name # n => turned(r) = r
  BY <1>1 DEF Reg!Adopted, Reg!Record
<1> HIDE DEF turned
<1>3. Reg!Names(M) = Reg!Live
  BY <1>2 DEF Reg!Names, Reg!Live
<1>4. \A s \in M : s.spawner # NoAgent /\ ~s.orphan => s.spawner \in Reg!Names(M)
  <2> SUFFICES ASSUME NEW r \in reg.live, turned(r).spawner # NoAgent, ~turned(r).orphan
               PROVE  turned(r).spawner \in Reg!Live
    BY <1>3
  <2>1. CASE r.name = n
    BY <1>2, <2>1
  <2>2. CASE r.name # n
    BY <1>2, <2>2 DEF Rooted, Reg!Live
  <2> QED  BY <2>1, <2>2
<1>5. ASSUME NEW S \in SUBSET M, S # {} PROVE \E s \in S : s.orphan \/ s.spawner \notin Reg!Names(S)
  <2> SUFFICES ASSUME \A s \in S : ~s.orphan /\ s.spawner \in Reg!Names(S) PROVE FALSE
    OBVIOUS
  <2>1. \A s \in S : s.name # n => s \in reg.live
    BY <1>2
  <2>2. PICK a \in S : a.name = n
    <3> SUFFICES ASSUME \A s \in S : s.name # n PROVE FALSE
      OBVIOUS
    <3>1. S \in SUBSET reg.live
      BY <2>1
    <3> QED  BY <1>5, <3>1 DEF Rooted
  <2>3. a.spawner = p /\ n \in Reg!Live
    BY <1>2, <2>2 DEF Reg!Live, Reg!Names
  <2>4. PICK C : /\ Reg!Ancestors(p) = C \cap (Reg!Live \ {p}) /\ p \in C
                 /\ \A r \in reg.live : r.name \in C => r.spawner \in C
    BY ClimbEnds
  <2>5. n \notin C
    BY <2>3, <2>4 DEF Reg!MayAdopt
  <2> DEFINE T == {s \in S : s.name \in C}
  <2>6. T \in SUBSET reg.live
    BY <2>1, <2>5
  <2>7. T # {}
    <3>1. PICK b \in S : b.name = p
      BY <2>3 DEF Reg!Names
    <3>2. b \in T
      BY <2>4, <3>1
    <3> QED  BY <3>2
  <2>8. PICK t \in T : t.orphan \/ t.spawner \notin Reg!Names(T)
    <3> HIDE DEF T
    <3> QED  BY <2>6, <2>7 DEF Rooted
  <2>9. t \in S /\ t \in reg.live /\ t.spawner \in C
    BY <2>4, <2>6
  <2>10. PICK q \in S : q.name = t.spawner
    BY <2>9 DEF Reg!Names
  <2>11. q \in T
    BY <2>9, <2>10
  <2>12. t.spawner \in Reg!Names(T)
    BY <2>10, <2>11 DEF Reg!Names
  <2> HIDE DEF T
  <2> QED  BY <2>8, <2>9, <2>12
<1>6. Rooted(M)
  BY <1>4, <1>5 DEF Rooted
<1> QED  BY <1>6 DEF turned

LEMMA ImageFinite ==
    ASSUME NEW L, IsFiniteSet(L), NEW f, NEW M, \A y \in M : \E x \in L : y = f[x]
    PROVE  IsFiniteSet(M)
<1> DEFINE P == {x \in L : f[x] \in M}
           g == [x \in P |-> f[x]]
<1>1. IsFiniteSet(P)
  BY FS_Subset
<1>2. g \in Surjection(P, M)
  BY DEF Surjection
<1> HIDE DEF P, g
<1> QED  BY <1>1, <1>2, FS_Surjection

(* One record for each live name: as many names as records.                 *)
LEMMA LiveCount ==
    ASSUME IsFiniteSet(reg.live), OneName(reg.live)
    PROVE  IsFiniteSet(Reg!Live) /\ Cardinality(Reg!Live) = Cardinality(reg.live)
<1> DEFINE f == [r \in reg.live |-> r.name]
<1>1. f \in Bijection(reg.live, Reg!Live)
  BY DEF Bijection, Injection, IsInjective, Surjection, OneName, Reg!Live, Reg!Names
<1> HIDE DEF f
<1>2. ExistsBijection(reg.live, Reg!Live)
  BY <1>1 DEF ExistsBijection
<1> QED  BY <1>2, FS_Bijection

Tree == IsFiniteSet(reg.live) /\ Rooted(reg.live)

LEMMA TreeStays == ASSUME Tree, reg'.live = reg.live PROVE Tree'
BY DEF Tree, Rooted

LEMMA TreeBare == ASSUME reg'.live = {} PROVE Tree'
BY FS_EmptySet DEF Tree, Rooted

LEMMA TreeComes ==
    ASSUME reg \in Reg!Registry, Tree, NEW r \in Reg!Record, r.name \notin Reg!Live, r.spawner # r.name,
           r.orphan \/ r.spawner = NoAgent \/ r.spawner \in Reg!Live,
           reg'.live = reg.live \cup {r}
    PROVE  Tree'
<1>1. reg.live \in SUBSET Reg!Record
  BY DEF Reg!Registry
<1>2. Rooted(reg.live \cup {r})
  BY <1>1, RootedComes DEF Tree, Reg!Live
<1>3. IsFiniteSet(reg.live \cup {r})
  BY FS_AddElement DEF Tree
<1> QED  BY <1>2, <1>3 DEF Tree, Rooted

LEMMA TreeGoes ==
    ASSUME reg \in Reg!Registry, Tree, NEW gone, reg' = Reg!Without(gone)
    PROVE  Tree'
<1> DEFINE stay == {s \in reg.live : s.name \notin gone}
           M == {After(r, gone) : r \in stay}
           f == [r \in reg.live |-> After(r, gone)]
<1>1. reg.live \in SUBSET Reg!Record
  BY DEF Reg!Registry
<1>2. \A r \in Reg!Record : After(r, gone).name = r.name
  BY DEF After, Reg!Record
<1>3. reg'.live = M
  BY DEF Reg!Without, After, Reg!Registry
<1>4. \A y \in M : \E x \in reg.live : y = f[x]
  OBVIOUS
<1>5. IsFiniteSet(M)
  <2> HIDE DEF M, f
  <2> QED  BY <1>4, ImageFinite DEF Tree
<1>6. \A s \in M : \E r \in reg.live : r.name \notin gone /\ s.name = r.name /\ s = After(r, gone)
  BY <1>1, <1>2
<1>7. \A r \in reg.live : r.name \notin gone => \E s \in M : s.name = r.name
  BY <1>1, <1>2
<1> HIDE DEF M, f
<1>8. Rooted(M)
  BY <1>1, <1>6, <1>7, RootedWithout DEF Tree
<1> QED  BY <1>3, <1>5, <1>8 DEF Tree, Rooted

LEMMA TreeTurns ==
    ASSUME reg \in Reg!Registry, OneName(reg.live), Tree, NEW n \in Reg!Name, NEW p \in Reg!Live, p # n,
           Reg!MayAdopt(n, p),
           reg'.live = {IF r.name = n THEN Reg!Adopted(r, p) ELSE r : r \in reg.live}
    PROVE  Tree'
<1> DEFINE M == {IF r.name = n THEN Reg!Adopted(r, p) ELSE r : r \in reg.live}
           f == [r \in reg.live |-> IF r.name = n THEN Reg!Adopted(r, p) ELSE r]
<1>1. reg.live \subseteq Reg!Record
  BY DEF Reg!Registry
<1>2. \A y \in M : \E x \in reg.live : y = f[x]
  OBVIOUS
<1>3. IsFiniteSet(M)
  <2> HIDE DEF M, f
  <2> QED  BY <1>2, ImageFinite DEF Tree
<1>4. IsFiniteSet(Reg!Live)
  BY LiveCount DEF Tree
<1>5. Rooted(M)
  BY <1>1, <1>4, RootedAdopts DEF Tree
<1> HIDE DEF M, f
<1>6. reg'.live = M
  BY DEF M
<1> QED  BY <1>3, <1>5, <1>6 DEF Tree, Rooted

LEMMA TreeStep ==
    ASSUME reg \in Reg!Registry, OneName(reg.live), Tree, [Reg!Next]_(Reg!vars)
    PROVE  Tree'
<1> USE DEF Reg!Registry
<1>1. ASSUME NEW n \in Task, NEW s \in Reg!Name, NEW follows \in BOOLEAN, Reg!Spawn(n, s, follows)
      PROVE  Tree'
  <2> DEFINE r == Reg!Spawned(n, s, follows)
             new == [reg EXCEPT !.live = @ \cup {r}, !.numbers[n] = r.number]
  <2>1. n \in Reg!Name /\ n \notin Reg!Live /\ s # n
    BY <1>1 DEF Reg!Spawn, Reg!Registrable, Reg!Name
  <2>2. r \in Reg!Record /\ r.name = n /\ r.spawner = s /\ (r.orphan \/ s \in Reg!Live)
    <3>1. reg.numbers[n] + 1 \in Nat
      BY <2>1
    <3> QED  BY <2>1, <3>1 DEF Reg!Spawned, Reg!Record
  <2>3. reg' = new \/ reg' = reg
    BY <1>1 DEF Reg!Spawn, Reg!Written, Reg!RolledBack
  <2> HIDE DEF r
  <2>4. new.live = reg.live \cup {r}
    OBVIOUS
  <2> HIDE DEF new
  <2>5. CASE reg' = new
    BY <2>1, <2>2, <2>4, <2>5, TreeComes
  <2>6. CASE reg' = reg
    BY <2>6, TreeStays
  <2> QED  BY <2>3, <2>5, <2>6
<1>2. ASSUME NEW n \in Reg!Name, Reg!RunEnds(n) \/ Reg!StopAgent(n) PROVE Tree'
  <2> DEFINE gone == Reg!EndsWith(n)
  <2>1. reg' = Reg!Without(gone) \/ reg' = reg
    BY <1>2 DEF Reg!RunEnds, Reg!StopAgent, Reg!Recorded, Reg!Written, Reg!RolledBack
  <2> HIDE DEF gone
  <2> QED  BY <2>1, TreeGoes, TreeStays
<1>3. ASSUME NEW n \in Reg!Name, NEW p \in Reg!Name, Reg!Reparent(n, p) PROVE Tree'
  <2> DEFINE M == {IF r.name = n THEN Reg!Adopted(r, p) ELSE r : r \in reg.live}
             new == [reg EXCEPT
                       !.live = {IF r.name = n THEN Reg!Adopted(r, p) ELSE r : r \in @},
                       !.mail = Reg!Readdressed(n, p)]
  <2>1. p \in Reg!Live /\ p # n /\ Reg!MayAdopt(n, p) /\ (reg' = new \/ reg' = reg)
    BY <1>3 DEF Reg!Reparent, Reg!Written, Reg!RolledBack
  <2>2. new.live = M
    OBVIOUS
  <2> HIDE DEF new
  <2>3. CASE reg' = new
    <3>1. reg'.live = {IF r.name = n THEN Reg!Adopted(r, p) ELSE r : r \in reg.live}
      BY <2>2, <2>3
    <3> QED  BY <2>1, <3>1, TreeTurns
  <2>4. CASE reg' = reg
    BY <2>4, TreeStays
  <2> QED  BY <2>1, <2>3, <2>4
<1>4. ASSUME NEW n \in Reg!Name, NEW to \in Reg!Name, Reg!HoldMail(n, to) PROVE Tree'
  <2>1. reg' = reg \/ \E m : reg' = Reg!WithMail(m)
    BY <1>4 DEF Reg!HoldMail, Reg!Written, Reg!RolledBack
  <2>2. reg'.live = reg.live
    BY <2>1 DEF Reg!WithMail
  <2> QED  BY <2>2, TreeStays
<1>5. ASSUME NEW copy, Reg!Landed(copy) PROVE Tree'
  <2>1. reg' = reg \/ reg' = Reg!Released(copy.id)
    BY <1>5 DEF Reg!Landed, Reg!Recorded
  <2>2. reg'.live = reg.live
    BY <2>1 DEF Reg!Released
  <2> QED  BY <2>2, TreeStays
<1>6. ASSUME NEW m \in reg.mail, Reg!Deliver(m) PROVE Tree'
  <2>1. reg' = reg \/ Reg!Landed(Reg!Copy(m))
    BY <1>6 DEF Reg!Deliver
  <2> QED  BY <1>5, <2>1, TreeStays
<1>7. ASSUME NEW copy \in kept, Reg!Replay(copy) PROVE Tree'
  BY <1>5, <1>7 DEF Reg!Replay
<1>8. ASSUME Reg!Crash \/ Reg!Restore PROVE Tree'
  <2>1. reg'.live = {}
    BY <1>8 DEF Reg!Crash, Reg!Restore, Reg!Empty
  <2> QED  BY <2>1, TreeBare
<1>9. ASSUME NEW p \in Resident, Reg!Declare(p) PROVE Tree'
  <2> DEFINE r == [name |-> p, number |-> reg.numbers[p] + 1, spawner |-> NoAgent,
                   orphan |-> FALSE, follows |-> FALSE, to |-> NoAgent]
             new == [reg EXCEPT !.live = @ \cup {r}, !.numbers[p] = r.number,
                                !.awaiting = {a \in @ : a.name # p}]
  <2>1. p \in Reg!Name /\ p \notin Reg!Live /\ (reg' = new \/ reg' = reg)
    BY <1>9 DEF Reg!Declare, Reg!Written, Reg!RolledBack, Reg!Name
  <2>2. r \in Reg!Record /\ r.name = p /\ r.spawner = NoAgent
    BY <2>1 DEF Reg!Record
  <2> HIDE DEF r
  <2>3. new.live = reg.live \cup {r}
    OBVIOUS
  <2> HIDE DEF new
  <2>4. CASE reg' = new
    BY <2>1, <2>2, <2>3, <2>4, NoAgentIs, TreeComes
  <2> QED  BY <2>1, <2>4, TreeStays
<1>10. ASSUME Reg!Reconcile PROVE Tree'
  <2>1. reg'.live = reg.live
    BY <1>10 DEF Reg!Reconcile, Reg!Written
  <2> QED  BY <2>1, TreeStays
<1>11. ASSUME Reg!SettleInterrupted PROVE Tree'
  <2>1. reg' = reg \/ Reg!LetsGo
    BY <1>11 DEF Reg!SettleInterrupted
  <2>2. reg' = reg \/ \E P : reg' = [reg EXCEPT !.pending = P]
    BY <2>1 DEF Reg!LetsGo
  <2>3. reg'.live = reg.live
    BY <2>2
  <2> QED  BY <2>3, TreeStays
<1>12. ASSUME Reg!StoreRefuses \/ (\E p \in Reg!Name : Reg!TellInterrupted(p))
         \/ UNCHANGED Reg!vars PROVE Tree'
  <2>1. reg' = reg
    BY <1>12 DEF Reg!StoreRefuses, Reg!TellInterrupted, Reg!vars
  <2> QED  BY <2>1, TreeStays
<1> QED  BY <1>1, <1>2, <1>3, <1>4, <1>6, <1>7, <1>8, <1>9, <1>10, <1>11, <1>12 DEF Reg!Next

LEMMA TreeInit == ASSUME Reg!Init PROVE Tree
<1> DEFINE rec(p) == [name |-> p, number |-> 1, spawner |-> NoAgent, orphan |-> FALSE,
                      follows |-> FALSE, to |-> NoAgent]
           f == [p \in Resident |-> rec(p)]
           M == {rec(p) : p \in Resident}
<1>1. IsFiniteSet(Resident)
  BY StoresConstants DEF Reg!RegistryConstants, Reg!IsFiniteSet, IsFiniteSet
<1>2. reg.live = M
  BY DEF Reg!Init, Reg!Resting, Reg!Empty
<1>3. \A y \in M : \E x \in Resident : y = f[x]
  OBVIOUS
<1>4. IsFiniteSet(M)
  <2> HIDE DEF M, f
  <2> QED  BY <1>1, <1>3, ImageFinite
<1>5. \A r \in M : r.spawner = NoAgent /\ r.name # NoAgent
  BY StoresConstants DEF Reg!RegistryConstants
<1> HIDE DEF M, f
<1>6. Rooted(M)
  BY <1>5 DEF Rooted, Reg!Names
<1> QED  BY <1>2, <1>4, <1>6 DEF Tree

(* How often the instance's bounds let requests, crashes and failures be.   *)
Counts == acts \in 0..MaxActs /\ faults \in 0..MaxFaults

LEMMA CountsStep == ASSUME Counts, [Reg!Next]_(Reg!vars) PROVE Counts'
<1> DEFINE A == acts' = acts \/ Reg!Act
           F == faults' = faults \/ Reg!Fault
<1>1. ASSUME A, F PROVE Counts'
  BY <1>1, StoresConstants DEF Counts, Reg!Act, Reg!Fault, Reg!RegistryConstants
<1>2. /\ \A new, ends : Reg!Written(new, ends) => F
      /\ \A new, ends : Reg!RolledBack(new, ends) => F
      /\ \A new, ends : Reg!Recorded(new, ends) => F
  BY DEF Reg!Written, Reg!RolledBack, Reg!Recorded
<1>3. \A copy : Reg!Landed(copy) => F
  BY <1>2 DEF Reg!Landed
<1>4. Reg!LetsGo => F
  BY DEF Reg!LetsGo
<1>5. ASSUME NEW n \in Task, NEW s \in Reg!Name, NEW follows \in BOOLEAN, Reg!Spawn(n, s, follows)
      PROVE  A /\ F
  BY <1>2, <1>5 DEF Reg!Spawn
<1>6. ASSUME NEW n \in Reg!Name, Reg!RunEnds(n) \/ Reg!StopAgent(n) PROVE A /\ F
  BY <1>2, <1>6 DEF Reg!RunEnds, Reg!StopAgent
<1>7. ASSUME NEW n \in Reg!Name, NEW p \in Reg!Name, Reg!Reparent(n, p) \/ Reg!HoldMail(n, p) PROVE A /\ F
  BY <1>2, <1>7 DEF Reg!Reparent, Reg!HoldMail
<1>8. ASSUME NEW m \in reg.mail, Reg!Deliver(m) PROVE A /\ F
  BY <1>3, <1>8 DEF Reg!Deliver
<1>9. ASSUME NEW copy \in kept, Reg!Replay(copy) PROVE A /\ F
  BY <1>3, <1>9 DEF Reg!Replay
<1>10. ASSUME Reg!Crash \/ Reg!Restore \/ Reg!StoreRefuses PROVE A /\ F
  BY <1>10 DEF Reg!Crash, Reg!Restore, Reg!StoreRefuses
<1>11. ASSUME NEW p \in Resident, Reg!Declare(p) PROVE A /\ F
  BY <1>2, <1>11 DEF Reg!Declare
<1>12. ASSUME Reg!Reconcile PROVE A /\ F
  BY <1>2, <1>12 DEF Reg!Reconcile
<1>13. ASSUME NEW p \in Reg!Name, Reg!TellInterrupted(p) PROVE A /\ F
  BY <1>13 DEF Reg!TellInterrupted
<1>14. ASSUME Reg!SettleInterrupted PROVE A /\ F
  BY <1>4, <1>14 DEF Reg!SettleInterrupted
<1>15. ASSUME UNCHANGED Reg!vars PROVE A /\ F
  BY <1>15 DEF Reg!vars
<1> HIDE DEF A, F
<1>16. A /\ F
  BY <1>5, <1>6, <1>7, <1>8, <1>9, <1>10, <1>11, <1>12, <1>13, <1>14, <1>15 DEF Reg!Next
<1> QED  BY <1>1, <1>16

(* Every part has its types.                                                *)
Typed == JournalInv /\ RegistryInv /\ PushInv /\ Tree /\ Counts

LEMMA TypedInit == ASSUME StoresInit PROVE Typed
<1>1. Init /\ Reg!Init /\ Push!Init
  BY DEF StoresInit
<1>2. Counts
  BY <1>1, StoresConstants DEF Reg!Init, Counts, Reg!RegistryConstants
<1> QED  BY <1>1, <1>2, JournalFirst, RegistryInit, PushInit, TreeInit DEF Typed

LEMMA TypedStep ==
    ASSUME Typed, [StoresNext]_<<part, vars, registryVars, pushVars>>
    PROVE  Typed'
<1>1. [Next]_vars
  BY DEF StoresNext
<1>2. [Reg!Next]_(Reg!vars)
  BY DEF StoresNext, registryVars, Reg!vars
<1>3. [Push!Next]_(Push!vars)
  BY DEF StoresNext, pushVars, Push!vars, Push!held, Push!disk, Push!wakes, Push!host,
         Push!ended, Push!lapses, Push!outside
<1>4. reg \in Reg!Registry /\ OneName(reg.live)
  BY DEF Typed, RegistryInv, Base, RegTyped, Placed
<1>5. JournalInv'
  BY <1>1, JournalStep DEF Typed
<1>6. RegistryInv'
  BY <1>2, RegistryStep DEF Typed
<1>7. PushInv'
  BY <1>3, PushStep DEF Typed
<1>8. Tree' /\ Counts'
  BY <1>2, <1>4, TreeStep, CountsStep DEF Typed
<1> QED  BY <1>5, <1>6, <1>7, <1>8 DEF Typed

LEMMA TypedKeeps == ASSUME Typed PROVE TypesOK
<1>1. TypeOK
  BY DEF Typed, JournalInv
<1>2. Push!TypeOK
  BY PushTypes DEF Typed
<1>3. RegTyped /\ StoresTyped /\ OneName(reg.live)
  BY DEF Typed, RegistryInv, Base, Placed
<1>4. Reg!Cardinality(Reg!Live) = Reg!Cardinality(reg.live)
  BY <1>3, LiveCount, CardinalityIs DEF Typed, Tree
<1>5. Reg!ParentsLive
  BY DEF Typed, Tree, Rooted, Reg!ParentsLive, Reg!Live
<1>6. Reg!TypeOK
  BY <1>3, <1>4, <1>5 DEF RegTyped, StoresTyped, Typed, Counts, Reg!TypeOK
<1> QED  BY <1>1, <1>2, <1>6 DEF TypesOK

(* The journal, the registry and the pushes keep their types; a live agent  *)
(* has a live parent or is an orphan, and no agents are above one another   *)
(* in a ring, however they come, end together and change parents            *)
(* (registry.ts register, endRecursive, reparent).                          *)
THEOREM StoresTypes == StoresSpec => []TypesOK
<1>1. StoresInit => Typed
  BY TypedInit
<1>2. Typed /\ [StoresNext]_<<part, vars, registryVars, pushVars>> => Typed'
  BY TypedStep
<1>3. Typed => TypesOK
  BY TypedKeeps
<1> QED  BY <1>1, <1>2, <1>3, PTL DEF StoresSpec
=============================================================================
