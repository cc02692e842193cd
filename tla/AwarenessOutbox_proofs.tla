----------------------- MODULE AwarenessOutbox_proofs -----------------------
(***************************************************************************)
(* The later act wins, for any set of marks, surgeries and retracts: no    *)
(* activation revives a mark a later retract decided against, whatever     *)
(* cancels, crashes and restarts come between.                             *)
(*                                                                         *)
(* An activation is allowed over a retract of its own moment, so the       *)
(* argument needs that moments are never shared (Dated), and that what an  *)
(* activation and a retirement meet is a batch still prepared, which the   *)
(* surgery under way and the host's state give (Hosted).                   *)
(***************************************************************************)
EXTENDS AwarenessOutbox, TLAPS

Dated(l) ==
    /\ \A b \in Batch : l.chosen[b] <= l.moment
    /\ \A m \in Mark : l.entry[m].retracted <= l.moment
    /\ \A b \in Batch : l.status[b] # "none" =>
          l.chosen[b] > 0 /\ \A m \in Mark : l.entry[m].retracted # l.chosen[b]

Named(l) ==
    /\ l.cancelled \subseteq l.made \cup {b \in Batch : l.status[b] # "none"}
    /\ \A m \in Mark : /\ l.entry[m].by \subseteq l.made \cup {b \in Batch : l.status[b] = "active"}
                       /\ l.entry[m].by \cap l.cancelled = {}

Standing(l) ==
    \A m \in Mark :
        /\ l.entry[m].due # 0 => l.entry[m].by # {}
        /\ l.entry[m].wanted = "present" =>
              \A b \in l.entry[m].by :
                  /\ b \in Batch /\ m \in RefsOf[b]
                  /\ l.status[b] = "active"
                  /\ l.chosen[b] > l.entry[m].retracted

Sound(l) == l \in Ledgers /\ Dated(l) /\ Named(l) /\ Standing(l)

Statuses == [Batch -> {"none", "prepared", "active", "retired"}]
Changed(l, moment, status, entry) ==
    [l EXCEPT !.moment = moment, !.status = status, !.entry = entry]

(* A change of these fields leaves the others.                              *)
LEMMA Fields ==
    ASSUME NEW l \in Ledgers, NEW moment \in Nat, NEW status \in Statuses,
           NEW entry \in [Mark -> Entries]
    PROVE  /\ Changed(l, moment, status, entry) \in Ledgers
           /\ Changed(l, moment, status, entry).moment = moment
           /\ Changed(l, moment, status, entry).status = status
           /\ Changed(l, moment, status, entry).entry = entry
           /\ Changed(l, moment, status, entry).chosen = l.chosen
           /\ Changed(l, moment, status, entry).made = l.made
           /\ Changed(l, moment, status, entry).cancelled = l.cancelled
  BY DEF Changed, Ledgers, Statuses

(* What a typed ledger's fields are.                                        *)
LEMMA Types ==
    ASSUME NEW l \in Ledgers
    PROVE  /\ l.moment \in Nat /\ l.status \in Statuses /\ l.chosen \in [Batch -> Nat]
           /\ l.entry \in [Mark -> Entries]
           /\ l.made \subseteq Retract /\ l.cancelled \subseteq Act
           /\ \A m \in Mark : /\ l.entry[m] \in Entries
                              /\ l.entry[m].retracted \in Nat /\ l.entry[m].due \in Nat
                              /\ l.entry[m].by \subseteq Act
  BY DEF Ledgers, Statuses, Entries

(* A choice dates its batch later than every retract.                       *)
LEMMA PrepareSound ==
    ASSUME NEW l, Sound(l), NEW b \in Batch, l.status[b] = "none"
    PROVE  Sound(Prepare(l, b))
<1> DEFINE n == Prepare(l, b)
<1>1. n \in Ledgers
  <2>1. /\ l.moment + 1 \in Nat
        /\ [l.chosen EXCEPT ![b] = l.moment + 1] \in [Batch -> Nat]
        /\ [l.status EXCEPT ![b] = "prepared"] \in [Batch -> {"none", "prepared", "active", "retired"}]
    BY DEF Sound, Ledgers
  <2> QED BY <2>1 DEF Sound, Prepare, Ledgers
<1>2. /\ n.moment = l.moment + 1 /\ n.entry = l.entry /\ n.cancelled = l.cancelled
      /\ n.made = l.made
      /\ n.status[b] = "prepared" /\ n.chosen[b] = l.moment + 1
      /\ \A c \in Batch \ {b} : n.status[c] = l.status[c] /\ n.chosen[c] = l.chosen[c]
  BY DEF Sound, Prepare, Ledgers
<1>3. l.moment \in Nat /\ l.chosen \in [Batch -> Nat] /\ l.entry \in [Mark -> Entries]
  BY DEF Sound, Ledgers
<1>4. \A m \in Mark : l.entry[m].retracted \in Nat
  BY <1>3 DEF Entries
<1>5. Dated(n)
  BY <1>2, <1>3, <1>4 DEF Sound, Dated
<1>6. Named(n)
  BY <1>2 DEF Sound, Named
<1>7. Standing(n)
  BY <1>2 DEF Sound, Standing
<1> QED BY <1>1, <1>5, <1>6, <1>7 DEF Sound

(* What an act makes of an entry.                                           *)
LEMMA WantsEntry ==
    ASSUME NEW e \in Entries, NEW wish \in {"present", "absent"}, NEW act \in Act,
           NEW moment \in Nat
    PROVE  /\ Wants(e, wish, act, moment) \in Entries
           /\ Wants(e, wish, act, moment).by = IF e.wanted = wish THEN e.by \cup {act} ELSE {act}
  BY DEF Wants, Entries

(* An act's wish leaves the retract's date and the wire.                    *)
LEMMA WantsKeeps ==
    ASSUME NEW e \in Entries, NEW wish, NEW act, NEW moment
    PROVE  /\ Wants(e, wish, act, moment).retracted = e.retracted
           /\ Wants(e, wish, act, moment).sending = e.sending
  BY DEF Wants, Entries

(* An activation revives nothing a retract since its choice decided.        *)
LEMMA ActivateSound ==
    ASSUME NEW l, Sound(l), NEW b \in Batch, l.status[b] = "prepared", b \notin l.cancelled,
           LedgerConstants
    PROVE  Sound(Activate(l, b))
<1> DEFINE owed == {m \in RefsOf[b] : l.entry[m].retracted <= l.chosen[b]}
           moment == l.moment + 1
           status == [l.status EXCEPT ![b] = "active"]
           entry == [m \in Mark |-> IF m \in owed THEN Wants(l.entry[m], "present", b, moment)
                                    ELSE l.entry[m]]
<1>1. /\ l \in Ledgers /\ RefsOf[b] \subseteq Mark /\ b \in Act
      /\ l.moment \in Nat /\ l.status \in Statuses /\ l.chosen \in [Batch -> Nat]
      /\ \A m \in Mark : /\ l.entry[m] \in Entries
                         /\ l.entry[m].retracted \in Nat
  BY Types DEF Sound, LedgerConstants, Act
<1>2. Activate(l, b) = Changed(l, moment, status, entry)
  BY <1>1 DEF Activate, Changed, Ledgers
<1>3. moment \in Nat /\ status \in Statuses
  BY <1>1 DEF Statuses
<1>w. ASSUME NEW m \in Mark
      PROVE  /\ Wants(l.entry[m], "present", b, moment) \in Entries
             /\ Wants(l.entry[m], "present", b, moment).retracted = l.entry[m].retracted
             /\ Wants(l.entry[m], "present", b, moment).by =
                   IF l.entry[m].wanted = "present" THEN l.entry[m].by \cup {b} ELSE {b}
  <2>1. l.entry[m] \in Entries /\ b \in Act
    BY <1>1
  <2>2. Wants(l.entry[m], "present", b, moment).retracted = l.entry[m].retracted
    BY <2>1, WantsKeeps
  <2>3. Wants(l.entry[m], "present", b, moment) \in Entries
    BY <1>3, <2>1, WantsEntry
  <2>4. Wants(l.entry[m], "present", b, moment).by =
           IF l.entry[m].wanted = "present" THEN l.entry[m].by \cup {b} ELSE {b}
    BY <2>1 DEF Wants, Entries
  <2> QED BY <2>2, <2>3, <2>4
<1>4. \A m \in Mark : entry[m] \in Entries /\ entry[m].retracted = l.entry[m].retracted
  <2> SUFFICES ASSUME NEW m \in Mark
               PROVE  entry[m] \in Entries /\ entry[m].retracted = l.entry[m].retracted
    OBVIOUS
  <2>1. CASE m \in owed
    BY <1>w, <2>1
  <2>2. CASE m \notin owed
    BY <1>1, <2>2
  <2> QED BY <2>1, <2>2
<1>5. entry \in [Mark -> Entries]
  BY <1>4
<1> DEFINE n == Changed(l, moment, status, entry)
<1>6. /\ n \in Ledgers /\ n.moment = moment /\ n.status = status /\ n.entry = entry
      /\ n.chosen = l.chosen /\ n.made = l.made /\ n.cancelled = l.cancelled
  BY <1>1, <1>3, <1>5, Fields
<1> HIDE DEF n
<1>7. Dated(n)
  BY <1>1, <1>4, <1>6 DEF Sound, Dated, Statuses
<1>8. Named(n)
  <2>1. \A m \in Mark : entry[m].by \subseteq l.entry[m].by \cup {b}
    BY <1>1, <1>w
  <2> QED BY <1>1, <1>6, <2>1 DEF Sound, Named, Statuses
<1>9. Standing(n)
  <2> SUFFICES ASSUME NEW m \in Mark
               PROVE  /\ entry[m].due # 0 => entry[m].by # {}
                      /\ entry[m].wanted = "present" =>
                            \A c \in entry[m].by :
                                /\ c \in Batch /\ m \in RefsOf[c]
                                /\ status[c] = "active"
                                /\ l.chosen[c] > l.entry[m].retracted
    BY <1>4, <1>6 DEF Standing
  <2>1. \A c \in Batch : l.status[c] = "active" => status[c] = "active"
    BY <1>1 DEF Statuses
  <2>2. CASE m \in owed
    <3>1. l.chosen[b] > l.entry[m].retracted
      BY <1>1, <2>2 DEF Sound, Dated
    <3>2. entry[m].by = IF l.entry[m].wanted = "present" THEN l.entry[m].by \cup {b} ELSE {b}
      BY <1>w, <2>2
    <3>3. status[b] = "active" /\ m \in RefsOf[b]
      BY <1>1, <2>2 DEF Statuses
    <3>4. l.entry[m].wanted = "present" =>
             \A c \in l.entry[m].by : /\ c \in Batch /\ m \in RefsOf[c]
                                      /\ status[c] = "active"
                                      /\ l.chosen[c] > l.entry[m].retracted
      BY <2>1 DEF Sound, Standing
    <3> HIDE DEF entry, status, owed
    <3> QED BY <3>1, <3>2, <3>3, <3>4
  <2>3. CASE m \notin owed
    <3>1. entry[m] = l.entry[m]
      BY <2>3
    <3> HIDE DEF entry, status, owed
    <3> QED BY <2>1, <3>1 DEF Sound, Standing
  <2> QED BY <2>2, <2>3
<1> QED BY <1>2, <1>6, <1>7, <1>8, <1>9 DEF Sound, n

-----------------------------------------------------------------------------
(* Delivery changes what was sent and answered, never what is wanted.       *)

Settled(e, f) ==
    /\ f \in Entries
    /\ f.wanted = e.wanted /\ f.by = e.by /\ f.retracted = e.retracted
    /\ f.due \in {0, e.due}

(* Counting an attempt leaves what is wanted.                               *)
LEMMA CountSettled ==
    ASSUME NEW e \in Entries, NEW due \in Nat, NEW permanent \in BOOLEAN
    PROVE  Settled(e, CountAttempt(e, due, permanent))
<1> DEFINE n == e.attempts + 1
           f == [e EXCEPT !.attempts = n, !.due = IF permanent \/ n >= MaxAttempts THEN 0 ELSE e.due]
<1>1. Settled(e, e)
  BY DEF Settled
<1>2. n \in Nat /\ e.due \in Nat
  BY DEF Entries
<1>3. (IF permanent \/ n >= MaxAttempts THEN 0 ELSE e.due) \in {0, e.due}
  OBVIOUS
<1>4. ASSUME NEW d \in {0, e.due}
      PROVE  Settled(e, [e EXCEPT !.attempts = n, !.due = d])
  <2>1. d \in Nat
    BY <1>2
  <2> HIDE DEF n
  <2> QED BY <1>2, <2>1 DEF Settled, Entries
<1>5. Settled(e, f)
  BY <1>3, <1>4
<1>6. CountAttempt(e, due, permanent) = IF due # e.due THEN e ELSE f
  BY DEF CountAttempt
<1> HIDE DEF f
<1> QED BY <1>1, <1>5, <1>6

LEMMA SettledTransitive ==
    ASSUME NEW e \in Entries, NEW f, NEW g, Settled(e, f), Settled(f, g)
    PROVE  Settled(e, g)
  BY DEF Settled

LEMMA UnansweredSettled ==
    ASSUME NEW e \in Entries, e.sending # Nothing
    PROVE  Settled(e, RecordUnanswered(e))
<1> DEFINE f == [e EXCEPT !.sending = Nothing, !.confirmed = "unknown",
                          !.mayLand = e.mayLand \cup {e.sending.action}]
<1>1. e.sending.action \in Action /\ e.sending.due \in Nat
  BY DEF Entries
<1>2. Settled(e, f)
  BY <1>1 DEF Settled, Entries
<1>3. f \in Entries
  BY <1>2 DEF Settled
<1> HIDE DEF f
<1>4. Settled(f, CountAttempt(f, e.sending.due, FALSE))
  BY <1>1, <1>3, CountSettled
<1>5. RecordUnanswered(e) = CountAttempt(f, e.sending.due, FALSE)
  BY DEF RecordUnanswered, f
<1> QED BY <1>2, <1>4, <1>5, SettledTransitive

LEMMA ConfirmedSettled ==
    ASSUME NEW e \in Entries
    PROVE  Settled(e, RecordConfirmed(e))
<1> DEFINE d == IF e.sending.due = e.due THEN 0 ELSE e.due
           a == IF e.sending.due = e.due THEN 0 ELSE e.attempts
           c == Answered(e.sending.action)
<1>1. d \in {0, e.due} /\ d \in Nat /\ a \in Nat /\ c \in {"present", "absent"}
  BY DEF Entries, Answered
<1>2. RecordConfirmed(e) = [e EXCEPT !.sending = Nothing, !.confirmed = c, !.due = d, !.attempts = a]
  BY DEF RecordConfirmed
<1> HIDE DEF d, a, c
<1> QED BY <1>1, <1>2 DEF Settled, Entries

LEMMA NotSentSettled ==
    ASSUME NEW e \in Entries
    PROVE  Settled(e, RecordNotSent(e))
  BY DEF RecordNotSent, Settled, Entries

LEMMA FailedSettled ==
    ASSUME NEW e \in Entries, e.sending # Nothing, NEW permanent \in BOOLEAN
    PROVE  Settled(e, RecordFailed(e, permanent))
<1>1. Settled(e, RecordNotSent(e)) /\ RecordNotSent(e) \in Entries
  BY NotSentSettled DEF Settled
<1>2. e.sending.due \in Nat
  BY DEF Entries
<1>3. Settled(RecordNotSent(e), RecordFailed(e, permanent))
  BY <1>1, <1>2, CountSettled DEF RecordFailed
<1> QED BY <1>1, <1>3, SettledTransitive

-----------------------------------------------------------------------------
(* The other acts.                                                          *)

(* A ledger whose entries delivery changed is sound.                        *)
LEMMA SettledSound ==
    ASSUME NEW l, Sound(l), NEW entry \in [Mark -> Entries],
           \A m \in Mark : Settled(l.entry[m], entry[m])
    PROVE  Sound([l EXCEPT !.entry = entry])
<1> DEFINE n == [l EXCEPT !.entry = entry]
<1>1. /\ n \in Ledgers /\ n.moment = l.moment /\ n.status = l.status /\ n.entry = entry
      /\ n.chosen = l.chosen /\ n.made = l.made /\ n.cancelled = l.cancelled
  BY DEF Sound, Ledgers
<1>2. \A m \in Mark : /\ entry[m].wanted = l.entry[m].wanted /\ entry[m].by = l.entry[m].by
                      /\ entry[m].retracted = l.entry[m].retracted
                      /\ entry[m].due \in {0, l.entry[m].due}
  BY DEF Settled
<1> HIDE DEF n
<1>3. Dated(n)
  BY <1>1, <1>2 DEF Sound, Dated
<1>4. Named(n)
  BY <1>1, <1>2 DEF Sound, Named
<1>5. Standing(n)
  BY <1>1, <1>2 DEF Sound, Standing
<1> QED BY <1>1, <1>3, <1>4, <1>5 DEF Sound, n

(* So is one whose prepared batches were retired.                           *)
LEMMA StatusSound ==
    ASSUME NEW l, Sound(l), NEW status \in Statuses,
           \A b \in Batch : \/ status[b] = l.status[b]
                            \/ l.status[b] = "prepared" /\ status[b] = "retired"
    PROVE  Sound([l EXCEPT !.status = status])
<1> DEFINE n == [l EXCEPT !.status = status]
<1>1. /\ n \in Ledgers /\ n.moment = l.moment /\ n.status = status /\ n.entry = l.entry
      /\ n.chosen = l.chosen /\ n.made = l.made /\ n.cancelled = l.cancelled
  BY DEF Sound, Ledgers, Statuses
<1>2. \A b \in Batch : /\ status[b] # "none" <=> l.status[b] # "none"
                       /\ status[b] = "active" <=> l.status[b] = "active"
  OBVIOUS
<1> HIDE DEF n
<1>3. Dated(n)
  BY <1>1, <1>2 DEF Sound, Dated
<1>4. Named(n)
  BY <1>1, <1>2 DEF Sound, Named
<1>5. Standing(n)
  BY <1>1, <1>2 DEF Sound, Standing
<1> QED BY <1>1, <1>3, <1>4, <1>5 DEF Sound, n

LEMMA RetireSound ==
    ASSUME NEW l, Sound(l), NEW b \in Batch, l.status[b] = "prepared"
    PROVE  Sound(Retire(l, b))
<1> DEFINE status == [l.status EXCEPT ![b] = "retired"]
<1>1. l.status \in Statuses
  BY Types DEF Sound
<1>2. status \in Statuses
  BY <1>1 DEF Statuses
<1>3. \A c \in Batch : \/ status[c] = l.status[c]
                       \/ l.status[c] = "prepared" /\ status[c] = "retired"
  BY <1>1 DEF Statuses
<1>4. Retire(l, b) = [l EXCEPT !.status = status]
  BY DEF Retire, Sound, Ledgers
<1> HIDE DEF status
<1> QED BY <1>2, <1>3, <1>4, StatusSound

LEMMA RetireInterruptedSound ==
    ASSUME NEW l, Sound(l)
    PROVE  Sound(RetireInterrupted(l))
<1> DEFINE status == [b \in Batch |-> IF l.status[b] = "prepared" /\ b \notin Suppression
                                      THEN "retired" ELSE l.status[b]]
<1>1. l.status \in Statuses
  BY Types DEF Sound
<1>2. status \in Statuses
  BY <1>1 DEF Statuses
<1>3. \A c \in Batch : \/ status[c] = l.status[c]
                       \/ l.status[c] = "prepared" /\ status[c] = "retired"
  OBVIOUS
<1>4. RetireInterrupted(l) = [l EXCEPT !.status = status]
  BY DEF RetireInterrupted
<1> HIDE DEF status
<1> QED BY <1>2, <1>3, <1>4, StatusSound

(* Releasing what was on the wire is delivery's doing.                      *)
LEMMA ReleaseSound ==
    ASSUME NEW l, Sound(l)
    PROVE  Sound(Release(l))
<1> DEFINE entry == [m \in Mark |-> IF l.entry[m].sending = Nothing THEN l.entry[m]
                                    ELSE RecordUnanswered(l.entry[m])]
<1>1. ASSUME NEW m \in Mark
      PROVE  Settled(l.entry[m], entry[m])
  <2>1. l.entry[m] \in Entries
    BY Types DEF Sound
  <2>2. CASE l.entry[m].sending = Nothing
    BY <2>1, <2>2 DEF Settled
  <2>3. CASE l.entry[m].sending # Nothing
    BY <2>1, <2>3, UnansweredSettled
  <2> QED BY <2>2, <2>3
<1>2. entry \in [Mark -> Entries]
  BY <1>1 DEF Settled
<1>3. Release(l) = [l EXCEPT !.entry = entry]
  BY DEF Release
<1> HIDE DEF entry
<1> QED BY <1>1, <1>2, <1>3, SettledSound

LEMMA RecordSound ==
    ASSUME NEW l, Sound(l), NEW m \in Mark, NEW e, Settled(l.entry[m], e)
    PROVE  Sound(Record(l, m, e))
<1> DEFINE entry == [l.entry EXCEPT ![m] = e]
<1>1. l.entry \in [Mark -> Entries]
  BY Types DEF Sound
<1>2. entry \in [Mark -> Entries]
  BY <1>1 DEF Settled
<1>3. \A k \in Mark : Settled(l.entry[k], entry[k])
  BY <1>1 DEF Settled
<1>4. Record(l, m, e) = [l EXCEPT !.entry = entry]
  BY DEF Record, Sound, Ledgers
<1> HIDE DEF entry
<1> QED BY <1>2, <1>3, <1>4, SettledSound

LEMMA WriteAheadSound ==
    ASSUME NEW l, Sound(l), NEW q, q.mark \in Mark, q.action \in Action, q.due \in Nat
    PROVE  Sound(WriteAhead(l, q))
<1> DEFINE e == [l.entry[q.mark] EXCEPT !.sending = [action |-> q.action, due |-> q.due]]
<1>1. l.entry[q.mark] \in Entries
  BY Types DEF Sound
<1>2. Settled(l.entry[q.mark], e)
  BY <1>1 DEF Settled, Entries
<1>3. WriteAhead(l, q) = Record(l, q.mark, e)
  BY DEF WriteAhead, Record, Sound, Ledgers
<1> HIDE DEF e
<1> QED BY <1>2, <1>3, RecordSound

(* An act taken out of an entry leaves it owed to the others.               *)
LEMMA WithoutActEntry ==
    ASSUME NEW e \in Entries, NEW act, e.due # 0 => e.by # {}
    PROVE  /\ WithoutAct(e, act) \in Entries
           /\ WithoutAct(e, act).retracted = e.retracted
           /\ WithoutAct(e, act).by = e.by \ {act}
           /\ WithoutAct(e, act).due # 0 => WithoutAct(e, act).by # {}
           /\ WithoutAct(e, act).wanted = "present" => e.wanted = "present"
<1>1. CASE act \notin e.by
  BY <1>1 DEF WithoutAct
<1>2. CASE act \in e.by /\ e.by # {act}
  BY <1>2 DEF WithoutAct, Entries
<1> DEFINE f == [e EXCEPT !.by = {}, !.wanted = "none", !.due = 0, !.attempts = 0]
<1>0. f \in Entries
  BY DEF Entries
<1>3. CASE e.by = {act}
  <2>1. WithoutAct(e, act) = f
    BY <1>3 DEF WithoutAct
  <2>2. WithoutAct(e, act) \in Entries
    BY <1>0, <2>1
  <2>3. e.by \ {act} = {}
    BY <1>3
  <2>4. /\ WithoutAct(e, act).retracted = e.retracted /\ WithoutAct(e, act).by = {}
        /\ WithoutAct(e, act).due = 0 /\ WithoutAct(e, act).wanted = "none"
    BY <2>1 DEF Entries
  <2> QED BY <2>2, <2>3, <2>4
<1> QED BY <1>1, <1>2, <1>3

(* A cancel takes the act out of every entry that stands on it.             *)
LEMMA CancelSound ==
    ASSUME NEW l, Sound(l), LedgerConstants,
           NEW act \in l.made \cup {b \in Batch : l.status[b] # "none"}
    PROVE  Sound(Cancel(l, act))
<1> DEFINE idle == act \in Batch /\ l.status[act] = "prepared"
           cancelled == l.cancelled \cup {act}
           entry == [m \in Mark |-> IF idle THEN l.entry[m] ELSE WithoutAct(l.entry[m], act)]
           n == [l EXCEPT !.cancelled = cancelled, !.entry = entry]
<1>1. /\ l \in Ledgers /\ l.cancelled \subseteq Act /\ l.made \subseteq Retract
      /\ \A m \in Mark : l.entry[m] \in Entries
  BY Types DEF Sound
<1>2. act \in Act /\ (act \in l.made => act \notin Batch)
  BY <1>1 DEF LedgerConstants, Act
<1>3. ASSUME NEW m \in Mark
      PROVE  /\ entry[m] \in Entries /\ entry[m].retracted = l.entry[m].retracted
             /\ entry[m].by = l.entry[m].by \ {act}
             /\ entry[m].due # 0 => entry[m].by # {}
             /\ entry[m].wanted = "present" => l.entry[m].wanted = "present"
  <2>1. l.entry[m].due # 0 => l.entry[m].by # {}
    BY DEF Sound, Standing
  <2>2. CASE idle
    <3>1. act \notin l.entry[m].by
      BY <1>1, <1>2, <2>2 DEF Sound, Named, LedgerConstants
    <3>2. entry[m] = l.entry[m]
      BY <2>2
    <3> QED BY <1>1, <2>1, <3>1, <3>2
  <2>3. CASE ~idle
    <3>1. entry[m] = WithoutAct(l.entry[m], act)
      BY <2>3
    <3> QED BY <1>1, <2>1, <3>1, WithoutActEntry
  <2> QED BY <2>2, <2>3
<1>4. entry \in [Mark -> Entries] /\ cancelled \subseteq Act
  BY <1>1, <1>2, <1>3
<1>5. Cancel(l, act) = n
  BY DEF Cancel
<1> HIDE DEF entry, cancelled
<1>6. /\ n \in Ledgers /\ n.moment = l.moment /\ n.status = l.status /\ n.entry = entry
      /\ n.chosen = l.chosen /\ n.made = l.made /\ n.cancelled = cancelled
  BY <1>1, <1>4 DEF Ledgers
<1> HIDE DEF n
<1>7. Dated(n)
  BY <1>3, <1>6 DEF Sound, Dated
<1>8. Named(n)
  BY <1>3, <1>6 DEF Sound, Named, cancelled
<1>9. Standing(n)
  BY <1>3, <1>6 DEF Sound, Standing
<1> QED BY <1>5, <1>6, <1>7, <1>8, <1>9 DEF Sound

(* A retract dates its marks later than every choice.                       *)
LEMMA MakeRetractSound ==
    ASSUME NEW l, Sound(l), LedgerConstants, NEW r \in Retract, r \notin l.made,
           NEW keys \in SUBSET Mark
    PROVE  Sound(MakeRetract(l, r, keys))
<1> DEFINE moment == l.moment + 1
           made == l.made \cup {r}
           dated(m) == [l.entry[m] EXCEPT !.retracted = moment]
           entry == [m \in Mark |-> IF m \in keys THEN Wants(dated(m), "absent", r, moment)
                                    ELSE l.entry[m]]
           n == [l EXCEPT !.moment = moment, !.made = made, !.entry = entry]
<1>1. /\ l \in Ledgers /\ l.moment \in Nat /\ l.made \subseteq Retract /\ r \in Act
      /\ l.chosen \in [Batch -> Nat]
      /\ \A m \in Mark : l.entry[m] \in Entries /\ l.entry[m].retracted \in Nat
  BY Types DEF Sound, Act
<1>2. moment \in Nat /\ made \subseteq Retract
  BY <1>1
<1>3. ASSUME NEW m \in keys
      PROVE  /\ entry[m] \in Entries /\ entry[m].retracted = moment
             /\ entry[m].by # {} /\ entry[m].by \subseteq l.entry[m].by \cup {r}
             /\ entry[m].wanted = "absent"
  <2> DEFINE e == dated(m)
  <2>1. /\ e \in Entries /\ e.retracted = moment /\ e.by = l.entry[m].by
        /\ r \in Act /\ moment \in Nat
    BY <1>1, <1>2 DEF Entries
  <2>2. entry[m] = Wants(e, "absent", r, moment)
    OBVIOUS
  <2> HIDE DEF e, dated, moment, entry
  <2>3. Wants(e, "absent", r, moment) \in Entries
    BY <2>1, WantsEntry
  <2>4. Wants(e, "absent", r, moment).wanted = "absent"
    BY <2>1 DEF Wants, Entries
  <2>5. Wants(e, "absent", r, moment).retracted = moment
    BY <2>1, WantsKeeps
  <2>6. Wants(e, "absent", r, moment).by = IF e.wanted = "absent" THEN e.by \cup {r} ELSE {r}
    BY <2>1 DEF Wants, Entries
  <2>7. entry[m].by # {} /\ entry[m].by \subseteq l.entry[m].by \cup {r}
    BY <2>1, <2>2, <2>6
  <2> QED BY <2>2, <2>3, <2>4, <2>5, <2>7
<1>4. \A m \in Mark \ keys : entry[m] = l.entry[m]
  OBVIOUS
<1>5. entry \in [Mark -> Entries]
  BY <1>1, <1>3, <1>4
<1>6. MakeRetract(l, r, keys) = n
  BY DEF MakeRetract
<1> HIDE DEF entry, made
<1>7. /\ n \in Ledgers /\ n.moment = moment /\ n.status = l.status /\ n.entry = entry
      /\ n.chosen = l.chosen /\ n.made = made /\ n.cancelled = l.cancelled
  BY <1>1, <1>2, <1>5 DEF Ledgers
<1> HIDE DEF n
<1>8. Dated(n)
  BY <1>1, <1>3, <1>4, <1>7 DEF Sound, Dated
<1>9. Named(n)
  <2>1. r \notin l.cancelled
    BY <1>1 DEF Sound, Named, LedgerConstants
  <2>2. \A m \in Mark : entry[m].by \subseteq l.entry[m].by \cup {r}
    BY <1>3, <1>4
  <2> QED BY <1>7, <2>1, <2>2 DEF Sound, Named, made
<1>10. Standing(n)
  <2> SUFFICES ASSUME NEW m \in Mark
               PROVE  /\ entry[m].due # 0 => entry[m].by # {}
                      /\ entry[m].wanted = "present" =>
                            \A b \in entry[m].by :
                                /\ b \in Batch /\ m \in RefsOf[b]
                                /\ l.status[b] = "active"
                                /\ l.chosen[b] > entry[m].retracted
    BY <1>7 DEF Standing
  <2>1. CASE m \in keys
    BY <1>3, <2>1
  <2>2. CASE m \notin keys
    BY <1>4, <2>2 DEF Sound, Standing
  <2> QED BY <2>1, <2>2
<1> QED BY <1>6, <1>7, <1>8, <1>9, <1>10 DEF Sound

-----------------------------------------------------------------------------
(* No act of a surgery or an operator touches a request on the wire.        *)

SameOnWire(l, n) == \A m \in Mark : n.entry[m].sending = l.entry[m].sending

LEMMA ActsKeepTheWire ==
    ASSUME NEW l, Sound(l)
    PROVE  /\ \A b \in Batch : /\ SameOnWire(l, Prepare(l, b)) /\ SameOnWire(l, Retire(l, b))
                               /\ SameOnWire(l, Activate(l, b))
           /\ \A act : SameOnWire(l, Cancel(l, act))
           /\ \A r, keys : SameOnWire(l, MakeRetract(l, r, keys))
<1>1. l \in Ledgers /\ \A m \in Mark : l.entry[m] \in Entries
  BY Types DEF Sound
<1>2. ASSUME NEW b \in Batch
      PROVE  SameOnWire(l, Prepare(l, b)) /\ SameOnWire(l, Retire(l, b))
  BY <1>1 DEF SameOnWire, Prepare, Retire, Ledgers
<1>3. ASSUME NEW b \in Batch
      PROVE  SameOnWire(l, Activate(l, b))
  <2> SUFFICES ASSUME NEW m \in Mark
               PROVE  Activate(l, b).entry[m].sending = l.entry[m].sending
    BY DEF SameOnWire
  <2>1. \/ Activate(l, b).entry[m] = Wants(l.entry[m], "present", b, l.moment + 1)
        \/ Activate(l, b).entry[m] = l.entry[m]
    BY <1>1 DEF Activate, Ledgers
  <2> QED BY <1>1, <2>1, WantsKeeps
<1>4. ASSUME NEW act
      PROVE  SameOnWire(l, Cancel(l, act))
  <2> SUFFICES ASSUME NEW m \in Mark
               PROVE  Cancel(l, act).entry[m].sending = l.entry[m].sending
    BY DEF SameOnWire
  <2>1. \/ Cancel(l, act).entry[m] = WithoutAct(l.entry[m], act)
        \/ Cancel(l, act).entry[m] = l.entry[m]
    BY <1>1 DEF Cancel, Ledgers
  <2>2. WithoutAct(l.entry[m], act).sending = l.entry[m].sending
    BY <1>1 DEF WithoutAct, Entries
  <2> QED BY <2>1, <2>2
<1>5. ASSUME NEW r, NEW keys
      PROVE  SameOnWire(l, MakeRetract(l, r, keys))
  <2> SUFFICES ASSUME NEW m \in Mark
               PROVE  MakeRetract(l, r, keys).entry[m].sending = l.entry[m].sending
    BY DEF SameOnWire
  <2> DEFINE e == [l.entry[m] EXCEPT !.retracted = l.moment + 1]
  <2>1. \/ MakeRetract(l, r, keys).entry[m] = Wants(e, "absent", r, l.moment + 1)
        \/ MakeRetract(l, r, keys).entry[m] = l.entry[m]
    BY <1>1 DEF MakeRetract, Ledgers
  <2>2. e \in Entries /\ e.sending = l.entry[m].sending
    BY <1>1 DEF Entries, Ledgers
  <2> HIDE DEF e
  <2> QED BY <2>1, <2>2, WantsKeeps
<1> QED BY <1>2, <1>3, <1>4, <1>5

(* An owed request is for a mark with nothing on the wire.                  *)
LEMMA OwedTypes ==
    ASSUME NEW l, Sound(l), NEW q \in OwedRequests(l)
    PROVE  q \in Requests /\ l.entry[q.mark].sending = Nothing /\ q.due = l.entry[q.mark].due
<1>1. \A m \in Mark : l.entry[m].due \in Nat
  BY Types DEF Sound
<1>2. PICK m \in Mark : q = Request(l, m) /\ l.entry[m].sending = Nothing
  BY DEF OwedRequests
<1> QED BY <1>1, <1>2 DEF Request, Requests, Action

LEMMA WriteAheadOnWire ==
    ASSUME NEW l, Sound(l), NEW q \in Requests
    PROVE  WriteAhead(l, q).entry[q.mark].sending # Nothing
  BY DEF WriteAhead, Sound, Ledgers, Requests, Nothing, Action

-----------------------------------------------------------------------------
(* The inductive invariant.                                                 *)

(* A surgery is under way in a running host, its batch prepared.            *)
Hosted ==
    /\ surgery.step # "none" => Running /\ ledger.status[surgery.batch] = "prepared"
                                        /\ surgery.batch \in Batch
    /\ ~Running => pass.at = "none"

(* The pass's request is written ahead.                                     *)
WrittenAhead ==
    pass.at \in {"claimed", "sent"} =>
        pass.request \in Requests /\ ledger.entry[pass.request.mark].sending # Nothing

IInv == TypeOK /\ Sound(ledger) /\ Hosted /\ WrittenAhead

(* The first start's ledger.                                                *)
LEMMA Initially == ASSUME LedgerConstants, Init PROVE IInv
<1>1. NewLedger \in Ledgers
  BY DEF NewLedger, Ledgers, NewEntry, Entries, Nothing
<1>2. Sound(NewLedger)
  BY <1>1 DEF Sound, Dated, Named, Standing, NewLedger, NewEntry
<1>3. NoPass \in [at : {"none", "loop", "claimed", "sent"}, tried : SUBSET (Mark \X Nat),
                  request : Requests \cup {NoRequest}, landed : BOOLEAN, gone : BOOLEAN]
  BY DEF NoPass
<1>4. TypeOK
  BY <1>1, <1>3 DEF Init, TypeOK, NoSurgery
<1>5. Hosted /\ WrittenAhead
  BY DEF Init, Hosted, WrittenAhead, NoSurgery, NoPass, Running
<1> QED BY <1>2, <1>4, <1>5 DEF Init, IInv

LEMMA SurgeryTypes ==
    ASSUME TypeOK
    PROVE  /\ surgery \in [batch : Batch \cup {"none"},
                           step : {"none", "chosen", "forked", "applied", "restored"}]
           /\ NoSurgery.step = "none" /\ NoSurgery \in [batch : Batch \cup {"none"},
                           step : {"none", "chosen", "forked", "applied", "restored"}]
  BY DEF TypeOK, NoSurgery

(* The steps of a surgery.                                                  *)
LEMMA PreparesKeeps == ASSUME IInv, NEW b \in Batch, Prepares(b) PROVE IInv'
<1>1. Sound(ledger') /\ ledger' \in Ledgers
  BY PrepareSound DEF IInv, Prepares, Sound
<1>2. SameOnWire(ledger, ledger')
  BY ActsKeepTheWire DEF IInv, Prepares
<1>3. ledger'.status[b] = "prepared"
  BY DEF IInv, TypeOK, Prepares, Prepare, Ledgers
<1>4. surgery' = [batch |-> b, step |-> "chosen"]
  BY DEF Prepares
<1>5. TypeOK'
  BY <1>1, <1>4 DEF IInv, TypeOK, Prepares, delivery, discord, history
<1>6. Hosted'
  BY <1>3, <1>4 DEF IInv, Hosted, Running, Prepares, delivery
<1>7. WrittenAhead'
  BY <1>2 DEF IInv, WrittenAhead, SameOnWire, Prepares, delivery, Requests
<1> QED BY <1>1, <1>5, <1>6, <1>7 DEF IInv

LEMMA StoreStepsKeep ==
    ASSUME IInv, Forks \/ Applies \/ Restores \/ KeepsAfterFailure \/ StoreSyncs
    PROVE  IInv'
<1>1. UNCHANGED <<ledger, host, delivery, discord, history>>
  BY DEF Forks, Applies, Restores, KeepsAfterFailure, StoreSyncs
<1>2. /\ body' \in [Batch -> {"source", "fork", "cut"}]
      /\ stored' \in [Batch -> {"source", "fork", "cut"}]
  BY DEF IInv, TypeOK, Forks, Applies, Restores, KeepsAfterFailure, StoreSyncs
<1>3. surgery' \in [batch : Batch \cup {"none"},
                    step : {"none", "chosen", "forked", "applied", "restored"}]
  BY SurgeryTypes DEF IInv, Forks, Applies, Restores, KeepsAfterFailure, StoreSyncs
<1>4. TypeOK'
  BY <1>1, <1>2, <1>3 DEF IInv, TypeOK, delivery, discord, history
<1>5. surgery'.step # "none" => surgery.step # "none" /\ surgery'.batch = surgery.batch
  BY SurgeryTypes DEF IInv, At, Forks, Applies, Restores, KeepsAfterFailure, StoreSyncs
<1>6. Hosted'
  BY <1>1, <1>5 DEF IInv, Hosted, Running, delivery
<1>7. WrittenAhead'
  BY <1>1 DEF IInv, WrittenAhead, delivery
<1> QED BY <1>1, <1>4, <1>6, <1>7 DEF IInv

LEMMA SettlesSurgery ==
    ASSUME IInv, LedgerConstants, Discards \/ Activates PROVE IInv'
<1>1. /\ surgery.step # "none" /\ surgery.batch \in Batch
      /\ ledger.status[surgery.batch] = "prepared" /\ surgery' = NoSurgery
      /\ UNCHANGED <<body, host, connected, pass, joined, discord>>
  BY DEF IInv, Hosted, At, Discards, Activates, delivery
<1>2. /\ \/ ledger' = Retire(ledger, surgery.batch)
         \/ ledger' = ledger
         \/ surgery.batch \notin ledger.cancelled /\ ledger' = Activate(ledger, surgery.batch)
      /\ stored' \in {stored, body} /\ pending' \in {pending, TRUE}
  BY DEF Discards, Activates, delivery
<1>3. Sound(ledger') /\ ledger' \in Ledgers
  BY <1>1, <1>2, RetireSound, ActivateSound DEF IInv, Sound
<1>4. SameOnWire(ledger, ledger')
  BY <1>1, <1>2, ActsKeepTheWire DEF IInv, SameOnWire
<1>5. asked' \subseteq Mark /\ tries' \in [Mark -> Nat]
  BY DEF IInv, TypeOK, Discards, Activates, history, AsksFor, Fresh, Tally
<1>6. TypeOK'
  <2>1. /\ surgery' \in [batch : Batch \cup {"none"},
                        step : {"none", "chosen", "forked", "applied", "restored"}]
        /\ stored' \in [Batch -> {"source", "fork", "cut"}] /\ pending' \in BOOLEAN
    BY <1>1, <1>2, SurgeryTypes DEF IInv, TypeOK
  <2> QED BY <1>1, <1>3, <1>5, <2>1 DEF IInv, TypeOK, discord
<1>7. Hosted'
  BY <1>1, SurgeryTypes DEF IInv, Hosted, Running
<1>8. WrittenAhead'
  BY <1>1, <1>4 DEF IInv, WrittenAhead, SameOnWire, Requests
<1> QED BY <1>3, <1>6, <1>7, <1>8 DEF IInv

(* The operator's acts.                                                     *)
LEMMA CancelsKeeps == ASSUME IInv, LedgerConstants, NEW act \in Act, Cancels(act) PROVE IInv'
<1>1. /\ ledger' = Cancel(ledger, act)
      /\ act \in ledger.made \cup {b \in Batch : ledger.status[b] # "none"}
      /\ asked' \subseteq asked /\ Tally(ledger')
      /\ UNCHANGED <<work, host, delivery, discord>>
  BY DEF Cancels, Made
<1>2. Sound(ledger') /\ ledger' \in Ledgers
  BY <1>1, CancelSound DEF IInv, Sound
<1>w. SameOnWire(ledger, ledger')
  BY <1>1, ActsKeepTheWire DEF IInv
<1>s. ledger'.status = ledger.status
  BY <1>1 DEF IInv, Sound, Cancel, Ledgers
<1>3. SameOnWire(ledger, ledger') /\ ledger'.status = ledger.status
  BY <1>w, <1>s
<1>4. tries' \in [Mark -> Nat]
  BY <1>1, <1>2 DEF IInv, TypeOK, Tally, AsksFor, Fresh
<1>5. TypeOK'
  BY <1>1, <1>2, <1>4 DEF IInv, TypeOK, work, delivery, discord
<1>6. Hosted'
  BY <1>1, <1>3 DEF IInv, Hosted, Running, work, delivery
<1>7. WrittenAhead'
  BY <1>1, <1>3 DEF IInv, WrittenAhead, SameOnWire, delivery, Requests
<1> QED BY <1>2, <1>5, <1>6, <1>7 DEF IInv

LEMMA RetractsKeeps ==
    ASSUME IInv, LedgerConstants, NEW r \in Retract, NEW keys \in SUBSET Mark, Retracts(r, keys)
    PROVE  IInv'
<1>1. /\ ledger' = MakeRetract(ledger, r, keys) /\ r \notin ledger.made
      /\ pending' = TRUE /\ AsksFor(ledger')
      /\ UNCHANGED <<work, host, connected, pass, joined, discord>>
  BY DEF Retracts
<1>2. Sound(ledger') /\ ledger' \in Ledgers
  BY <1>1, MakeRetractSound DEF IInv, Sound
<1>w. SameOnWire(ledger, ledger')
  BY <1>1, ActsKeepTheWire DEF IInv
<1>s. ledger'.status = ledger.status
  BY <1>1 DEF IInv, Sound, MakeRetract, Ledgers
<1>3. SameOnWire(ledger, ledger') /\ ledger'.status = ledger.status
  BY <1>w, <1>s
<1>4. asked' \subseteq Mark /\ tries' \in [Mark -> Nat]
  BY <1>1, <1>2 DEF IInv, TypeOK, Tally, AsksFor, Fresh
<1>5. TypeOK'
  BY <1>1, <1>2, <1>4 DEF IInv, TypeOK, work, discord
<1>6. Hosted'
  BY <1>1, <1>3 DEF IInv, Hosted, Running, work
<1>7. WrittenAhead'
  BY <1>1, <1>3 DEF IInv, WrittenAhead, SameOnWire, Requests
<1> QED BY <1>2, <1>5, <1>6, <1>7 DEF IInv

(* The start.                                                               *)
LEMMA RecoversKeeps == ASSUME IInv, Recovers PROVE IInv'
<1>1. /\ ledger' = RetireInterrupted(Release(ledger)) /\ host = "down" /\ host' = "resuming"
      /\ stored' \in {stored, body} /\ Tally(ledger')
      /\ UNCHANGED <<body, surgery, delivery, discord, asked>>
  BY DEF Recovers
<1>2. Sound(ledger') /\ ledger' \in Ledgers
  BY <1>1, ReleaseSound, RetireInterruptedSound DEF IInv, Sound
<1>3. tries' \in [Mark -> Nat]
  BY <1>1, <1>2 DEF IInv, TypeOK, Tally, AsksFor, Fresh
<1>4. TypeOK'
  <2>1. stored' \in [Batch -> {"source", "fork", "cut"}]
    BY <1>1 DEF IInv, TypeOK
  <2> QED BY <1>1, <1>2, <1>3, <2>1 DEF IInv, TypeOK, delivery, discord
<1>5. surgery.step = "none" /\ pass.at = "none"
  BY <1>1 DEF IInv, Hosted, Running
<1>6. Hosted' /\ WrittenAhead'
  BY <1>1, <1>5 DEF Hosted, WrittenAhead, delivery
<1> QED BY <1>2, <1>4, <1>6 DEF IInv

LEMMA ResumesKeep ==
    ASSUME IInv, NEW b \in Batch, ResumesBody(b) \/ ResumesRecord(b) PROVE IInv'
<1>1. /\ host = "resuming" /\ ledger.status[b] = "prepared"
      /\ ledger' = ledger \/ ledger' = Retire(ledger, b)
      /\ UNCHANGED <<surgery, host, delivery, discord, history>>
  BY DEF ResumesBody, ResumesRecord, ToResume, PendingSuppression
<1>2. /\ body' \in [Batch -> {"source", "fork", "cut"}]
      /\ stored' \in [Batch -> {"source", "fork", "cut"}]
  BY DEF IInv, TypeOK, ResumesBody, ResumesRecord
<1>3. Sound(ledger') /\ ledger' \in Ledgers
  BY <1>1, RetireSound DEF IInv, Sound
<1>4. TypeOK'
  BY <1>1, <1>2, <1>3 DEF IInv, TypeOK, delivery, discord, history
<1>5. surgery.step = "none" /\ pass.at = "none"
  BY <1>1 DEF IInv, Hosted, Running
<1>6. Hosted' /\ WrittenAhead'
  BY <1>1, <1>5 DEF Hosted, WrittenAhead, delivery
<1> QED BY <1>3, <1>4, <1>6 DEF IInv

(* The process and the route.                                               *)
LEMMA HostStepsKeep ==
    ASSUME IInv, Connects \/ Stops \/ Serves PROVE IInv'
<1>1. /\ UNCHANGED <<ledger, work, pass, joined, discord, tries>> /\ asked' \subseteq asked
      /\ connected' \in BOOLEAN /\ pending' \in BOOLEAN /\ host' \in {"up", "stopping"}
  BY DEF IInv, TypeOK, Connects, Stops, Serves, work, delivery, history
<1>2. TypeOK'
  BY <1>1 DEF IInv, TypeOK, work, discord
<1>3. Hosted' /\ WrittenAhead'
  BY <1>1 DEF IInv, Hosted, WrittenAhead, Running, work
<1> QED BY <1>1, <1>2, <1>3 DEF IInv

PassTypes == [at : {"none", "loop", "claimed", "sent"}, tried : SUBSET (Mark \X Nat),
              request : Requests \cup {NoRequest}, landed : BOOLEAN, gone : BOOLEAN]

LEMMA NoPassType == NoPass \in PassTypes /\ NoPass.at = "none"
  BY DEF NoPass, PassTypes

LEMMA EndsKeeps == ASSUME IInv, Ends PROVE IInv'
<1>1. /\ UNCHANGED <<ledger, stored, there, tries>> /\ asked' = {} /\ body' = stored
      /\ surgery' = NoSurgery /\ pass' = NoPass /\ host' = "down"
      /\ joined' = FALSE /\ pending' = FALSE /\ connected' = FALSE
  BY DEF Ends
<1>2. late' \in [Mark -> SUBSET Action]
  <2>1. CASE pass.at = "sent"
    <3>1. pass.request \in Requests
      BY <2>1 DEF IInv, WrittenAhead
    <3>2. pass.request.mark \in Mark /\ pass.request.action \in Action
      BY <3>1 DEF Requests
    <3> QED BY <3>2 DEF IInv, TypeOK, Ends
  <2>2. CASE pass.at # "sent"
    BY <2>2 DEF IInv, TypeOK, Ends
  <2> QED BY <2>1, <2>2
<1>3. TypeOK'
  BY <1>1, <1>2, NoPassType, SurgeryTypes DEF IInv, TypeOK, PassTypes
<1>4. Hosted' /\ WrittenAhead'
  BY <1>1, NoPassType, SurgeryTypes DEF IInv, Hosted, WrittenAhead
<1> QED BY <1>1, <1>3, <1>4 DEF IInv

-----------------------------------------------------------------------------
(* The delivery pass: what every one of its steps leaves.                   *)

PassLeaves ==
    /\ UNCHANGED <<work, host>> /\ Sound(ledger') /\ ledger'.status = ledger.status
    /\ pass' \in PassTypes /\ (pass'.at # "none" => Running)
    /\ connected' \in BOOLEAN /\ joined' \in BOOLEAN /\ pending' \in BOOLEAN
    /\ there' \in [Mark -> BOOLEAN] /\ late' \in [Mark -> SUBSET Action]
    /\ asked' \subseteq Mark /\ tries' \in [Mark -> Nat]
    /\ WrittenAhead'

(* A step of the pass keeps the invariant.                                  *)
LEMMA PassKeeps == ASSUME IInv, PassLeaves PROVE IInv'
<1>1. TypeOK'
  BY DEF IInv, TypeOK, PassLeaves, PassTypes, Sound, work
<1>2. Hosted'
  BY DEF IInv, Hosted, PassLeaves, Running, work
<1> QED BY <1>1, <1>2 DEF IInv, PassLeaves

LEMMA PassFacts ==
    ASSUME IInv
    PROVE  /\ pass \in PassTypes /\ (pass.at # "none" => Running)
           /\ connected \in BOOLEAN /\ joined \in BOOLEAN /\ pending \in BOOLEAN
           /\ there \in [Mark -> BOOLEAN] /\ late \in [Mark -> SUBSET Action]
           /\ asked \subseteq Mark /\ tries \in [Mark -> Nat]
           /\ Sound(ledger)
  BY DEF IInv, TypeOK, Hosted, PassTypes

(* A trigger, a pass cut short, a route lost.                               *)
LEMMA DeliversLeaves == ASSUME IInv, Delivers PROVE PassLeaves
<1>1. /\ UNCHANGED <<ledger, work, host, connected, discord, tries>> /\ pending' = FALSE
      /\ joined' \in {joined, TRUE} /\ Running
      /\ pass' = pass \/ pass' = [NoPass EXCEPT !.at = "loop"]
      /\ asked' \subseteq asked \cup OwedMarks(ledger)
  BY DEF Delivers
<1>2. OwedMarks(ledger) \subseteq Mark
  BY PassFacts, OwedTypes DEF OwedMarks, Requests
<1>3. [NoPass EXCEPT !.at = "loop"] \in PassTypes /\ [NoPass EXCEPT !.at = "loop"].at = "loop"
  BY DEF NoPass, PassTypes
<1>4. WrittenAhead'
  BY <1>1, <1>3 DEF IInv, WrittenAhead
<1>5. pass' \in PassTypes /\ joined' \in BOOLEAN /\ asked' \subseteq Mark
  BY <1>1, <1>2, <1>3, PassFacts
<1> QED BY <1>1, <1>4, <1>5, PassFacts DEF PassLeaves, discord

LEMMA LateTypes ==
    ASSUME IInv, pass.at \in {"claimed", "sent"}
    PROVE  /\ pass.request \in Requests /\ pass.request.mark \in Mark
           /\ pass.request.action \in Action /\ pass.request.due \in Nat
           /\ ledger.entry[pass.request.mark] \in Entries
           /\ ledger.entry[pass.request.mark].sending # Nothing
           /\ [late EXCEPT ![pass.request.mark] = @ \cup {pass.request.action}]
                  \in [Mark -> SUBSET Action]
<1>1. pass.request \in Requests /\ ledger.entry[pass.request.mark].sending # Nothing
  BY DEF IInv, WrittenAhead
<1>2. pass.request.mark \in Mark /\ pass.request.action \in Action /\ pass.request.due \in Nat
  BY <1>1 DEF Requests
<1>3. late \in [Mark -> SUBSET Action] /\ ledger.entry \in [Mark -> Entries]
  BY PassFacts, Types DEF Sound
<1> QED BY <1>1, <1>2, <1>3

LEMMA CutShortLeaves == ASSUME IInv, PassBreaks \/ PassFails PROVE PassLeaves
<1>1. /\ UNCHANGED <<ledger, work, host, connected, there, tries>> /\ asked' = {}
      /\ pass' = NoPass /\ joined' = FALSE /\ pending' = (pending \/ (joined /\ host = "up"))
  BY DEF PassBreaks, PassFails, Leaves, discord
<1>2. late' \in [Mark -> SUBSET Action]
  <2>1. CASE late' = late
    BY <2>1, PassFacts
  <2>2. CASE late' # late
    <3>1. pass.at = "sent"
             /\ late' = [late EXCEPT ![pass.request.mark] = @ \cup {pass.request.action}]
      BY <2>2 DEF PassBreaks, PassFails, discord
    <3> QED BY <3>1, LateTypes
  <2> QED BY <2>1, <2>2
<1>3. WrittenAhead'
  BY <1>1, NoPassType DEF WrittenAhead
<1>4. pending' \in BOOLEAN
  BY <1>1, PassFacts
<1> QED BY <1>1, <1>2, <1>3, <1>4, PassFacts, NoPassType DEF PassLeaves

LEMMA DisconnectsLeaves == ASSUME IInv, Disconnects PROVE PassLeaves
<1>1. /\ UNCHANGED <<ledger, work, host, joined, pending, discord, tries>>
      /\ connected' = FALSE /\ asked' = {}
  BY DEF Disconnects
<1>2. PICK gone \in {pass.gone, pass.at # "none"} : pass' = [pass EXCEPT !.gone = gone]
  BY DEF Disconnects
<1>3. gone \in BOOLEAN
  BY <1>2, PassFacts DEF PassTypes
<1>4. pass' \in PassTypes /\ pass'.at = pass.at /\ pass'.request = pass.request
  BY <1>2, <1>3, PassFacts DEF PassTypes
<1>5. WrittenAhead'
  BY <1>1, <1>4 DEF IInv, WrittenAhead
<1> QED BY <1>1, <1>4, <1>5, PassFacts DEF PassLeaves, discord

(* The claim.                                                               *)
LEMMA TallyTypes == ASSUME IInv, Tally(ledger') PROVE tries' \in [Mark -> Nat]
  BY PassFacts DEF Tally

LEMMA WriteAheadStatus ==
    ASSUME NEW l, Sound(l), NEW q
    PROVE  WriteAhead(l, q).status = l.status /\ Release(l).status = l.status
  BY DEF WriteAhead, Release, Sound, Ledgers

LEMMA PassClaimsLeaves == ASSUME IInv, PassClaims PROVE PassLeaves
<1> DEFINE l == Release(ledger)
<1>1. Sound(ledger) /\ Sound(l)
  BY PassFacts, ReleaseSound
<1>2. PICK q \in OwedRequests(l) : ledger' = WriteAhead(l, q) /\ Goes(q)
  BY DEF PassClaims
<1>3. q \in Requests
  BY <1>1, <1>2, OwedTypes
<1>4. Sound(ledger')
  <2>1. q.mark \in Mark /\ q.action \in Action /\ q.due \in Nat
    BY <1>3 DEF Requests
  <2> HIDE DEF l
  <2>2. Sound(WriteAhead(l, q))
    BY <1>1, <2>1, WriteAheadSound
  <2> QED BY <1>2, <2>2
<1>5. ledger'.status = ledger.status
  <2>1. WriteAhead(l, q).status = l.status
    BY <1>1, WriteAheadStatus
  <2>2. l.status = ledger.status
    BY <1>1, WriteAheadStatus
  <2> QED BY <1>2, <2>1, <2>2
<1>6. ledger'.entry[q.mark].sending # Nothing
  BY <1>1, <1>2, <1>3, WriteAheadOnWire
<1> HIDE DEF l
<1>7. /\ UNCHANGED <<work, host, connected, joined, pending, discord>> /\ Tally(ledger')
      /\ host = "up"
  BY DEF PassClaims
<1>8. /\ pass' = [pass EXCEPT !.at = "claimed", !.request = q]
      /\ asked' \subseteq asked
  BY <1>2 DEF Goes
<1>9. pass' \in PassTypes /\ pass'.request = q /\ pass'.at = "claimed"
  BY <1>3, <1>8, PassFacts DEF PassTypes
<1>10. WrittenAhead'
  BY <1>3, <1>6, <1>9 DEF WrittenAhead
<1>11. tries' \in [Mark -> Nat]
  BY <1>7, TallyTypes
<1> QED BY <1>4, <1>5, <1>7, <1>8, <1>9, <1>10, <1>11, PassFacts DEF PassLeaves, discord, Running

LEMMA PassRunsOutLeaves == ASSUME IInv, PassRunsOut PROVE PassLeaves
<1>1. Sound(ledger) /\ Sound(Release(ledger))
  BY PassFacts, ReleaseSound
<1>2. /\ ledger' = Release(ledger) /\ joined' = FALSE /\ Tally(ledger')
      /\ pass' = [pass EXCEPT !.tried = {}] \/ pass' = NoPass
      /\ UNCHANGED <<work, host, connected, pending, discord, asked>>
      /\ host = "up" /\ pass.at = "loop"
  BY DEF PassRunsOut
<1>3. ledger'.status = ledger.status
  BY <1>1, <1>2, WriteAheadStatus
<1>4. pass' \in PassTypes /\ pass'.at \in {"loop", "none"}
  BY <1>2, PassFacts, NoPassType DEF PassTypes
<1>5. WrittenAhead'
  BY <1>4 DEF WrittenAhead
<1>6. tries' \in [Mark -> Nat]
  BY <1>2, TallyTypes
<1> QED BY <1>1, <1>2, <1>3, <1>4, <1>5, <1>6, PassFacts DEF PassLeaves, discord, Running

(* The request and its answer.                                              *)
LEMMA PassSendsLeaves == ASSUME IInv, PassSends PROVE PassLeaves
<1>1. /\ UNCHANGED <<ledger, work, host, connected, joined, pending, discord, asked>>
      /\ host = "up" /\ pass.at = "claimed"
      /\ pass' = [pass EXCEPT !.at = "sent", !.landed = FALSE,
                              !.tried = pass.tried \cup {Signature(pass.request)}]
  BY DEF PassSends
<1>2. Signature(pass.request) \in Mark \X Nat
  BY <1>1, LateTypes DEF Signature
<1>3. pass' \in PassTypes /\ pass'.at = "sent" /\ pass'.request = pass.request
  <2> DEFINE tried == pass.tried \cup {Signature(pass.request)}
  <2>1. tried \in SUBSET (Mark \X Nat)
    BY <1>2, PassFacts DEF PassTypes
  <2>2. pass' = [pass EXCEPT !.at = "sent", !.landed = FALSE, !.tried = tried]
    BY <1>1
  <2> HIDE DEF tried
  <2> QED BY <2>1, <2>2, PassFacts DEF PassTypes
<1>4. WrittenAhead'
  BY <1>1, <1>3, LateTypes DEF WrittenAhead
<1>5. tries' \in [Mark -> Nat]
  BY <1>1, LateTypes, PassFacts DEF PassSends
<1> QED BY <1>1, <1>3, <1>4, <1>5, PassFacts DEF PassLeaves, discord, Running

LEMMA AnswerLeaves ==
    ASSUME IInv, Running, pass.at \in {"claimed", "sent"},
           NEW entry, Settled(ledger.entry[pass.request.mark], entry),
           ledger' = Record(ledger, pass.request.mark, entry),
           UNCHANGED <<work, host, connected, joined, pending, there, asked>>,
           late' \in [Mark -> SUBSET Action], tries' \in [Mark -> Nat],
           pass' \in PassTypes, pass'.at = "loop"
    PROVE  PassLeaves
<1> DEFINE entries == [ledger.entry EXCEPT ![pass.request.mark] = entry]
<1>1. Sound(ledger) /\ ledger \in Ledgers /\ ledger.entry \in [Mark -> Entries]
  BY PassFacts, Types DEF Sound
<1>2. \A m \in Mark : Settled(ledger.entry[m], ledger.entry[m])
  BY <1>1 DEF Settled
<1>3. entries \in [Mark -> Entries] /\ \A m \in Mark : Settled(ledger.entry[m], entries[m])
  BY <1>1, <1>2 DEF Settled
<1>4. ledger' = [ledger EXCEPT !.entry = entries]
  BY <1>1 DEF Record
<1> HIDE DEF entries
<1>5. Sound(ledger')
  BY <1>1, <1>3, <1>4, SettledSound
<1>6. ledger'.status = ledger.status
  BY <1>1, <1>4 DEF Ledgers
<1>7. WrittenAhead'
  BY DEF WrittenAhead
<1> QED BY <1>5, <1>6, <1>7, PassFacts DEF PassLeaves

LEMMA AnsweredPass ==
    ASSUME IInv, pass.at \in {"claimed", "sent"}
    PROVE  /\ [pass EXCEPT !.at = "loop", !.request = NoRequest, !.landed = FALSE] \in PassTypes
           /\ [pass EXCEPT !.at = "loop", !.request = NoRequest, !.landed = FALSE].at = "loop"
           /\ \A tried \in {pass.tried, pass.tried \cup {Signature(pass.request)}} :
                 /\ [pass EXCEPT !.at = "loop", !.request = NoRequest, !.tried = tried] \in PassTypes
                 /\ [pass EXCEPT !.at = "loop", !.request = NoRequest, !.tried = tried].at = "loop"
<1>1. pass \in PassTypes
  BY PassFacts
<1>2. Signature(pass.request) \in Mark \X Nat
  BY LateTypes DEF Signature
<1>3. \A tried \in {pass.tried, pass.tried \cup {Signature(pass.request)}} :
         tried \in SUBSET (Mark \X Nat)
  BY <1>1, <1>2 DEF PassTypes
<1> QED BY <1>1, <1>3 DEF PassTypes

LEMMA PassGivesBackLeaves == ASSUME IInv, PassGivesBack PROVE PassLeaves
<1>1. /\ UNCHANGED <<work, host, connected, joined, pending, discord, history>>
      /\ Running /\ pass.at = "claimed"
      /\ ledger' = Record(ledger, pass.request.mark, RecordNotSent(Entry))
  BY DEF PassGivesBack
<1>2. PICK tried \in {pass.tried, pass.tried \cup {Signature(pass.request)}} :
         pass' = [pass EXCEPT !.at = "loop", !.request = NoRequest, !.tried = tried]
  BY DEF PassGivesBack
<1>3. pass' \in PassTypes /\ pass'.at = "loop"
  BY <1>1, <1>2, AnsweredPass
<1>4. Settled(ledger.entry[pass.request.mark], RecordNotSent(Entry))
  BY <1>1, LateTypes, NotSentSettled DEF Entry
<1>5. /\ UNCHANGED <<work, host, connected, joined, pending, there, asked>>
      /\ late' \in [Mark -> SUBSET Action] /\ tries' \in [Mark -> Nat]
  BY <1>1, PassFacts DEF discord, history
<1> QED BY <1>1, <1>3, <1>4, <1>5, AnswerLeaves

LEMMA AnswerMoves ==
    ASSUME IInv, Running, pass.at = "sent", NEW entry, Answer(entry),
           Settled(ledger.entry[pass.request.mark], entry),
           late' \in [Mark -> SUBSET Action]
    PROVE  PassLeaves
<1>1. /\ UNCHANGED <<work, host, connected, joined, pending, there, asked>>
      /\ ledger' = Record(ledger, pass.request.mark, entry) /\ Tally(ledger')
      /\ pass' = [pass EXCEPT !.at = "loop", !.request = NoRequest, !.landed = FALSE]
  BY DEF Answer
<1>2. tries' \in [Mark -> Nat]
  BY <1>1, TallyTypes
<1>3. pass' \in PassTypes /\ pass'.at = "loop"
  BY <1>1, AnsweredPass
<1> QED BY <1>1, <1>2, <1>3, AnswerLeaves

LEMMA AnswersLeave ==
    ASSUME IInv, PassConfirmed \/ PassRefused \/ PassUnanswered PROVE PassLeaves
<1>1. Running /\ pass.at = "sent"
  BY DEF PassConfirmed, PassRefused, PassUnanswered
<1>2. /\ ledger.entry[pass.request.mark] \in Entries
      /\ ledger.entry[pass.request.mark].sending # Nothing
  BY <1>1, LateTypes
<1>3. late' \in [Mark -> SUBSET Action]
  <2>1. \/ late' = late
        \/ late' = [late EXCEPT ![pass.request.mark] = @ \cup {pass.request.action}]
    BY DEF PassConfirmed, PassRefused, PassUnanswered
  <2> QED BY <1>1, <2>1, LateTypes, PassFacts
<1>4. PICK entry : Answer(entry) /\ Settled(ledger.entry[pass.request.mark], entry)
  <2>1. CASE PassConfirmed
    <3>1. Answer(RecordConfirmed(Entry))
      BY <2>1 DEF PassConfirmed
    <3>2. Settled(ledger.entry[pass.request.mark], RecordConfirmed(Entry))
      BY <1>2, ConfirmedSettled DEF Entry
    <3> QED BY <3>1, <3>2
  <2>2. CASE PassRefused
    <3>1. PICK permanent \in BOOLEAN : Answer(RecordFailed(Entry, permanent))
      BY <2>2 DEF PassRefused
    <3>2. Settled(ledger.entry[pass.request.mark], RecordFailed(Entry, permanent))
      BY <1>2, FailedSettled DEF Entry
    <3> QED BY <3>1, <3>2
  <2>3. CASE PassUnanswered
    <3>1. Answer(RecordUnanswered(Entry))
      BY <2>3 DEF PassUnanswered
    <3>2. Settled(ledger.entry[pass.request.mark], RecordUnanswered(Entry))
      BY <1>2, UnansweredSettled DEF Entry
    <3> QED BY <3>1, <3>2
  <2> QED BY <2>1, <2>2, <2>3
<1> QED BY <1>1, <1>3, <1>4, AnswerMoves

LEMMA LandsLeave ==
    ASSUME IInv, Lands \/ \E m \in Mark : LandsLate(m) PROVE PassLeaves
<1>1. CASE Lands
  <2>1. /\ UNCHANGED <<ledger, work, host, connected, joined, pending, late, history>>
        /\ pass.at = "sent" /\ pass' = [pass EXCEPT !.landed = TRUE]
        /\ there' = [there EXCEPT ![pass.request.mark] = Applied(pass.request.action)]
    BY <1>1 DEF Lands
  <2>2. pass' \in PassTypes /\ pass'.at = pass.at /\ pass'.request = pass.request
    BY <2>1, PassFacts DEF PassTypes
  <2>3. there' \in [Mark -> BOOLEAN]
    BY <2>1, PassFacts, LateTypes DEF Applied
  <2>4. WrittenAhead'
    BY <2>1, <2>2 DEF IInv, WrittenAhead
  <2> QED BY <2>1, <2>2, <2>3, <2>4, PassFacts DEF PassLeaves, history
<1>2. ASSUME NEW m \in Mark, LandsLate(m) PROVE PassLeaves
  <2>1. UNCHANGED <<ledger, work, host, connected, pass, joined, pending, late, asked, tries>>
    BY <1>2 DEF LandsLate, delivery, history
  <2>2. there' \in [Mark -> BOOLEAN]
    BY <1>2, PassFacts DEF LandsLate, Applied
  <2>3. WrittenAhead'
    BY <2>1 DEF IInv, WrittenAhead
  <2> QED BY <2>1, <2>2, <2>3, PassFacts DEF PassLeaves
<1> QED BY <1>1, <1>2

-----------------------------------------------------------------------------
(* Every step.                                                              *)

LEMMA StutterKeeps == ASSUME IInv, UNCHANGED vars PROVE IInv'
<1>1. UNCHANGED <<ledger, body, stored, surgery, host, connected, pass, joined, pending,
                  there, late, asked, tries>>
  BY DEF vars, work, delivery, discord, history
<1>2. TypeOK'
  BY <1>1 DEF IInv, TypeOK
<1>3. Hosted' /\ WrittenAhead'
  BY <1>1 DEF IInv, Hosted, WrittenAhead, Running
<1> QED BY <1>1, <1>2, <1>3 DEF IInv

(* Every step keeps the invariant.                                          *)
LEMMA Inductive == ASSUME LedgerConstants, IInv, [Next]_vars PROVE IInv'
<1>1. ASSUME NEW b \in Batch, Prepares(b) \/ ResumesBody(b) \/ ResumesRecord(b) PROVE IInv'
  BY <1>1, PreparesKeeps, ResumesKeep
<1>2. CASE Forks \/ Applies \/ Restores \/ KeepsAfterFailure \/ StoreSyncs
  BY <1>2, StoreStepsKeep
<1>3. CASE Discards \/ Activates
  BY <1>3, SettlesSurgery
<1>4. ASSUME NEW act \in Act, Cancels(act) PROVE IInv'
  BY <1>4, CancelsKeeps
<1>5. ASSUME NEW r \in Retract, RetractsAll(r) PROVE IInv'
  <2>1. Everything(ledger) \in SUBSET Mark
    BY DEF Everything
  <2> QED BY <1>5, <2>1, RetractsKeeps DEF RetractsAll
<1>6. ASSUME NEW r \in Retract, NEW b \in Batch, RetractsBatch(r, b) PROVE IInv'
  <2>1. RefsOf[b] \in SUBSET Mark
    BY DEF LedgerConstants
  <2> QED BY <1>6, <2>1, RetractsKeeps DEF RetractsBatch
<1>7. CASE \/ Delivers \/ PassBreaks \/ PassClaims \/ PassRunsOut \/ PassFails
           \/ PassSends \/ PassGivesBack \/ PassConfirmed \/ PassRefused \/ PassUnanswered
           \/ Lands \/ (\E m \in Mark : LandsLate(m)) \/ Disconnects
  <2>1. PassLeaves
    BY <1>7, DeliversLeaves, CutShortLeaves, PassClaimsLeaves, PassRunsOutLeaves,
       PassSendsLeaves, PassGivesBackLeaves, AnswersLeave, LandsLeave, DisconnectsLeaves
  <2> QED BY <2>1, PassKeeps
<1>8. CASE Connects \/ Stops \/ Serves
  BY <1>8, HostStepsKeep
<1>9. CASE Ends
  BY <1>9, EndsKeeps
<1>10. CASE Recovers
  BY <1>10, RecoversKeeps
<1>11. CASE UNCHANGED vars
  BY <1>11, StutterKeeps
<1> QED BY <1>1, <1>2, <1>3, <1>4, <1>5, <1>6, <1>7, <1>8, <1>9, <1>10, <1>11 DEF Next

(* The invariant holds of every behaviour.                                  *)
LEMMA Invariant == Spec => []IInv
<1>1. Init => IInv
  BY Initially, LedgerConstants
<1>2. IInv /\ [Next]_vars => IInv'
  BY Inductive, LedgerConstants
<1> QED BY <1>1, <1>2, PTL DEF Spec

(* The ledger, the store, the surgery and the pass keep their types: no     *)
(* act, answer, crash or start leaves an entry, a status or a request of    *)
(* another shape, whatever the marks, surgeries and retracts.               *)
THEOREM TypeCorrect == Spec => []TypeOK
<1>1. IInv => TypeOK
  BY DEF IInv
<1> QED BY <1>1, Invariant, PTL

(* The later act wins (activateIn, retract, cancel): a mark is wanted       *)
(* present only by activated batches that stand and were chosen later than  *)
(* every retract of it; what is owed is owed to an act that stands.         *)
THEOREM LaterActDecides == Spec => []LaterActWins
<1>1. IInv => LaterActWins
  BY DEF IInv, Sound, Named, Standing, LaterActWins
<1> QED BY <1>1, Invariant, PTL

-----------------------------------------------------------------------------
(***************************************************************************)
(* What delivery keeps: the ledger is never ahead of the store, every      *)
(* request that may still land is on record, no mark is tried more often   *)
(* than the code allows, and no trigger is lost between two passes.        *)
(*                                                                         *)
(* Each needs to know what the pass's own request is: a request written    *)
(* ahead but not yet sent has no effect to account for (Recorded, Counted) *)
(* and one on the wire is exactly the one the entry says (OnWire).         *)
(***************************************************************************)
-----------------------------------------------------------------------------
(* What each outcome makes of an entry.                                     *)

OnTheWire(e) == IF e.sending # Nothing /\ e.sending.due = e.due THEN 1 ELSE 0

(* An attempt is over: nothing is on the wire, and what is still owed has   *)
(* had it counted.                                                          *)
Spent(e, f) ==
    /\ f.sending = Nothing
    /\ \/ f.due = 0
       \/ /\ f.due = e.due /\ f.attempts = e.attempts + OnTheWire(e)
          /\ e.attempts < MaxAttempts => f.attempts < MaxAttempts

(* An attempt counted for what the entry is owed now, or for nothing.       *)
Counts(e, due, f) ==
    /\ f.sending = e.sending /\ f.confirmed = e.confirmed /\ f.mayLand = e.mayLand
    /\ due # e.due => f = e
    /\ due = e.due =>
          \/ f.due = 0
          \/ f.due = e.due /\ f.attempts = e.attempts + 1 /\ f.attempts < MaxAttempts

LEMMA CountFields ==
    ASSUME NEW e \in Entries, NEW due, NEW permanent \in BOOLEAN
    PROVE  Counts(e, due, CountAttempt(e, due, permanent))
<1> DEFINE f == CountAttempt(e, due, permanent)
<1>0. e.attempts \in Nat /\ MaxAttempts \in Nat
  BY LedgerConstants DEF Entries
<1>1. CASE due # e.due
  BY <1>1 DEF CountAttempt, Counts
<1>2. CASE due = e.due
  <2> DEFINE n == e.attempts + 1
             d == IF permanent \/ n >= MaxAttempts THEN 0 ELSE e.due
  <2>1. f = [e EXCEPT !.attempts = n, !.due = d]
    BY <1>2 DEF CountAttempt
  <2>2. d = 0 \/ (d = e.due /\ n < MaxAttempts)
    BY <1>0
  <2> HIDE DEF n, d, f
  <2>3. f.attempts = n /\ f.due = d /\ f.sending = e.sending /\ f.confirmed = e.confirmed
        /\ f.mayLand = e.mayLand
    BY <2>1 DEF Entries
  <2> QED BY <1>2, <2>2, <2>3 DEF n, f, Counts
<1> QED BY <1>1, <1>2

(* A request nobody answered may still land, and counts.                    *)
LEMMA UnansweredFields ==
    ASSUME NEW e \in Entries, e.sending # Nothing
    PROVE  /\ Spent(e, RecordUnanswered(e))
           /\ RecordUnanswered(e).confirmed = "unknown"
           /\ RecordUnanswered(e).mayLand = e.mayLand \cup {e.sending.action}
<1> DEFINE f == RecordUnanswered(e)
           g == [e EXCEPT !.sending = Nothing, !.confirmed = "unknown",
                          !.mayLand = e.mayLand \cup {e.sending.action}]
<1>1. e.sending.action \in Action /\ e.sending.due \in Nat
  BY DEF Entries
<1>2. /\ g \in Entries /\ g.sending = Nothing /\ g.confirmed = "unknown"
      /\ g.mayLand = e.mayLand \cup {e.sending.action}
      /\ g.due = e.due /\ g.attempts = e.attempts
  BY <1>1 DEF Entries
<1>3. f = CountAttempt(g, e.sending.due, FALSE)
  BY DEF RecordUnanswered
<1> HIDE DEF g, f
<1>4. Counts(g, e.sending.due, f)
  BY <1>2, <1>3, CountFields
<1>5. e.attempts \in Nat
  BY DEF Entries
<1> QED BY <1>2, <1>4, <1>5 DEF Spent, OnTheWire, Counts, f

(* A refused request never lands, and counts.                               *)
LEMMA FailedFields ==
    ASSUME NEW e \in Entries, e.sending # Nothing, NEW permanent \in BOOLEAN
    PROVE  /\ Spent(e, RecordFailed(e, permanent))
           /\ RecordFailed(e, permanent).confirmed = e.confirmed
           /\ RecordFailed(e, permanent).mayLand = e.mayLand
<1> DEFINE f == RecordFailed(e, permanent)
           g == RecordNotSent(e)
<1>1. /\ g \in Entries /\ g.sending = Nothing /\ g.confirmed = e.confirmed
      /\ g.mayLand = e.mayLand /\ g.due = e.due /\ g.attempts = e.attempts
  BY DEF RecordNotSent, Entries
<1>2. f = CountAttempt(g, e.sending.due, permanent)
  BY DEF RecordFailed
<1> HIDE DEF g, f
<1>3. Counts(g, e.sending.due, f)
  BY <1>1, <1>2, CountFields
<1>4. e.attempts \in Nat
  BY DEF Entries
<1> QED BY <1>1, <1>3, <1>4 DEF Spent, OnTheWire, Counts, f

(* A confirmed one settles what it was sent for.                            *)
LEMMA ConfirmedFields ==
    ASSUME NEW e \in Entries, e.sending # Nothing
    PROVE  /\ Spent(e, RecordConfirmed(e))
           /\ RecordConfirmed(e).confirmed = Answered(e.sending.action)
           /\ RecordConfirmed(e).mayLand = e.mayLand
<1> DEFINE f == RecordConfirmed(e)
           d == IF e.sending.due = e.due THEN 0 ELSE e.due
           a == IF e.sending.due = e.due THEN 0 ELSE e.attempts
           c == Answered(e.sending.action)
<1>1. f = [e EXCEPT !.sending = Nothing, !.confirmed = c, !.due = d, !.attempts = a]
  BY DEF RecordConfirmed
<1>2. e.attempts \in Nat
  BY DEF Entries
<1>3. d = 0 \/ (d = e.due /\ a = e.attempts + OnTheWire(e))
  BY <1>2 DEF OnTheWire
<1>4. (e.attempts < MaxAttempts /\ d # 0) => a < MaxAttempts
  OBVIOUS
<1> HIDE DEF d, a, c, f
<1>5. /\ f.sending = Nothing /\ f.confirmed = c /\ f.due = d /\ f.attempts = a
      /\ f.mayLand = e.mayLand
  BY <1>1 DEF Entries
<1> QED BY <1>3, <1>4, <1>5 DEF Spent, c, f

(* Releasing an entry is recording that its request went unanswered.        *)
Released(e, f) ==
    IF e.sending = Nothing THEN f = e
    ELSE /\ Spent(e, f)
         /\ f.confirmed = "unknown" /\ f.mayLand = e.mayLand \cup {e.sending.action}

LEMMA ReleaseFields ==
    ASSUME NEW l, Sound(l)
    PROVE  /\ \A m \in Mark : Released(l.entry[m], Release(l).entry[m])
           /\ Release(l).moment = l.moment
<1>1. l \in Ledgers /\ \A m \in Mark : l.entry[m] \in Entries
  BY Types DEF Sound
<1>2. ASSUME NEW m \in Mark PROVE Released(l.entry[m], Release(l).entry[m])
  <2>1. Release(l).entry[m] = IF l.entry[m].sending = Nothing THEN l.entry[m]
                              ELSE RecordUnanswered(l.entry[m])
    BY <1>1 DEF Release, Ledgers
  <2> QED BY <1>1, <2>1, UnansweredFields DEF Released
<1>3. Release(l).moment = l.moment
  BY <1>1 DEF Release, Ledgers
<1> QED BY <1>2, <1>3

-----------------------------------------------------------------------------
(* What the invariant says.                                                 *)

Claimed(m) == pass.at \in {"claimed", "sent"} /\ pass.request.mark = m
Landed(m) == pass.at = "sent" /\ pass.request.mark = m /\ pass.landed

(* The pass's request is the one its mark's entry says is on the wire.      *)
OnWire ==
    pass.at \in {"claimed", "sent"} =>
        /\ pass.request.due # 0
        /\ ledger.entry[pass.request.mark].sending =
              [action |-> pass.request.action, due |-> pass.request.due]

(* What is owed, or was tried, was decided by now.                          *)
Past ==
    /\ \A m \in Mark : ledger.entry[m].due <= ledger.moment
    /\ pass.at \in {"claimed", "sent"} => pass.request.due <= ledger.moment
    /\ \A s \in pass.tried : s[2] <= ledger.moment

(* The store stands where an active batch left it, and a suppression is not *)
(* left half made, in memory as on disk: a restart returns to the disk's.   *)
BatchInStore(b) ==
    /\ ledger.status[b] = "active" => stored[b] = "cut" /\ body[b] = "cut"
    /\ ledger.status[b] = "retired" /\ b \in Suppression => stored[b] # "fork" /\ body[b] # "fork"

InStore ==
    /\ \A b \in Batch : BatchInStore(b)
    /\ surgery.step = "applied" => body[surgery.batch] = "cut"
    /\ surgery.step = "restored" => body[surgery.batch] = "source"

(* The attempts of a mark still owed are counted but for the request on the *)
(* wire, which a claim not yet sent is not.                                 *)
MarkCounted(m) ==
    LET e == ledger.entry[m] IN
    /\ e.due = 0 => tries[m] = 0
    /\ e.due # 0 => e.attempts < MaxAttempts /\ tries[m] <= e.attempts + OnTheWire(e)
    /\ pass.at = "claimed" /\ pass.request.mark = m =>
          tries[m] <= e.attempts \/ e.due # pass.request.due

Counted == \A m \in Mark : MarkCounted(m)

(* A request that may land unaccounted for is on record.  The pass's own    *)
(* may until it is answered, but has had no effect before it lands.         *)
MayHaveLanded(m) ==
    ledger.entry[m].mayLand \cup
        (IF Claimed(m) /\ ~Landed(m) THEN {} ELSE {ledger.entry[m].sending.action})

MarkRecorded(m) ==
    LET e == ledger.entry[m] IN
    /\ late[m] \subseteq e.mayLand \cup (IF Claimed(m) THEN {} ELSE {e.sending.action})
    /\ e.confirmed = "present" /\ "remove" \notin MayHaveLanded(m) => there[m]
    /\ e.confirmed \in {"absent", "none"} /\ "add" \notin MayHaveLanded(m) => ~there[m]
    /\ Landed(m) =>
          /\ pass.request.action = "add" /\ "remove" \notin e.mayLand => there[m]
          /\ pass.request.action = "remove" /\ "add" \notin e.mayLand => ~there[m]

Recorded == \A m \in Mark : MarkRecorded(m)

(* What was asked of the pass under way it has not tried, unless a trigger  *)
(* joined it, for which it tries everything once more.                      *)
Untried ==
    pass.at # "none" /\ ~joined =>
        \A m \in asked :
            \/ ledger.entry[m].due = 0
            \/ /\ <<m, ledger.entry[m].due>> \notin pass.tried
               /\ Claimed(m) => ledger.entry[m].due # pass.request.due

DInv ==
    /\ IInv
    /\ OnWire /\ Past
    /\ InStore
    /\ Counted
    /\ Recorded
    /\ Untried /\ AskedIsServed

LEMMA Known ==
    ASSUME IInv
    PROVE  /\ Sound(ledger) /\ ledger \in Ledgers /\ ledger.moment \in Nat
           /\ \A m \in Mark : /\ ledger.entry[m] \in Entries /\ ledger.entry[m].due \in Nat
                              /\ ledger.entry[m].attempts \in Nat
           /\ ledger.status \in Statuses
           /\ pass \in PassTypes /\ (pass.at # "none" => Running)
           /\ pass.at \in {"claimed", "sent"} =>
                 /\ pass.request \in Requests /\ pass.request.mark \in Mark
                 /\ pass.request.action \in Action /\ pass.request.due \in Nat
           /\ \A s \in pass.tried : s \in Mark \X Nat /\ s[2] \in Nat
           /\ there \in [Mark -> BOOLEAN] /\ late \in [Mark -> SUBSET Action]
           /\ asked \subseteq Mark /\ tries \in [Mark -> Nat]
<1>1. Sound(ledger) /\ ledger \in Ledgers
  BY DEF IInv, Sound
<1>2. \A m \in Mark : ledger.entry[m] \in Entries /\ ledger.entry[m].due \in Nat
  BY <1>1, Types
<1>3. \A m \in Mark : ledger.entry[m].attempts \in Nat
  BY <1>2 DEF Entries
<1>4. \A s \in pass.tried : s \in Mark \X Nat /\ s[2] \in Nat
  BY PassFacts DEF PassTypes
<1> QED BY <1>1, <1>2, <1>3, <1>4, Types, PassFacts, LateTypes

-----------------------------------------------------------------------------
(* The acts: what surgeries, retracts and cancels leave of an entry.        *)

Decided(e, f, moment) ==
    /\ f.sending = e.sending /\ f.confirmed = e.confirmed /\ f.mayLand = e.mayLand
    /\ \/ f.due = e.due /\ f.attempts = e.attempts
       \/ f.due = 0
       \/ f.due = moment /\ f.attempts = 0

(* An act is at a moment later than all before.                             *)
Acts ==
    /\ UNCHANGED <<host, connected, pass, joined, discord>>
    /\ ledger'.moment \in {ledger.moment, ledger.moment + 1}
    /\ \A m \in Mark : Decided(ledger.entry[m], ledger'.entry[m], ledger.moment + 1)
    /\ \A m \in Mark : ledger'.entry[m].due # ledger.entry[m].due =>
          ledger'.entry[m].due = 0 \/ ledger'.moment = ledger.moment + 1
    /\ Tally(ledger')
    /\ \/ pending' = TRUE /\ asked' = asked \cup Fresh(ledger')
       \/ pending' = pending /\ asked' \subseteq asked /\ OwedMarks(ledger') \subseteq OwedMarks(ledger)

LEMMA WantsDecides ==
    ASSUME NEW e \in Entries, NEW wish, NEW act, NEW moment
    PROVE  Decided(e, Wants(e, wish, act, moment), moment)
  BY DEF Wants, Entries, Decided

LEMMA WithoutDecides ==
    ASSUME NEW e \in Entries, NEW act, NEW moment
    PROVE  /\ Decided(e, WithoutAct(e, act), moment)
           /\ WithoutAct(e, act).due \in {0, e.due}
           /\ WithoutAct(e, act).due # 0 => WithoutAct(e, act).wanted = e.wanted
  BY DEF WithoutAct, Entries, Decided

(* A mark is owed a request if its entry says so.                           *)
LEMMA OwedMark ==
    ASSUME NEW l, NEW m
    PROVE  m \in OwedMarks(l) <=> /\ m \in Mark /\ l.entry[m].due # 0
                                  /\ l.entry[m].sending = Nothing /\ l.entry[m].wanted # "none"
<1> DEFINE owed == {k \in Mark : /\ l.entry[k].due # 0
                                 /\ l.entry[k].sending = Nothing
                                 /\ l.entry[k].wanted # "none"}
<1>1. \A k : Request(l, k).mark = k
  BY DEF Request
<1>2. OwedRequests(l) = {Request(l, k) : k \in owed}
  BY DEF OwedRequests
<1>3. m \in OwedMarks(l) <=> m \in owed
  <2> HIDE DEF owed
  <2> QED BY <1>1, <1>2 DEF OwedMarks
<1> QED BY <1>3

LEMMA SameTally ==
    ASSUME IInv, UNCHANGED tries, \A m \in Mark : ledger'.entry[m] = ledger.entry[m]
    PROVE  Tally(ledger')
<1>1. tries' = [m \in Mark |-> tries[m]]
  BY Known
<1> QED BY <1>1 DEF Tally

(* A step that leaves the entries is an act that decides nothing.           *)
LEMMA EntriesKept ==
    ASSUME IInv, UNCHANGED <<host, connected, pass, joined, discord, tries>>,
           ledger'.moment \in {ledger.moment, ledger.moment + 1},
           ledger'.entry = ledger.entry,
           \/ pending' = TRUE /\ asked' = asked \cup Fresh(ledger')
           \/ pending' = pending /\ asked' = asked
    PROVE  Acts
<1>1. Tally(ledger')
  BY SameTally
<1>2. \A m \in Mark : Decided(ledger.entry[m], ledger'.entry[m], ledger.moment + 1)
  BY DEF Decided
<1>3. OwedMarks(ledger') \subseteq OwedMarks(ledger)
  BY OwedMark
<1> QED BY <1>1, <1>2, <1>3 DEF Acts

LEMMA PreparesActs == ASSUME IInv, NEW b \in Batch, Prepares(b) PROVE Acts
<1>1. /\ UNCHANGED <<host, connected, pass, joined, pending, discord, asked, tries>>
      /\ ledger' = Prepare(ledger, b)
  BY DEF Prepares, delivery, history
<1>2. ledger'.moment = ledger.moment + 1 /\ ledger'.entry = ledger.entry
  BY <1>1, Known DEF Prepare, Ledgers
<1> QED BY <1>1, <1>2, EntriesKept

LEMMA RetireFields ==
    ASSUME IInv, NEW b
    PROVE  Retire(ledger, b).entry = ledger.entry /\ Retire(ledger, b).moment = ledger.moment
  BY Known DEF Retire, Ledgers

LEMMA ResumesRecordActs == ASSUME IInv, NEW b \in Batch, ResumesRecord(b) PROVE Acts
<1>1. /\ UNCHANGED <<host, connected, pass, joined, pending, discord, asked, tries>>
      /\ ledger' = Retire(ledger, b)
  BY DEF ResumesRecord, delivery, history
<1> QED BY <1>1, RetireFields, EntriesKept

LEMMA DiscardsActs == ASSUME IInv, Discards PROVE Acts
<1>1. /\ UNCHANGED <<host, connected, pass, joined, pending, discord, asked, tries>>
      /\ ledger' = ledger \/ ledger' = Retire(ledger, surgery.batch)
  BY DEF Discards, delivery, history
<1>2. ledger'.entry = ledger.entry /\ ledger'.moment = ledger.moment
  BY <1>1, RetireFields
<1> QED BY <1>1, <1>2, EntriesKept

(* The entries of an act that writes what it wants of some marks.           *)
LEMMA WantsActs ==
    ASSUME IInv, UNCHANGED <<host, connected, pass, joined, discord>>,
           pending' = TRUE, AsksFor(ledger'), ledger'.moment = ledger.moment + 1,
           \A m \in Mark : Decided(ledger.entry[m], ledger'.entry[m], ledger.moment + 1)
    PROVE  Acts
  BY DEF Acts, AsksFor

LEMMA ActivatesActs == ASSUME IInv, Activates PROVE Acts
<1>1. /\ UNCHANGED <<host, connected, pass, joined, discord>> /\ pending' = TRUE
      /\ AsksFor(ledger')
      /\ \/ ledger' = Activate(ledger, surgery.batch)
         \/ ledger' = Retire(ledger, surgery.batch)
         \/ ledger' = ledger
  BY DEF Activates
<1>2. CASE ledger' = Activate(ledger, surgery.batch)
  <2> DEFINE b == surgery.batch
  <2>1. ledger'.moment = ledger.moment + 1
    BY <1>2, Known DEF Activate, Ledgers
  <2>2. ASSUME NEW m \in Mark
        PROVE  Decided(ledger.entry[m], ledger'.entry[m], ledger.moment + 1)
    <3>1. \/ ledger'.entry[m] = Wants(ledger.entry[m], "present", b, ledger.moment + 1)
          \/ ledger'.entry[m] = ledger.entry[m]
      BY <1>2, Known DEF Activate, Ledgers
    <3>2. Decided(ledger.entry[m], ledger.entry[m], ledger.moment + 1)
      BY DEF Decided
    <3> QED BY <3>1, <3>2, Known, WantsDecides
  <2> QED BY <1>1, <2>1, <2>2, WantsActs
<1>3. CASE ledger' = ledger \/ ledger' = Retire(ledger, surgery.batch)
  <2>1. ledger'.entry = ledger.entry /\ ledger'.moment = ledger.moment
    BY <1>3, RetireFields
  <2>2. \A m \in Mark : Decided(ledger.entry[m], ledger'.entry[m], ledger.moment + 1)
    BY <2>1 DEF Decided
  <2> QED BY <1>1, <2>1, <2>2 DEF Acts, AsksFor
<1> QED BY <1>1, <1>2, <1>3

LEMMA RetractsActs ==
    ASSUME IInv, NEW r \in Retract, NEW keys \in SUBSET Mark, Retracts(r, keys) PROVE Acts
<1>1. /\ UNCHANGED <<host, connected, pass, joined, discord>> /\ pending' = TRUE
      /\ AsksFor(ledger') /\ ledger' = MakeRetract(ledger, r, keys)
  BY DEF Retracts
<1>2. ledger'.moment = ledger.moment + 1
  BY <1>1, Known DEF MakeRetract, Ledgers
<1>3. ASSUME NEW m \in Mark
      PROVE  Decided(ledger.entry[m], ledger'.entry[m], ledger.moment + 1)
  <2> DEFINE e == ledger.entry[m]
             d == [ledger.entry[m] EXCEPT !.retracted = ledger.moment + 1]
  <2>1. \/ ledger'.entry[m] = Wants(d, "absent", r, ledger.moment + 1)
        \/ ledger'.entry[m] = e
    BY <1>1, Known DEF MakeRetract, Ledgers
  <2>2. d \in Entries /\ d.sending = e.sending /\ d.confirmed = e.confirmed
        /\ d.mayLand = e.mayLand /\ d.due = e.due /\ d.attempts = e.attempts
    BY Known DEF Entries
  <2>3. Decided(e, e, ledger.moment + 1)
    BY DEF Decided
  <2> HIDE DEF d
  <2>4. Decided(d, Wants(d, "absent", r, ledger.moment + 1), ledger.moment + 1)
    BY <2>2, WantsDecides
  <2> QED BY <2>1, <2>2, <2>3, <2>4 DEF Decided
<1> QED BY <1>1, <1>2, <1>3, WantsActs

LEMMA CancelsActs == ASSUME IInv, NEW act \in Act, Cancels(act) PROVE Acts
<1>1. /\ UNCHANGED <<host, connected, pass, joined, pending, discord>>
      /\ ledger' = Cancel(ledger, act) /\ Tally(ledger') /\ asked' \subseteq asked
  BY DEF Cancels, delivery
<1>2. ledger'.moment = ledger.moment
  BY <1>1, Known DEF Cancel, Ledgers
<1>3. ASSUME NEW m \in Mark
      PROVE  /\ Decided(ledger.entry[m], ledger'.entry[m], ledger.moment + 1)
             /\ ledger'.entry[m].due \in {0, ledger.entry[m].due}
             /\ ledger'.entry[m].due # 0 => ledger'.entry[m].wanted = ledger.entry[m].wanted
  <2>1. \/ ledger'.entry[m] = WithoutAct(ledger.entry[m], act)
        \/ ledger'.entry[m] = ledger.entry[m]
    BY <1>1, Known DEF Cancel, Ledgers
  <2>2. Decided(ledger.entry[m], ledger.entry[m], ledger.moment + 1)
    BY DEF Decided
  <2> DEFINE w == WithoutAct(ledger.entry[m], act)
  <2>3. /\ Decided(ledger.entry[m], w, ledger.moment + 1)
        /\ w.due \in {0, ledger.entry[m].due}
        /\ w.due # 0 => w.wanted = ledger.entry[m].wanted
    BY Known, WithoutDecides
  <2> HIDE DEF w
  <2> QED BY <2>1, <2>2, <2>3 DEF w
<1>4. OwedMarks(ledger') \subseteq OwedMarks(ledger)
  BY <1>3, OwedMark DEF Decided
<1> QED BY <1>1, <1>2, <1>3, <1>4 DEF Acts

-----------------------------------------------------------------------------
(* An act keeps what delivery relies on.                                    *)

LEMMA ActsPast == ASSUME DInv, Acts PROVE OnWire' /\ Past'
<1>1. OnWire'
  BY Known DEF DInv, OnWire, Acts, Decided
<1>2. \A m \in Mark : ledger'.entry[m].due <= ledger'.moment
  BY Known DEF DInv, Past, Acts, Decided
<1>3. /\ pass'.at \in {"claimed", "sent"} => pass'.request.due <= ledger'.moment
      /\ \A s \in pass'.tried : s[2] <= ledger'.moment
  BY Known DEF DInv, Past, Acts
<1> QED BY <1>1, <1>2, <1>3 DEF Past

LEMMA ActsCounted == ASSUME DInv, Acts PROVE Counted'
<1> SUFFICES ASSUME NEW m \in Mark PROVE MarkCounted(m)'
  BY DEF Counted
<1> DEFINE e == ledger.entry[m]
           f == ledger'.entry[m]
<1>1. MarkCounted(m) /\ MaxAttempts \in Nat \ {0} /\ e.due <= ledger.moment
  BY LedgerConstants DEF DInv, Counted, Past
<1>2. /\ pass' = pass /\ Decided(e, f, ledger.moment + 1)
      /\ tries'[m] = IF f.due = e.due THEN tries[m] ELSE 0
  BY DEF Acts, Tally
<1>3. e.due \in Nat /\ ledger.moment \in Nat /\ tries[m] \in Nat /\ e.attempts \in Nat
  BY Known DEF DInv
<1>4. CASE f.due = e.due
  <2>1. f.attempts = e.attempts \/ f.due = 0
    BY <1>1, <1>2, <1>3, <1>4 DEF Decided
  <2>2. f.sending = e.sending
    BY <1>2 DEF Decided
  <2>3. pass.at = "claimed" /\ pass.request.mark = m => pass.request.due # 0
    BY DEF DInv, OnWire
  <2> HIDE DEF e, f
  <2>4. OnTheWire(f) = OnTheWire(e)
    BY <1>4, <2>2 DEF OnTheWire
  <2> QED BY <1>1, <1>2, <1>3, <1>4, <2>1, <2>3, <2>4 DEF MarkCounted, e, f
<1>5. CASE f.due # e.due
  <2>1. tries'[m] = 0 /\ (f.due # 0 => f.attempts = 0)
    BY <1>2, <1>5 DEF Decided
  <2>2. OnTheWire(f) \in Nat
    BY DEF OnTheWire
  <2>3. pass.at = "claimed" /\ pass.request.mark = m => pass.request.due # 0
    BY DEF DInv, OnWire
  <2> HIDE DEF e, f
  <2> QED BY <1>1, <1>2, <1>3, <2>1, <2>2, <2>3 DEF MarkCounted, e, f
<1> QED BY <1>4, <1>5

LEMMA ActsRecorded == ASSUME DInv, Acts PROVE Recorded'
  BY DEF DInv, Recorded, MarkRecorded, MayHaveLanded, Claimed, Landed, Acts, Decided, discord

LEMMA ActsUntried == ASSUME DInv, Acts PROVE Untried' /\ AskedIsServed'
<1>1. Untried'
  <2> SUFFICES ASSUME pass.at # "none", ~joined, NEW m \in asked',
                      ledger'.entry[m].due # 0
               PROVE  /\ <<m, ledger'.entry[m].due>> \notin pass.tried
                      /\ Claimed(m) => ledger'.entry[m].due # pass.request.due
    BY DEF Untried, Acts, Claimed
  <2>1. m \in Mark /\ (m \in asked \/ ledger'.entry[m].due # ledger.entry[m].due)
    BY Known DEF DInv, Acts, Fresh
  <2>2. CASE ledger'.entry[m].due = ledger.entry[m].due
    BY <2>1, <2>2 DEF DInv, Untried
  <2>3. CASE ledger'.entry[m].due # ledger.entry[m].due
    <3>1. ledger'.entry[m].due = ledger.moment + 1
      BY <2>1, <2>3 DEF Acts, Decided
    <3>2. \A s \in pass.tried : s[2] # ledger.moment + 1
      BY Known DEF DInv, Past
    <3>3. Claimed(m) => pass.request.due # ledger.moment + 1
      BY Known DEF DInv, Past, Claimed
    <3> QED BY <3>1, <3>2, <3>3
  <2> QED BY <2>2, <2>3
<1>2. AskedIsServed'
  BY DEF DInv, AskedIsServed, Acts
<1> QED BY <1>1, <1>2

-----------------------------------------------------------------------------
(* The pass: what each of its steps leaves of what delivery relies on.      *)

(* Releases leave what is on record, and count what was on the wire.        *)
LEMMA ReleasedCounts ==
    ASSUME DInv, NEW m \in Mark, NEW f, Released(ledger.entry[m], f), ~Claimed(m),
           tries'[m] = IF f.due = ledger.entry[m].due THEN tries[m] ELSE 0
    PROVE  /\ f.sending = Nothing
           /\ f.due \in {0, ledger.entry[m].due}
           /\ f.due = 0 => tries'[m] = 0
           /\ f.due # 0 => f.attempts < MaxAttempts /\ tries'[m] <= f.attempts
<1> DEFINE e == ledger.entry[m]
<1>1. MarkCounted(m)
  BY DEF DInv, Counted
<1>2. e.due \in Nat /\ tries[m] \in Nat /\ e.attempts \in Nat
  BY Known DEF DInv
<1> HIDE DEF e
<1>3. CASE e.sending = Nothing
  BY <1>1, <1>2, <1>3 DEF Released, MarkCounted, OnTheWire, e
<1>4. CASE e.sending # Nothing
  BY <1>1, <1>2, <1>4 DEF Released, Spent, MarkCounted, e
<1> QED BY <1>3, <1>4

LEMMA ReleasedRecords ==
    ASSUME DInv, NEW m \in Mark, NEW f, Released(ledger.entry[m], f), ~Claimed(m)
    PROVE  /\ late[m] \subseteq f.mayLand
           /\ f.confirmed = "present" /\ "remove" \notin f.mayLand => there[m]
           /\ f.confirmed \in {"absent", "none"} /\ "add" \notin f.mayLand => ~there[m]
<1> DEFINE e == ledger.entry[m]
<1>1. MarkRecorded(m) /\ late[m] \subseteq Action
  BY Known DEF DInv, Recorded
<1>2. CASE e.sending = Nothing
  BY <1>1, <1>2 DEF Released, MarkRecorded, MayHaveLanded, Landed, Claimed, Nothing, Action
<1>3. CASE e.sending # Nothing
  BY <1>1, <1>3 DEF Released, MarkRecorded
<1> QED BY <1>2, <1>3

(* A loop has nothing claimed: its ledger released, the mark it claims is   *)
(* on the wire.                                                             *)
LEMMA PassClaimsKeeps == ASSUME DInv, PassClaims
    PROVE OnWire' /\ Past' /\ Counted' /\ Recorded' /\ Untried' /\ AskedIsServed'
<1> DEFINE l == Release(ledger)
<1>1. Sound(ledger) /\ Sound(l) /\ pass \in PassTypes /\ ~\E m \in Mark : Claimed(m)
  BY Known, ReleaseSound DEF DInv, PassClaims, Claimed
<1>2. PICK q \in OwedRequests(l) :
         /\ Signature(q) \notin pass.tried
         /\ ledger' = WriteAhead(l, q) /\ Goes(q)
  BY DEF PassClaims
<1>3. /\ UNCHANGED <<work, host, connected, joined, pending, there, late>>
      /\ Tally(ledger') /\ host = "up" /\ pass.at = "loop"
  BY DEF PassClaims, discord
<1>4. /\ q \in Requests /\ q.mark \in Mark /\ q.due \in Nat /\ q.due # 0
      /\ l.entry[q.mark].sending = Nothing /\ q.due = l.entry[q.mark].due
  <2>1. q \in Requests /\ l.entry[q.mark].sending = Nothing /\ q.due = l.entry[q.mark].due
    BY <1>1, <1>2, OwedTypes
  <2>2. q.mark \in OwedMarks(l)
    BY <1>2 DEF OwedMarks
  <2> QED BY <2>1, <2>2, OwedMark DEF Requests
<1>5. /\ pass'.at = "claimed" /\ pass'.request = q /\ pass'.tried = pass.tried
      /\ asked' = asked \ {q.mark}
  BY <1>1, <1>2 DEF Goes, PassTypes
<1>6. \A m \in Mark : /\ Released(ledger.entry[m], l.entry[m])
                      /\ l.entry[m] \in Entries
  BY <1>1, ReleaseFields, Types DEF Sound
<1>7. l.moment = ledger.moment
  BY <1>1, ReleaseFields
<1> DEFINE sending == [action |-> q.action, due |-> q.due]
<1>8. /\ \A m \in Mark \ {q.mark} : ledger'.entry[m] = l.entry[m]
      /\ ledger'.entry[q.mark] = [l.entry[q.mark] EXCEPT !.sending = sending]
      /\ ledger'.moment = ledger.moment
  <2>1. l \in Ledgers /\ l.entry \in [Mark -> Entries]
    BY <1>1, Types DEF Sound
  <2> HIDE DEF l
  <2> QED BY <1>2, <1>4, <1>7, <2>1 DEF WriteAhead, Ledgers
<1> HIDE DEF l
<1>9. /\ ledger'.entry[q.mark].sending = sending
      /\ ledger'.entry[q.mark].due = q.due
      /\ ledger'.entry[q.mark].attempts = l.entry[q.mark].attempts
      /\ ledger'.entry[q.mark].confirmed = l.entry[q.mark].confirmed
      /\ ledger'.entry[q.mark].mayLand = l.entry[q.mark].mayLand
  <2> HIDE DEF sending
  <2> QED BY <1>4, <1>6, <1>8 DEF Entries
<1> HIDE DEF sending
<1>10. ASSUME NEW m \in Mark
       PROVE  /\ ledger'.entry[m].due = l.entry[m].due
              /\ ledger'.entry[m].attempts = l.entry[m].attempts
              /\ ledger'.entry[m].confirmed = l.entry[m].confirmed
              /\ ledger'.entry[m].mayLand = l.entry[m].mayLand
              /\ tries'[m] = IF l.entry[m].due = ledger.entry[m].due THEN tries[m] ELSE 0
              /\ tries'[m] \in Nat
  <2>1. /\ ledger'.entry[m].due = l.entry[m].due
        /\ ledger'.entry[m].attempts = l.entry[m].attempts
        /\ ledger'.entry[m].confirmed = l.entry[m].confirmed
        /\ ledger'.entry[m].mayLand = l.entry[m].mayLand
    BY <1>4, <1>8, <1>9
  <2> QED BY <1>3, <2>1, Known DEF Tally, DInv
<1>11. ASSUME NEW m \in Mark
       PROVE  /\ l.entry[m].sending = Nothing
              /\ l.entry[m].due \in {0, ledger.entry[m].due}
              /\ l.entry[m].due = 0 => tries'[m] = 0
              /\ l.entry[m].due # 0 => /\ l.entry[m].attempts < MaxAttempts
                                       /\ tries'[m] <= l.entry[m].attempts
  BY <1>1, <1>6, <1>10, ReleasedCounts
<1>12. OnWire'
  BY <1>4, <1>5, <1>9 DEF OnWire, sending
<1>13. Past'
  <2>1. \A m \in Mark : ledger.entry[m].due <= ledger.moment /\ 0 <= ledger.moment
    BY Known DEF DInv, Past
  <2>2. \A m \in Mark : l.entry[m].due <= ledger.moment
    BY <1>11, <2>1
  <2> QED BY <1>4, <1>5, <1>8, <1>10, <2>2 DEF Past, DInv
<1>14. Counted'
  <2> SUFFICES ASSUME NEW m \in Mark PROVE MarkCounted(m)'
    BY DEF Counted
  <2> DEFINE f == ledger'.entry[m]
  <2>1. OnTheWire(f) \in Nat /\ l.entry[m].attempts \in Nat
    BY <1>6 DEF OnTheWire, Entries
  <2>2. /\ f.due = 0 => tries'[m] = 0
        /\ f.due # 0 => f.attempts < MaxAttempts /\ tries'[m] <= f.attempts
    BY <1>10, <1>11
  <2>3. tries'[m] \in Nat /\ f.attempts \in Nat
    BY <1>10, <2>1
  <2>4. pass'.request.mark = m => f.due # 0
    BY <1>4, <1>5, <1>9
  <2> HIDE DEF f
  <2> QED BY <2>1, <2>2, <2>3, <2>4 DEF MarkCounted, f
<1>15. Recorded'
  <2> SUFFICES ASSUME NEW m \in Mark PROVE MarkRecorded(m)'
    BY DEF Recorded
  <2>1. /\ late[m] \subseteq l.entry[m].mayLand
        /\ l.entry[m].confirmed = "present" /\ "remove" \notin l.entry[m].mayLand => there[m]
        /\ l.entry[m].confirmed \in {"absent", "none"} /\ "add" \notin l.entry[m].mayLand => ~there[m]
    BY <1>1, <1>6, ReleasedRecords
  <2> QED BY <1>3, <1>5, <1>10, <2>1 DEF MarkRecorded, MayHaveLanded, Claimed, Landed
<1>16. Untried'
  <2> SUFFICES ASSUME ~joined, NEW m \in asked \ {q.mark}, l.entry[m].due # 0
               PROVE  <<m, l.entry[m].due>> \notin pass.tried
    BY <1>3, <1>5, <1>10, Known DEF Untried, Claimed, DInv
  <2>1. m \in Mark /\ l.entry[m].due = ledger.entry[m].due
    BY <1>11, Known DEF DInv
  <2> QED BY <1>3, <2>1 DEF DInv, Untried
<1>17. AskedIsServed'
  BY <1>5 DEF AskedIsServed
<1> QED BY <1>12, <1>13, <1>14, <1>15, <1>16, <1>17

(* A ledger released while nothing is claimed.                              *)
LEMMA ReleaseKeeps ==
    ASSUME DInv, ~\E m \in Mark : Claimed(m), UNCHANGED discord, Tally(ledger'),
           ledger'.entry = Release(ledger).entry, ledger'.moment = ledger.moment,
           pass'.at \notin {"claimed", "sent"}, pass'.tried \subseteq pass.tried
    PROVE  OnWire' /\ Past' /\ Counted' /\ Recorded'
<1> DEFINE l == Release(ledger)
<1>1. /\ \A m \in Mark : Released(ledger.entry[m], l.entry[m]) /\ l.entry[m] \in Entries
      /\ \A m \in Mark : tries'[m] = IF l.entry[m].due = ledger.entry[m].due THEN tries[m] ELSE 0
  BY ReleaseSound, ReleaseFields, Types, Known DEF DInv, Sound, Tally
<1> HIDE DEF l
<1>2. \A m \in Mark : l.entry[m] = ledger'.entry[m]
  BY DEF l
<1>3. OnWire'
  BY DEF OnWire
<1>4. ASSUME NEW m \in Mark
      PROVE  /\ l.entry[m].sending = Nothing
             /\ l.entry[m].due \in {0, ledger.entry[m].due}
             /\ l.entry[m].due = 0 => tries'[m] = 0
             /\ l.entry[m].due # 0 => /\ l.entry[m].attempts < MaxAttempts
                                      /\ tries'[m] <= l.entry[m].attempts
  BY <1>1, ReleasedCounts
<1>5. Past'
  <2>1. \A m \in Mark : ledger.entry[m].due <= ledger.moment /\ 0 <= ledger.moment
    BY Known DEF DInv, Past
  <2>2. \A m \in Mark : ledger'.entry[m].due <= ledger.moment
    BY <1>2, <1>4, <2>1
  <2> QED BY <2>2 DEF Past, DInv
<1>6. Counted'
  <2> SUFFICES ASSUME NEW m \in Mark PROVE MarkCounted(m)'
    BY DEF Counted
  <2>1. OnTheWire(ledger'.entry[m]) = 0 /\ l.entry[m].attempts \in Nat
    BY <1>1, <1>2, <1>4 DEF OnTheWire, Entries
  <2> QED BY <1>2, <1>4, <2>1 DEF MarkCounted
<1>7. Recorded'
  <2> SUFFICES ASSUME NEW m \in Mark PROVE MarkRecorded(m)'
    BY DEF Recorded
  <2>1. /\ late[m] \subseteq l.entry[m].mayLand
        /\ l.entry[m].confirmed = "present" /\ "remove" \notin l.entry[m].mayLand => there[m]
        /\ l.entry[m].confirmed \in {"absent", "none"} /\ "add" \notin l.entry[m].mayLand => ~there[m]
    BY <1>1, ReleasedRecords
  <2> QED BY <1>2, <2>1 DEF MarkRecorded, MayHaveLanded, Claimed, Landed, discord
<1> QED BY <1>3, <1>5, <1>6, <1>7

(* Out of what it was asked for, the pass ends with nothing asked owed.     *)
LEMMA PassRunsOutKeeps == ASSUME DInv, PassRunsOut
    PROVE OnWire' /\ Past' /\ Counted' /\ Recorded' /\ Untried' /\ AskedIsServed'
<1>1. /\ pass.at = "loop" /\ ledger' = Release(ledger) /\ joined' = FALSE
      /\ Tally(ledger')
      /\ UNCHANGED <<work, host, connected, pending, discord, asked>>
      /\ \A q \in OwedRequests(ledger') : Signature(q) \in pass.tried
  BY DEF PassRunsOut
<1>2. \/ /\ joined /\ pass.tried # {}
         /\ pass' = [pass EXCEPT !.tried = {}]
      \/ (~joined \/ pass.tried = {}) /\ pass' = NoPass
  BY DEF PassRunsOut
<1>3. /\ pass'.at \in {"none", "loop"} /\ pass'.tried = {}
      /\ pass'.at = "none" => ~joined \/ pass.tried = {}
  BY <1>1, <1>2, Known DEF DInv, NoPass, PassTypes
<1>4. ledger'.moment = ledger.moment
  BY <1>1, ReleaseFields, Known DEF DInv
<1>5. OnWire' /\ Past' /\ Counted' /\ Recorded'
  BY <1>1, <1>3, <1>4, ReleaseKeeps DEF Claimed
<1>6. Untried'
  BY <1>3 DEF Untried, Claimed
<1>7. AskedIsServed'
  <2> SUFFICES ASSUME NEW m \in asked, m \in OwedMarks(ledger'), pass'.at = "none" PROVE FALSE
    BY <1>1 DEF AskedIsServed
  <2>1. PICK q \in OwedRequests(ledger') : q.mark = m
    BY DEF OwedMarks
  <2>2. Sound(ledger')
    BY <1>1, ReleaseSound, Known DEF DInv
  <2>3. q.due = ledger'.entry[m].due /\ <<m, q.due>> \in pass.tried
    BY <1>1, <2>1, <2>2, OwedTypes DEF Signature
  <2>4. m \in Mark /\ ledger'.entry[m].due # 0
    BY OwedMark
  <2>5. ledger'.entry[m].due = ledger.entry[m].due
    BY <1>1, <2>4, ReleaseFields, Known DEF DInv, Released, Spent
  <2> QED BY <1>1, <1>3, <2>3, <2>4, <2>5 DEF DInv, Untried
<1> QED BY <1>5, <1>6, <1>7

(* What was claimed is sent: the attempt is on the wire.                    *)
LEMMA PassSendsKeeps == ASSUME DInv, PassSends
    PROVE OnWire' /\ Past' /\ Counted' /\ Recorded' /\ Untried' /\ AskedIsServed'
<1> DEFINE q == pass.request
           tried == pass.tried \cup {Signature(q)}
<1>1. /\ UNCHANGED <<ledger, host, connected, joined, pending, there, late, asked>>
      /\ pass.at = "claimed"
      /\ pass' = [pass EXCEPT !.at = "sent", !.landed = FALSE, !.tried = tried]
      /\ tries' = IF ledger.entry[q.mark].due = q.due
                  THEN [tries EXCEPT ![q.mark] = @ + 1] ELSE tries
  BY DEF PassSends, discord
<1>2. /\ pass'.at = "sent" /\ pass'.request = q /\ pass'.tried = tried /\ ~pass'.landed
  <2> HIDE DEF tried
  <2> QED BY <1>1, Known DEF DInv, PassTypes
<1>3. q.mark \in Mark /\ q.due \in Nat /\ q.due # 0 /\ q.due <= ledger.moment
  BY <1>1, Known DEF DInv, OnWire, Past
<1>4. OnWire'
  BY <1>1, <1>2 DEF DInv, OnWire
<1>5. Past'
  BY <1>1, <1>2, <1>3 DEF DInv, Past, Signature
<1>6. Counted'
  <2> SUFFICES ASSUME NEW m \in Mark PROVE MarkCounted(m)'
    BY DEF Counted
  <2>1. MarkCounted(m) /\ pass'.at # "claimed"
    BY <1>2 DEF DInv, Counted
  <2>2. CASE m = q.mark /\ ledger.entry[m].due = q.due
    <3>1. OnTheWire(ledger.entry[m]) = 1
      BY <1>1, <2>2 DEF DInv, OnWire, OnTheWire, Nothing
    <3>2. tries'[m] = tries[m] + 1
      BY <1>1, <2>2, Known DEF DInv
    <3> QED BY <1>1, <1>3, <2>1, <2>2, <3>1, <3>2, Known DEF DInv, MarkCounted
  <2>3. CASE ~(m = q.mark /\ ledger.entry[m].due = q.due)
    <3>1. tries'[m] = tries[m]
      BY <1>1, <2>3, Known DEF DInv
    <3> QED BY <1>1, <2>1, <3>1 DEF MarkCounted
  <2> QED BY <2>2, <2>3
<1>7. Recorded'
  BY <1>1, <1>2 DEF DInv, Recorded, MarkRecorded, MayHaveLanded, Claimed, Landed
<1>8. Untried'
  BY <1>1, <1>2 DEF DInv, Untried, Claimed, Signature
<1>9. AskedIsServed'
  BY <1>2 DEF AskedIsServed
<1> QED BY <1>4, <1>5, <1>6, <1>7, <1>8, <1>9

(* Discord applies the request on the wire, or one nobody waits for.        *)
LEMMA LandsKeeps == ASSUME DInv, Lands
    PROVE OnWire' /\ Past' /\ Counted' /\ Recorded' /\ Untried' /\ AskedIsServed'
<1>1. /\ UNCHANGED <<ledger, host, connected, joined, pending, late, asked, tries>>
      /\ pass.at = "sent" /\ pass' = [pass EXCEPT !.landed = TRUE]
      /\ there' = [there EXCEPT ![pass.request.mark] = Applied(pass.request.action)]
  BY DEF Lands, history
<1>2. /\ pass'.at = "sent" /\ pass'.request = pass.request /\ pass'.tried = pass.tried
      /\ pass'.landed
  BY <1>1, Known DEF DInv, PassTypes
<1>3. OnWire' /\ Past' /\ Counted' /\ Untried' /\ AskedIsServed'
  BY <1>1, <1>2 DEF DInv, OnWire, Past, Counted, MarkCounted, Untried, Claimed, AskedIsServed
<1>4. Recorded'
  <2> SUFFICES ASSUME NEW m \in Mark PROVE MarkRecorded(m)'
    BY DEF Recorded
  <2>1. MarkRecorded(m)
    BY DEF DInv, Recorded
  <2>2. CASE m = pass.request.mark
    <3>1. there'[m] = (pass.request.action = "add")
      BY <1>1, <2>2, Known DEF DInv, Applied
    <3>2. pass.request.action \in Action /\ ledger.entry[m].sending.action = pass.request.action
      BY <1>1, <2>2, Known DEF DInv, OnWire
    <3> QED BY <1>1, <1>2, <2>1, <2>2, <3>1, <3>2
        DEF MarkRecorded, MayHaveLanded, Claimed, Landed, Action
  <2>3. CASE m # pass.request.mark
    <3>1. there'[m] = there[m]
      BY <1>1, <2>3, Known DEF DInv
    <3> QED BY <1>1, <1>2, <2>1, <2>3, <3>1 DEF MarkRecorded, MayHaveLanded, Claimed, Landed
  <2> QED BY <2>2, <2>3
<1> QED BY <1>3, <1>4

LEMMA LandsLateKeeps == ASSUME DInv, NEW k \in Mark, LandsLate(k)
    PROVE OnWire' /\ Past' /\ Counted' /\ Recorded' /\ Untried' /\ AskedIsServed'
<1>1. /\ UNCHANGED <<ledger, host, connected, pass, joined, pending, late, asked, tries>>
  BY DEF LandsLate, delivery, history
<1>2. PICK action \in late[k] : there' = [there EXCEPT ![k] = Applied(action)]
  BY DEF LandsLate
<1>3. OnWire' /\ Past' /\ Counted' /\ Untried' /\ AskedIsServed'
  BY <1>1 DEF DInv, OnWire, Past, Counted, MarkCounted, Untried, Claimed, AskedIsServed
<1>4. Recorded'
  <2> SUFFICES ASSUME NEW m \in Mark PROVE MarkRecorded(m)'
    BY DEF Recorded
  <2>1. MarkRecorded(m)
    BY DEF DInv, Recorded
  <2>2. CASE m = k
    <3>1. there'[m] = (action = "add") /\ action \in Action
      BY <1>2, <2>2, Known DEF DInv, Applied
    <3>2. action \in ledger.entry[m].mayLand \cup
                        (IF Claimed(m) THEN {} ELSE {ledger.entry[m].sending.action})
      BY <1>2, <2>1, <2>2 DEF MarkRecorded
    <3> QED BY <1>1, <2>1, <3>1, <3>2
        DEF MarkRecorded, MayHaveLanded, Claimed, Landed, Action
  <2>3. CASE m # k
    <3>1. there'[m] = there[m]
      BY <1>2, <2>3, Known DEF DInv
    <3> QED BY <1>1, <2>1, <3>1 DEF MarkRecorded, MayHaveLanded, Claimed, Landed
  <2> QED BY <2>2, <2>3
<1> QED BY <1>3, <1>4

(* The answer of the pass's request, recorded: nothing of it is on the wire *)
(* any more, and the pass goes on.                                          *)
AnswerIs(f) ==
    /\ UNCHANGED <<host, connected, joined, pending, there, asked>>
    /\ ledger' = Record(ledger, pass.request.mark, f)
    /\ pass'.at = "loop"
    /\ pass'.tried \subseteq pass.tried \cup {Signature(pass.request)}

LEMMA AnswerFields ==
    ASSUME DInv, NEW f, AnswerIs(f), pass.at \in {"claimed", "sent"}
    PROVE  /\ pass.request.mark \in Mark
           /\ \A m \in Mark : ledger'.entry[m] = IF m = pass.request.mark THEN f ELSE ledger.entry[m]
           /\ ledger'.moment = ledger.moment
<1>1. ledger.entry \in [Mark -> Entries] /\ ledger \in Ledgers /\ pass.request.mark \in Mark
  BY Known, Types DEF DInv
<1> QED BY <1>1 DEF AnswerIs, Record, Ledgers

LEMMA AnswerPast ==
    ASSUME DInv, NEW f, AnswerIs(f), pass.at \in {"claimed", "sent"},
           f.due \in {0, ledger.entry[pass.request.mark].due}
    PROVE  OnWire' /\ Past' /\ Untried' /\ AskedIsServed'
<1>1. OnWire'
  BY DEF OnWire, AnswerIs
<1>2. Past'
  <2>1. \A m \in Mark : ledger'.entry[m].due \in {0, ledger.entry[m].due}
    BY AnswerFields
  <2>2. \A m \in Mark : ledger'.entry[m].due <= ledger.moment
    BY <2>1, Known DEF DInv, Past
  <2>3. \A s \in pass'.tried : s[2] <= ledger.moment
    BY DEF DInv, Past, AnswerIs, Signature
  <2> QED BY <2>2, <2>3, AnswerFields DEF Past, AnswerIs
<1>3. Untried'
  <2>1. \A m \in Mark : ledger'.entry[m].due \in {0, ledger.entry[m].due}
    BY AnswerFields
  <2> SUFFICES ASSUME ~joined, NEW m \in asked, ledger'.entry[m].due # 0
               PROVE  <<m, ledger'.entry[m].due>> \notin pass'.tried
    BY DEF Untried, AnswerIs, Claimed
  <2>2. m \in Mark /\ ledger'.entry[m].due = ledger.entry[m].due
    BY <2>1, Known DEF DInv
  <2>3. /\ <<m, ledger.entry[m].due>> \notin pass.tried
        /\ m = pass.request.mark => ledger.entry[m].due # pass.request.due
    BY <2>2 DEF DInv, Untried, Claimed
  <2> QED BY <2>2, <2>3 DEF AnswerIs, Signature
<1>4. AskedIsServed'
  BY DEF AskedIsServed, AnswerIs
<1> QED BY <1>1, <1>2, <1>3, <1>4

(* What an answer leaves of the entry, and the tries counted for it.        *)
LEMMA AnswerTallies ==
    ASSUME DInv, NEW f, AnswerIs(f), pass.at = "sent", Tally(ledger')
    PROVE  LET m == pass.request.mark IN
           /\ ledger'.entry[m] = f
           /\ tries'[m] = IF f.due = ledger.entry[m].due THEN tries[m] ELSE 0
<1> DEFINE m == pass.request.mark
<1>1. m \in Mark /\ ledger'.entry[m] = f
  BY AnswerFields
<1>2. tries'[m] = IF ledger'.entry[m].due = ledger.entry[m].due THEN tries[m] ELSE 0
  <2> HIDE DEF m
  <2> QED BY <1>1 DEF Tally
<1> QED BY <1>1, <1>2

(* The request that was sent is on record.                                  *)
LEMMA SentIsRecorded ==
    ASSUME DInv, pass.at = "sent"
    PROVE  LET m == pass.request.mark IN
           /\ m \in Mark /\ MarkRecorded(m) /\ MarkCounted(m)
           /\ pass.request.action \in Action
           /\ ledger.entry[m].sending.action = pass.request.action
           /\ ledger.entry[m].due \in Nat /\ ledger.entry[m].attempts \in Nat /\ tries[m] \in Nat
<1>1. IInv /\ OnWire /\ Counted /\ Recorded
  BY DEF DInv
<1>2. pass.request.mark \in Mark /\ pass.request.action \in Action
  BY <1>1, Known
<1>3. /\ ledger.entry[pass.request.mark].due \in Nat /\ ledger.entry[pass.request.mark].attempts \in Nat
      /\ tries[pass.request.mark] \in Nat
  BY <1>1, <1>2, Known
<1>4. ledger.entry[pass.request.mark].sending = [action |-> pass.request.action, due |-> pass.request.due]
  BY <1>1 DEF OnWire
<1>5. ledger.entry[pass.request.mark].sending.action = pass.request.action
  BY <1>4
<1>6. MarkRecorded(pass.request.mark)
  BY <1>1, <1>2 DEF Recorded
<1>7. MarkCounted(pass.request.mark)
  BY <1>1, <1>2 DEF Counted
<1> QED BY <1>2, <1>3, <1>5, <1>6, <1>7

(* An attempt that is over has been counted.                                *)
LEMMA SpentFields ==
    ASSUME NEW e, NEW f, e.attempts \in Nat, Spent(e, f)
    PROVE  /\ OnTheWire(f) = 0
           /\ f.due # 0 => f.due = e.due
           /\ f.due # 0 => f.attempts \in Nat
           /\ f.due # 0 => f.attempts = e.attempts + OnTheWire(e)
           /\ f.due # 0 => (e.attempts < MaxAttempts => f.attempts < MaxAttempts)
<1>1. OnTheWire(f) = 0
  BY DEF Spent, OnTheWire
<1>2. OnTheWire(e) \in {0, 1}
  BY DEF OnTheWire
<1>3. f.due # 0 => f.due = e.due
  BY DEF Spent
<1>4. f.due # 0 => f.attempts = e.attempts + OnTheWire(e)
  BY DEF Spent
<1>5. f.due # 0 => (e.attempts < MaxAttempts => f.attempts < MaxAttempts)
  BY DEF Spent
<1>6. e.attempts + OnTheWire(e) \in Nat
  BY <1>2
<1>7. f.due # 0 => f.attempts \in Nat
  BY <1>4, <1>6
<1> QED BY <1>1, <1>3, <1>4, <1>5, <1>7

LEMMA SpentCounts ==
    ASSUME NEW m, NEW e, e = ledger.entry[m], NEW f, ledger'.entry[m] = f, pass'.at = "loop",
           MarkCounted(m), Spent(e, f), e.due \in Nat, e.attempts \in Nat, tries[m] \in Nat,
           tries'[m] = IF f.due = e.due THEN tries[m] ELSE 0
    PROVE  MarkCounted(m)'
<1>1. /\ e.due = 0 => tries[m] = 0
      /\ e.due # 0 => e.attempts < MaxAttempts /\ tries[m] <= e.attempts + OnTheWire(e)
  BY DEF MarkCounted
<1>2. /\ OnTheWire(f) = 0
      /\ f.due # 0 => f.due = e.due
      /\ f.due # 0 => f.attempts \in Nat
      /\ f.due # 0 => f.attempts = e.attempts + OnTheWire(e)
      /\ f.due # 0 => (e.attempts < MaxAttempts => f.attempts < MaxAttempts)
  BY SpentFields
<1>3. f.due = 0 => tries'[m] = 0
  BY <1>1
<1>4. f.due # 0 => f.attempts < MaxAttempts /\ tries'[m] = tries[m] /\ tries[m] <= f.attempts
  <2> SUFFICES ASSUME f.due # 0
               PROVE  f.attempts < MaxAttempts /\ tries'[m] = tries[m] /\ tries[m] <= f.attempts
    OBVIOUS
  <2>1. f.due = e.due /\ f.attempts = e.attempts + OnTheWire(e) /\ e.due # 0
    BY <1>2
  <2>2. f.attempts < MaxAttempts
    BY <1>1, <1>2, <2>1
  <2>3. tries'[m] = tries[m]
    BY <2>1
  <2>4. tries[m] <= f.attempts
    BY <1>1, <2>1
  <2> QED BY <2>2, <2>3, <2>4
<1>5. f.due # 0 => f.attempts + OnTheWire(f) = f.attempts
  BY <1>2
<1>6. f.due # 0 => tries'[m] <= f.attempts + OnTheWire(f)
  BY <1>4, <1>5
<1> QED BY <1>3, <1>4, <1>6 DEF MarkCounted

LEMMA AnswerKeeps ==
    ASSUME DInv, NEW f, AnswerIs(f), pass.at = "sent", Tally(ledger'),
           pass'.request = NoRequest,
           Spent(ledger.entry[pass.request.mark], f),
           late' \in [Mark -> SUBSET Action],
           \A m \in Mark \ {pass.request.mark} : late'[m] = late[m],
           LET m == pass.request.mark
               e == ledger.entry[m]
           IN  \/ /\ f.confirmed = "unknown"
                  /\ f.mayLand = e.mayLand \cup {e.sending.action}
                  /\ late'[m] \subseteq late[m] \cup {e.sending.action}
               \/ /\ f.confirmed = e.confirmed /\ ~pass.landed
                  /\ f.mayLand = e.mayLand /\ late'[m] = late[m]
               \/ /\ f.confirmed = Answered(e.sending.action) /\ pass.landed
                  /\ f.mayLand = e.mayLand /\ late'[m] = late[m]
    PROVE  OnWire' /\ Past' /\ Counted' /\ Recorded' /\ Untried' /\ AskedIsServed'
<1> DEFINE q == pass.request
           e == ledger.entry[q.mark]
<1>1. OnWire' /\ Past' /\ Untried' /\ AskedIsServed'
  BY AnswerPast DEF Spent
<1>2. q.mark \in Mark /\ pass'.at = "loop" /\ there' = there
  BY AnswerFields DEF AnswerIs
<1>3. ASSUME NEW m \in Mark \ {q.mark}
      PROVE  MarkCounted(m)' /\ MarkRecorded(m)'
  <2>1. ledger'.entry[m] = ledger.entry[m]
    BY AnswerFields
  <2>2. tries'[m] = tries[m]
    BY <2>1, Known DEF DInv, Tally
  <2>3. m # pass.request.mark /\ late'[m] = late[m] /\ there'[m] = there[m]
    BY <1>2
  <2>4. MarkCounted(m) /\ MarkRecorded(m)
    BY DEF DInv, Counted, Recorded
  <2> QED BY <1>2, <2>1, <2>2, <2>3, <2>4
      DEF MarkCounted, MarkRecorded, MayHaveLanded, Claimed, Landed
<1>4. ASSUME NEW m \in Mark, m = q.mark
      PROVE  ledger'.entry[m] = f /\ tries'[m] = IF f.due = e.due THEN tries[m] ELSE 0
  <2>1. /\ ledger'.entry[q.mark] = f
        /\ tries'[q.mark] = IF f.due = e.due THEN tries[q.mark] ELSE 0
    BY AnswerTallies
  <2> QED BY <1>4, <2>1
<1>5. ASSUME NEW m \in Mark, m = q.mark
      PROVE  MarkCounted(m)'
  <2>1. /\ MarkCounted(m) /\ e = ledger.entry[m]
        /\ e.due \in Nat /\ e.attempts \in Nat /\ tries[m] \in Nat
    BY <1>5, SentIsRecorded
  <2>2. Spent(e, f)
    OBVIOUS
  <2>3. ledger'.entry[m] = f /\ tries'[m] = IF f.due = e.due THEN tries[m] ELSE 0
    BY <1>4, <1>5
  <2> HIDE DEF e
  <2> QED BY <1>2, <2>1, <2>2, <2>3, SpentCounts
<1>6. ASSUME NEW m \in Mark, m = q.mark
      PROVE  MarkRecorded(m)'
  <2>1. MarkRecorded(m) /\ q.action \in Action /\ e.sending.action = q.action
    BY <1>6, SentIsRecorded
  <2>2. /\ f.sending = Nothing /\ late[m] \subseteq e.mayLand
    BY <1>6, <2>1 DEF Spent, MarkRecorded, Claimed
  <2>3. ~Claimed(m)' /\ ~Landed(m)' /\ ledger'.entry[m] = f /\ there'[m] = there[m]
    BY <1>2, <1>4, <1>6 DEF Claimed, Landed
  <2>4. CASE f.confirmed = "unknown" /\ f.mayLand = e.mayLand \cup {q.action}
             /\ late'[m] \subseteq late[m] \cup {q.action}
    BY <2>2, <2>3, <2>4 DEF MarkRecorded
  <2>5. CASE f.confirmed = e.confirmed /\ ~pass.landed /\ f.mayLand = e.mayLand
             /\ late'[m] = late[m]
    BY <1>6, <2>1, <2>2, <2>3, <2>5
       DEF MarkRecorded, MayHaveLanded, Claimed, Landed, Nothing
  <2>6. CASE f.confirmed = Answered(q.action) /\ pass.landed /\ f.mayLand = e.mayLand
             /\ late'[m] = late[m]
    BY <1>6, <2>1, <2>2, <2>3, <2>6
       DEF MarkRecorded, MayHaveLanded, Claimed, Landed, Nothing, Answered, Action
  <2> QED BY <1>6, <2>1, <2>4, <2>5, <2>6
<1> QED BY <1>1, <1>3, <1>5, <1>6 DEF Counted, Recorded

LEMMA AnswersKeep == ASSUME DInv, PassConfirmed \/ PassRefused \/ PassUnanswered
    PROVE OnWire' /\ Past' /\ Counted' /\ Recorded' /\ Untried' /\ AskedIsServed'
<1> DEFINE q == pass.request
           e == ledger.entry[q.mark]
<1>1. pass.at = "sent" /\ e \in Entries /\ e.sending # Nothing /\ q.mark \in Mark
      /\ e.sending.action = q.action
  BY LateTypes DEF DInv, OnWire, PassConfirmed, PassRefused, PassUnanswered
<1>2. ASSUME NEW f, Answer(f)
      PROVE  AnswerIs(f) /\ Tally(ledger') /\ pass'.request = NoRequest
  <2>1. pass'.at = "loop" /\ pass'.tried = pass.tried /\ pass'.request = NoRequest
    BY <1>2, Known DEF DInv, Answer, PassTypes
  <2> QED BY <1>2, <2>1 DEF AnswerIs, Answer
<1>3. late \in [Mark -> SUBSET Action]
  BY Known DEF DInv
<1>4. CASE PassConfirmed
  <2>1. AnswerIs(RecordConfirmed(e)) /\ Tally(ledger') /\ pass'.request = NoRequest
    BY <1>2, <1>4 DEF PassConfirmed, Entry
  <2>2. pass.landed /\ late' = late
    BY <1>4 DEF PassConfirmed
  <2> QED BY <1>1, <1>3, <2>1, <2>2, ConfirmedFields, AnswerKeeps
<1>5. CASE PassRefused
  <2>1. PICK permanent \in BOOLEAN : Answer(RecordFailed(e, permanent))
    BY <1>5 DEF PassRefused, Entry
  <2> DEFINE f == RecordFailed(e, permanent)
  <2>2. AnswerIs(f) /\ Tally(ledger') /\ pass'.request = NoRequest
    BY <1>2, <2>1
  <2>3. Spent(e, f) /\ f.confirmed = e.confirmed /\ f.mayLand = e.mayLand
    BY <1>1, FailedFields
  <2>4. ~pass.landed /\ late' = late
    BY <1>5 DEF PassRefused
  <2> HIDE DEF f
  <2> QED BY <1>1, <1>3, <2>2, <2>3, <2>4, AnswerKeeps
<1>6. CASE PassUnanswered
  <2>1. AnswerIs(RecordUnanswered(e)) /\ Tally(ledger') /\ pass'.request = NoRequest
    BY <1>2, <1>6 DEF PassUnanswered, Entry
  <2>2. \/ late' = late
        \/ late' = [late EXCEPT ![q.mark] = @ \cup {q.action}]
    BY <1>6 DEF PassUnanswered
  <2>3. /\ late' \in [Mark -> SUBSET Action]
        /\ \A m \in Mark \ {q.mark} : late'[m] = late[m]
        /\ late'[q.mark] \subseteq late[q.mark] \cup {q.action}
    BY <1>1, <1>3, <2>2, LateTypes DEF DInv
  <2> QED BY <1>1, <2>1, <2>3, UnansweredFields, AnswerKeeps
<1> QED BY <1>4, <1>5, <1>6

(* Refused before it left: what was claimed was never sent.                 *)
LEMMA PassGivesBackKeeps == ASSUME DInv, PassGivesBack
    PROVE OnWire' /\ Past' /\ Counted' /\ Recorded' /\ Untried' /\ AskedIsServed'
<1> DEFINE q == pass.request
           e == ledger.entry[q.mark]
           f == RecordNotSent(e)
<1>1. pass.at = "claimed" /\ e \in Entries /\ q.mark \in Mark /\ q.due # 0
  BY LateTypes DEF DInv, OnWire, PassGivesBack
<1>2. /\ f.sending = Nothing /\ f.due = e.due /\ f.attempts = e.attempts
      /\ f.confirmed = e.confirmed /\ f.mayLand = e.mayLand
  BY <1>1 DEF RecordNotSent, Entries
<1> HIDE DEF f
<1>3. /\ UNCHANGED <<host, connected, joined, pending, there, late, asked, tries>>
      /\ ledger' = Record(ledger, q.mark, f)
  BY DEF PassGivesBack, discord, history, Entry, f
<1>4. PICK tried \in {pass.tried, pass.tried \cup {Signature(q)}} :
         pass' = [pass EXCEPT !.at = "loop", !.request = NoRequest, !.tried = tried]
  BY DEF PassGivesBack
<1>5. pass'.at = "loop" /\ pass'.tried = tried /\ pass'.request = NoRequest
  BY <1>4, Known DEF DInv, PassTypes
<1>6. AnswerIs(f)
  BY <1>3, <1>4, <1>5 DEF AnswerIs
<1>7. OnWire' /\ Past' /\ Untried' /\ AskedIsServed'
  BY <1>1, <1>2, <1>6, AnswerPast
<1>8. \A m \in Mark : ledger'.entry[m] = IF m = q.mark THEN f ELSE ledger.entry[m]
  BY <1>1, <1>6, AnswerFields
<1>9. Counted'
  <2> SUFFICES ASSUME NEW m \in Mark PROVE MarkCounted(m)'
    BY DEF Counted
  <2>1. MarkCounted(m)
    BY DEF DInv, Counted
  <2>2. CASE m = q.mark
    <3>1. e.due # 0 => tries[m] <= e.attempts
      <4>1. e.due = q.due => tries[m] <= e.attempts
        BY <1>1, <2>1, <2>2 DEF MarkCounted
      <4>2. e.due # q.due => OnTheWire(e) = 0
        BY <1>1 DEF DInv, OnWire, OnTheWire
      <4>3. e.attempts \in Nat
        BY <1>1 DEF Entries
      <4> QED BY <2>1, <2>2, <4>1, <4>2, <4>3 DEF MarkCounted
    <3>2. OnTheWire(f) = 0 /\ e.attempts \in Nat
      BY <1>1, <1>2 DEF OnTheWire, Entries
    <3> QED BY <1>2, <1>3, <1>5, <1>8, <2>1, <2>2, <3>1, <3>2 DEF MarkCounted
  <2>3. CASE m # q.mark
    BY <1>1, <1>3, <1>5, <1>8, <2>1, <2>3 DEF MarkCounted
  <2> QED BY <2>2, <2>3
<1>10. Recorded'
  <2> SUFFICES ASSUME NEW m \in Mark PROVE MarkRecorded(m)'
    BY DEF Recorded
  <2>1. MarkRecorded(m)
    BY DEF DInv, Recorded
  <2>2. CASE m = q.mark
    BY <1>1, <1>2, <1>3, <1>5, <1>8, <2>1, <2>2
       DEF MarkRecorded, MayHaveLanded, Claimed, Landed, Nothing
  <2>3. CASE m # q.mark
    BY <1>1, <1>3, <1>5, <1>8, <2>1, <2>3 DEF MarkRecorded, MayHaveLanded, Claimed, Landed
  <2> QED BY <2>2, <2>3
<1> QED BY <1>7, <1>9, <1>10

(* A pass cut short leaves its request on record, whether it was sent, and  *)
(* takes back what was asked of it.                                         *)
PassDropped ==
    /\ UNCHANGED <<ledger, there, tries>>
    /\ pass' = NoPass /\ asked' = {}
    /\ IF pass.at = "sent" /\ ~pass.landed
       THEN late' = [late EXCEPT ![pass.request.mark] = @ \cup {pass.request.action}]
       ELSE late' = late

LEMMA PassDroppedKeeps == ASSUME DInv, PassDropped
    PROVE OnWire' /\ Past' /\ Counted' /\ Recorded' /\ Untried' /\ AskedIsServed'
<1>1. UNCHANGED <<ledger, there, tries>> /\ pass' = NoPass /\ asked' = {}
  BY DEF PassDropped
<1>2. NoPass.at = "none" /\ NoPass.tried = {}
  BY DEF NoPass
<1>3. OnWire' /\ Past' /\ Untried' /\ AskedIsServed'
  BY <1>1, <1>2 DEF DInv, OnWire, Past, Untried, AskedIsServed
<1>4. Counted'
  BY <1>1, <1>2 DEF DInv, Counted, MarkCounted
<1>5. Recorded'
  <2> SUFFICES ASSUME NEW m \in Mark PROVE MarkRecorded(m)'
    BY DEF Recorded
  <2>1. MarkRecorded(m) /\ ~Claimed(m)' /\ ~Landed(m)'
    BY <1>1, <1>2 DEF DInv, Recorded, Claimed, Landed
  <2>2. late'[m] \subseteq ledger.entry[m].mayLand \cup {ledger.entry[m].sending.action}
    <3>1. CASE pass.at = "sent" /\ ~pass.landed /\ m = pass.request.mark
      <4>1. late'[m] = late[m] \cup {ledger.entry[m].sending.action}
        BY <3>1, Known DEF DInv, OnWire, PassDropped
      <4> QED BY <2>1, <4>1 DEF MarkRecorded
    <3>2. CASE ~(pass.at = "sent" /\ ~pass.landed /\ m = pass.request.mark)
      <4>1. late'[m] = late[m]
        BY <3>2, Known DEF DInv, PassDropped
      <4> QED BY <2>1, <4>1 DEF MarkRecorded
    <3> QED BY <3>1, <3>2
  <2> QED BY <1>1, <2>1, <2>2 DEF MarkRecorded, MayHaveLanded
<1> QED BY <1>3, <1>4, <1>5

LEMMA CutShortDrops == ASSUME DInv, PassBreaks \/ PassFails \/ Ends PROVE PassDropped
<1>1. CASE PassBreaks
  BY <1>1 DEF PassBreaks, Leaves, PassDropped, discord
<1>2. CASE PassFails
  BY <1>2 DEF PassFails, Leaves, PassDropped
<1>3. CASE Ends
  BY <1>3 DEF Ends, PassDropped
<1> QED BY <1>1, <1>2, <1>3

(* A step that leaves the ledger, the pass and Discord, but for a           *)
(* connection the pass lost.                                                *)
LEMMA QuietKeeps ==
    ASSUME DInv, UNCHANGED <<ledger, discord, tries>>,
           pass'.at = pass.at, pass'.request = pass.request, pass'.tried = pass.tried,
           pass'.landed = pass.landed
    PROVE  OnWire' /\ Past' /\ Counted' /\ Recorded'
  BY DEF DInv, OnWire, Past, Counted, MarkCounted, Recorded, MarkRecorded, MayHaveLanded,
         Claimed, Landed, discord

LEMMA QuietSteps ==
    ASSUME DInv,
           \/ Forks \/ Applies \/ Restores \/ KeepsAfterFailure \/ StoreSyncs
           \/ (\E b \in Batch : ResumesBody(b))
           \/ Disconnects \/ Connects \/ Stops \/ Serves
           \/ UNCHANGED vars
    PROVE  OnWire' /\ Past' /\ Counted' /\ Recorded' /\ Untried' /\ AskedIsServed'
<1>1. /\ UNCHANGED <<ledger, joined, discord, tries>>
      /\ asked' \in {asked, {}}
      /\ \/ UNCHANGED <<host, connected, pending>>
         \/ asked' = {}
         \/ pending' = TRUE
      /\ pass' = pass \/ \E gone : pass' = [pass EXCEPT !.gone = gone]
  BY DEF Forks, Applies, Restores, KeepsAfterFailure, StoreSyncs, ResumesBody, Disconnects,
         Connects, Stops, Serves, vars, work, delivery, discord, history
<1>2. /\ pass'.at = pass.at /\ pass'.request = pass.request /\ pass'.tried = pass.tried
      /\ pass'.landed = pass.landed
  BY <1>1, Known DEF DInv, PassTypes
<1>3. OnWire' /\ Past' /\ Counted' /\ Recorded'
  BY <1>1, <1>2, QuietKeeps
<1>4. Untried' /\ AskedIsServed'
  BY <1>1, <1>2 DEF DInv, Untried, AskedIsServed, Claimed
<1> QED BY <1>3, <1>4

(* A trigger begins a pass that has tried nothing, or joins the one there.  *)
LEMMA DeliversKeeps == ASSUME DInv, Delivers
    PROVE OnWire' /\ Past' /\ Counted' /\ Recorded' /\ Untried' /\ AskedIsServed'
<1> DEFINE new == [NoPass EXCEPT !.at = "loop"]
<1>0. new.at = "loop" /\ new.tried = {} /\ new.request = NoRequest /\ new.landed = FALSE
  BY DEF NoPass
<1> HIDE DEF new
<1>1. UNCHANGED <<ledger, host, connected, discord, tries>>
  BY DEF Delivers
<1>2. \/ /\ UNCHANGED <<pass, asked, joined>>
         /\ host # "up" \/ OwedMarks(ledger) = {}
      \/ UNCHANGED pass /\ pass.at # "none" /\ joined' = TRUE
      \/ UNCHANGED <<pass, joined>> /\ pass.at = "none" /\ ~connected
      \/ pass' = new /\ pass.at = "none"
  BY DEF Delivers, OwedMarks, new
<1>3. OnWire' /\ Past' /\ Counted' /\ Recorded'
  <2>1. CASE UNCHANGED pass
    BY <1>1, <2>1, QuietKeeps
  <2>2. CASE pass' = new /\ pass.at = "none"
    BY <1>0, <1>1, <2>2 DEF DInv, OnWire, Past, Counted, MarkCounted, Recorded, MarkRecorded,
                            MayHaveLanded, Claimed, Landed, discord
  <2> QED BY <1>2, <2>1, <2>2
<1>4. Untried'
  BY <1>0, <1>1, <1>2 DEF DInv, Untried, Claimed
<1>5. AskedIsServed'
  BY <1>0, <1>1, <1>2 DEF AskedIsServed
<1> QED BY <1>3, <1>4, <1>5

LEMMA RecoversDelivery == ASSUME DInv, Recovers
    PROVE OnWire' /\ Past' /\ Counted' /\ Recorded' /\ Untried' /\ AskedIsServed'
<1>1. /\ pass' = pass /\ host' = "resuming" /\ Tally(ledger') /\ UNCHANGED discord
      /\ pass.at = "none"
  BY DEF Recovers, delivery, DInv, IInv, Hosted, Running
<1>2. Release(ledger) \in Ledgers
  BY ReleaseSound, Known DEF DInv, Sound
<1>3. ledger'.entry = Release(ledger).entry /\ ledger'.moment = ledger.moment
  <2>1. ledger'.entry = Release(ledger).entry /\ ledger'.moment = Release(ledger).moment
    BY <1>2 DEF Recovers, RetireInterrupted, Ledgers
  <2> QED BY <2>1, ReleaseFields, Known DEF DInv
<1>4. OnWire' /\ Past' /\ Counted' /\ Recorded'
  BY <1>1, <1>3, ReleaseKeeps DEF Claimed
<1>5. Untried' /\ AskedIsServed'
  BY <1>1 DEF Untried, AskedIsServed
<1> QED BY <1>4, <1>5

-----------------------------------------------------------------------------
(* The store.                                                               *)

(* A step that leaves the batches where they were.                          *)
LEMMA StoreKept ==
    ASSUME InStore, IInv, UNCHANGED <<body, stored, surgery>>,
           ledger'.status = ledger.status
    PROVE  InStore'
  BY DEF InStore, BatchInStore

(* A surgery moves only its own batch, which is still prepared.             *)
LEMMA SurgeryInStore ==
    ASSUME DInv, Forks \/ Applies \/ Restores \/ KeepsAfterFailure \/ StoreSyncs
    PROVE  InStore'
<1>1. ledger' = ledger
  BY DEF Forks, Applies, Restores, KeepsAfterFailure, StoreSyncs
<1>2. surgery \in [batch : Batch \cup {"none"},
                   step : {"none", "chosen", "forked", "applied", "restored"}]
      /\ body \in [Batch -> {"source", "fork", "cut"}]
      /\ stored \in [Batch -> {"source", "fork", "cut"}]
  BY DEF DInv, IInv, TypeOK
<1>3. surgery.step # "none" => surgery.batch \in Batch /\ ledger.status[surgery.batch] = "prepared"
  BY DEF DInv, IInv, Hosted
<1>4. CASE StoreSyncs
  BY <1>1, <1>2, <1>4 DEF StoreSyncs, DInv, InStore, BatchInStore
<1>5. CASE KeepsAfterFailure
  BY <1>1, <1>2, <1>5 DEF KeepsAfterFailure, DInv, InStore, BatchInStore, NoSurgery
<1>6. CASE Forks \/ Applies \/ Restores
  <2>1. surgery.step # "none" /\ stored' = stored
    BY <1>6 DEF Forks, Applies, Restores, At
  <2>2. \A b \in Batch \ {surgery.batch} : body'[b] = body[b]
    BY <1>2, <1>6 DEF Forks, Applies, Restores
  <2>3. \A b \in Batch : BatchInStore(b)'
    BY <1>1, <1>3, <2>1, <2>2 DEF DInv, InStore, BatchInStore
  <2>4. /\ surgery'.step = "applied" => body'[surgery'.batch] = "cut"
        /\ surgery'.step = "restored" => body'[surgery'.batch] = "source"
    BY <1>2, <1>3, <1>6, <2>1 DEF Forks, Applies, Restores
  <2> QED BY <2>3, <2>4 DEF InStore
<1> QED BY <1>4, <1>5, <1>6

LEMMA StatusFields ==
    ASSUME IInv, NEW b \in Batch
    PROVE  /\ Retire(ledger, b).status = [ledger.status EXCEPT ![b] = "retired"]
           /\ Activate(ledger, b).status = [ledger.status EXCEPT ![b] = "active"]
           /\ Prepare(ledger, b).status = [ledger.status EXCEPT ![b] = "prepared"]
  BY Known DEF Retire, Activate, Prepare, Ledgers

(* What is settled is synced first.                                         *)
LEMMA SettledInStore ==
    ASSUME DInv, \/ Discards \/ Activates
                 \/ \E b \in Batch : Prepares(b) \/ ResumesBody(b) \/ ResumesRecord(b)
    PROVE  InStore'
<1>1. /\ ledger.status \in Statuses
      /\ \A b \in Batch : BatchInStore(b)
      /\ body \in [Batch -> {"source", "fork", "cut"}]
      /\ stored \in [Batch -> {"source", "fork", "cut"}]
  BY Known DEF DInv, IInv, TypeOK, InStore
<1>2. CASE Discards \/ Activates
  <2>1. /\ surgery.step \in {"restored", "applied"} /\ surgery.batch \in Batch
        /\ body[surgery.batch] # "fork"
        /\ surgery.step = "applied" => body[surgery.batch] = "cut"
        /\ UNCHANGED body /\ surgery' = NoSurgery
    BY <1>2 DEF DInv, IInv, Hosted, InStore, Discards, Activates, At
  <2>2. \/ UNCHANGED <<ledger, stored>>
        \/ /\ stored' = body
           /\ ledger'.status = [ledger.status EXCEPT ![surgery.batch] = "retired"]
        \/ /\ stored' = body /\ surgery.step = "applied"
           /\ ledger'.status = [ledger.status EXCEPT ![surgery.batch] = "active"]
    BY <1>2, <2>1, StatusFields DEF DInv, Discards, Activates, At
  <2>3. \A b \in Batch : BatchInStore(b)'
    BY <1>1, <2>1, <2>2 DEF BatchInStore, Statuses
  <2> QED BY <2>1, <2>3 DEF InStore, NoSurgery
<1>3. ASSUME NEW b \in Batch, Prepares(b) PROVE InStore'
  <2>1. /\ ledger'.status = [ledger.status EXCEPT ![b] = "prepared"]
        /\ UNCHANGED <<body, stored>> /\ surgery' = [batch |-> b, step |-> "chosen"]
    BY <1>3, StatusFields DEF DInv, Prepares
  <2> QED BY <1>1, <2>1 DEF InStore, BatchInStore, Statuses
<1>4. ASSUME NEW b \in Batch, ResumesBody(b) \/ ResumesRecord(b) PROVE InStore'
  <2>1. /\ ledger.status[b] = "prepared" /\ surgery' = surgery /\ surgery.step = "none"
        /\ \/ /\ body' = [body EXCEPT ![b] = "cut"] /\ UNCHANGED <<ledger, stored>>
           \/ /\ body[b] = "cut" /\ stored' = body /\ UNCHANGED body
              /\ ledger'.status = [ledger.status EXCEPT ![b] = "retired"]
    BY <1>4, StatusFields
       DEF DInv, IInv, Hosted, Running, ResumesBody, ResumesRecord, ToResume, PendingSuppression
  <2> QED BY <1>1, <2>1 DEF InStore, BatchInStore, Statuses
<1> QED BY <1>2, <1>3, <1>4

(* A restart returns to what is on disk, and retires no suppression.        *)
LEMMA RestartInStore == ASSUME DInv, Ends \/ Recovers PROVE InStore'
<1>1. CASE Ends
  BY <1>1 DEF Ends, DInv, InStore, BatchInStore, NoSurgery
<1>2. CASE Recovers
  <2>1. Release(ledger) \in Ledgers /\ Release(ledger).status = ledger.status
    BY ReleaseSound, WriteAheadStatus, Known DEF DInv, Sound
  <2>2. ledger'.status = [b \in Batch |-> IF ledger.status[b] = "prepared" /\ b \notin Suppression
                                         THEN "retired" ELSE ledger.status[b]]
    BY <1>2, <2>1 DEF Recovers, RetireInterrupted, Ledgers
  <2>3. /\ stored' \in {stored, body} /\ UNCHANGED <<body, surgery>>
    BY <1>2 DEF Recovers
  <2> QED BY <2>2, <2>3 DEF DInv, InStore, BatchInStore
<1> QED BY <1>1, <1>2

(* No other step touches the store or a batch's status.                     *)
LEMMA OthersInStore ==
    ASSUME DInv,
           \/ (\E act \in Act : Cancels(act))
           \/ (\E r \in Retract, keys \in SUBSET Mark : Retracts(r, keys))
           \/ Delivers \/ PassBreaks \/ PassClaims \/ PassRunsOut \/ PassFails
           \/ PassSends \/ PassGivesBack \/ PassConfirmed \/ PassRefused \/ PassUnanswered
           \/ Lands \/ (\E m \in Mark : LandsLate(m)) \/ Disconnects
           \/ Connects \/ Stops \/ Serves \/ UNCHANGED vars
    PROVE  InStore'
<1>1. UNCHANGED <<body, stored, surgery>>
  BY DEF Cancels, Retracts, Delivers, PassBreaks, PassClaims, PassRunsOut, PassFails, PassSends,
         PassGivesBack, PassConfirmed, PassRefused, PassUnanswered, Answer, Lands, LandsLate,
         Disconnects, Connects, Stops, Serves, vars, work
<1>2. ledger'.status = ledger.status
  <2>1. CASE \/ (\E act \in Act : Cancels(act))
             \/ (\E r \in Retract, keys \in SUBSET Mark : Retracts(r, keys))
    BY <2>1, Known DEF DInv, Cancels, Cancel, Retracts, MakeRetract, Ledgers
  <2>2. CASE \/ Delivers \/ PassBreaks \/ PassClaims \/ PassRunsOut \/ PassFails
             \/ PassSends \/ PassGivesBack \/ PassConfirmed \/ PassRefused \/ PassUnanswered
             \/ Lands \/ (\E m \in Mark : LandsLate(m)) \/ Disconnects
    <3>1. PassLeaves
      BY <2>2, DeliversLeaves, CutShortLeaves, PassClaimsLeaves, PassRunsOutLeaves,
         PassSendsLeaves, PassGivesBackLeaves, AnswersLeave, LandsLeave, DisconnectsLeaves
         DEF DInv
    <3> QED BY <3>1 DEF PassLeaves
  <2>3. CASE Connects \/ Stops \/ Serves \/ UNCHANGED vars
    BY <2>3 DEF Connects, Stops, Serves, vars
  <2> QED BY <2>1, <2>2, <2>3
<1> QED BY <1>1, <1>2, StoreKept DEF DInv

-----------------------------------------------------------------------------
(* Every step.                                                              *)

LEMMA DeliveryInitially == Init => DInv
<1> SUFFICES ASSUME Init PROVE DInv
  OBVIOUS
<1>1. IInv
  BY Initially, LedgerConstants
<1>2. /\ \A m \in Mark : ledger.entry[m] = NewEntry
      /\ \A b \in Batch : ledger.status[b] = "none"
      /\ ledger.moment = 0
  BY DEF Init, NewLedger
<1>3. pass = NoPass /\ NoPass.at = "none" /\ NoPass.tried = {} /\ surgery.step = "none"
  BY DEF Init, NoPass, NoSurgery
<1>4. OnWire /\ Past /\ Untried
  BY <1>2, <1>3 DEF OnWire, Past, Untried, NewEntry
<1>5. InStore
  BY <1>2, <1>3 DEF InStore, BatchInStore
<1>6. Counted
  BY <1>2, <1>3 DEF Init, Counted, MarkCounted, NewEntry
<1>7. Recorded
  BY <1>2, <1>3 DEF Init, Recorded, MarkRecorded, NewEntry, Landed, Claimed
<1>8. AskedIsServed
  BY DEF Init, AskedIsServed
<1> QED BY <1>1, <1>4, <1>5, <1>6, <1>7, <1>8 DEF DInv

LEMMA ActsKeep == ASSUME DInv, Acts
    PROVE OnWire' /\ Past' /\ Counted' /\ Recorded' /\ Untried' /\ AskedIsServed'
  BY ActsPast, ActsCounted, ActsRecorded, ActsUntried

(* Every step keeps the invariant.                                          *)
LEMMA DeliveryInductive == ASSUME DInv, [Next]_vars PROVE DInv'
<1>0. IInv'
  BY Inductive, LedgerConstants DEF DInv
<1> SUFFICES OnWire' /\ Past' /\ Counted' /\ Recorded' /\ Untried' /\ AskedIsServed' /\ InStore'
  BY <1>0 DEF DInv
<1>1. ASSUME NEW b \in Batch, Prepares(b) \/ ResumesRecord(b)
      PROVE  Acts /\ InStore'
  BY <1>1, PreparesActs, ResumesRecordActs, SettledInStore DEF DInv
<1>2. CASE Discards \/ Activates
  BY <1>2, DiscardsActs, ActivatesActs, ActsKeep, SettledInStore DEF DInv
<1>3. CASE Forks \/ Applies \/ Restores \/ KeepsAfterFailure \/ StoreSyncs
  BY <1>3, QuietSteps, SurgeryInStore
<1>4. ASSUME NEW b \in Batch, ResumesBody(b)
      PROVE  /\ OnWire' /\ Past' /\ Counted' /\ Recorded' /\ Untried' /\ AskedIsServed'
             /\ InStore'
  BY <1>4, QuietSteps, SettledInStore
<1>5. ASSUME NEW act \in Act, Cancels(act) PROVE Acts /\ InStore'
  BY <1>5, CancelsActs, OthersInStore DEF DInv
<1>6. ASSUME NEW r \in Retract, NEW keys \in SUBSET Mark, Retracts(r, keys)
      PROVE  Acts /\ InStore'
  BY <1>6, RetractsActs, OthersInStore DEF DInv
<1>7. ASSUME NEW r \in Retract, RetractsAll(r) \/ \E b \in Batch : RetractsBatch(r, b)
      PROVE  Acts /\ InStore'
  <2>1. Everything(ledger) \in SUBSET Mark /\ \A b \in Batch : RefsOf[b] \in SUBSET Mark
    BY LedgerConstants DEF LedgerConstants, Everything
  <2> QED BY <1>6, <1>7, <2>1 DEF RetractsAll, RetractsBatch
<1>8. CASE PassBreaks \/ PassFails
  BY <1>8, CutShortDrops, PassDroppedKeeps, OthersInStore
<1>9. CASE \/ Delivers \/ PassClaims \/ PassRunsOut \/ PassSends \/ PassGivesBack
           \/ PassConfirmed \/ PassRefused \/ PassUnanswered \/ Lands
           \/ \E m \in Mark : LandsLate(m)
  <2>1. InStore'
    BY <1>9, OthersInStore
  <2>2. OnWire' /\ Past' /\ Counted' /\ Recorded' /\ Untried' /\ AskedIsServed'
    BY <1>9, DeliversKeeps, PassClaimsKeeps, PassRunsOutKeeps, PassSendsKeeps,
       PassGivesBackKeeps, AnswersKeep, LandsKeeps, LandsLateKeeps
  <2> QED BY <2>1, <2>2
<1>10. CASE Disconnects \/ Connects \/ Stops \/ Serves \/ UNCHANGED vars
  BY <1>10, QuietSteps, OthersInStore
<1>11. CASE Ends
  BY <1>11, CutShortDrops, PassDroppedKeeps, RestartInStore
<1>12. CASE Recovers
  BY <1>12, RecoversDelivery, RestartInStore
<1> QED BY <1>1, <1>2, <1>3, <1>4, <1>5, <1>7, <1>8, <1>9, <1>10, <1>11, <1>12, ActsKeep DEF Next

(* The invariant holds of every behaviour.                                  *)
LEMMA DeliveryInvariant == Spec => []DInv
<1>1. DInv /\ [Next]_vars => DInv'
  BY DeliveryInductive
<1> QED BY <1>1, DeliveryInitially, PTL DEF Spec

(* The ledger is never ahead of the store (persist's afterCommittedState,   *)
(* recoverAtStartup, completeSuppression): the batches it says are active   *)
(* or retired are so in what a restart would read, at whichever step of a   *)
(* surgery or of a start the process ends.                                  *)
THEOREM LedgerFollowsStore == Spec => []LedgerNeverAhead
<1>1. DInv => LedgerNeverAhead
  BY DEF DInv, InStore, BatchInStore, LedgerNeverAhead
<1> QED BY <1>1, DeliveryInvariant, PTL

(* A request that may land is on record (recordUnanswered, claim,           *)
(* recoverAtStartup): through crashes, unwritten answers and late effects,  *)
(* Discord differs from the last answer only where mayLand or sending says. *)
THEOREM RequestsOnRecord == Spec => []MayLandIsOnRecord
<1>1. ASSUME DInv PROVE MayLandIsOnRecord
  <2> SUFFICES ASSUME NEW m \in Mark
               PROVE  LET e == ledger.entry[m]
                          open == e.mayLand \cup {e.sending.action}
                      IN  /\ late[m] \subseteq open
                          /\ e.confirmed = "present" /\ "remove" \notin open => there[m]
                          /\ e.confirmed = "absent" /\ "add" \notin open => ~there[m]
                          /\ e.confirmed = "none" /\ "add" \notin open => ~there[m]
    BY DEF MayLandIsOnRecord
  <2>1. MarkRecorded(m)
    BY <1>1 DEF DInv, Recorded
  <2> QED BY <2>1 DEF MarkRecorded, MayHaveLanded
<1> QED BY <1>1, DeliveryInvariant, PTL

(* No mark is tried more often for one act than MAX_UNCONFIRMED_ATTEMPTS    *)
(* (countAttempt), whatever the constant: attempts cut off by a crash or a  *)
(* failed write are made up for when they are released.                     *)
THEOREM AttemptsBounded == Spec => []AttemptsAreCounted
<1>1. ASSUME DInv PROVE AttemptsAreCounted
  <2> SUFFICES ASSUME NEW m \in Mark PROVE tries[m] <= MaxAttempts
    BY DEF AttemptsAreCounted
  <2>1. MarkCounted(m) /\ MaxAttempts \in Nat \ {0}
    BY <1>1, LedgerConstants DEF DInv, Counted, LedgerConstants
  <2>2. tries[m] \in Nat /\ ledger.entry[m].due \in Nat /\ ledger.entry[m].attempts \in Nat
    BY <1>1, Known DEF DInv
  <2>3. OnTheWire(ledger.entry[m]) \in {0, 1}
    BY DEF OnTheWire
  <2> QED BY <2>1, <2>2, <2>3 DEF MarkCounted
<1> QED BY <1>1, DeliveryInvariant, PTL

(* No trigger is lost between two passes (drainDiscordAwarenessOutbox,      *)
(* runDiscordAwarenessDrain): while the route is open, what was asked for   *)
(* and is owed has a pass under way or one about to be asked for.           *)
THEOREM TriggersServed == Spec => []AskedIsServed
<1>1. DInv => AskedIsServed
  BY DEF DInv
<1> QED BY <1>1, DeliveryInvariant, PTL
=============================================================================
