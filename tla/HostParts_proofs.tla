------------------------- MODULE HostParts_proofs -------------------------
(***************************************************************************)
(* The held drafts of MCHostParts, proved for any senders, any bounds on   *)
(* drafts, sends and faults, and any number kept: what a process has in    *)
(* memory is what the journal holds, and words that may be posted already  *)
(* are not sent again unasked.                                             *)
(*                                                                         *)
(* The first part is about ReduceAll: what a log comes to is the last of a *)
(* run of states, one a record, and that such a run exists, is the only    *)
(* one and depends on the records alone is argued from a least record for  *)
(* which it fails.  The invariant has six parts.  Shape: memory is one of  *)
(* the Views, what a process that opens the journal may find.  Given:      *)
(* every view is of ids that were issued.  SendersOK: no two senders claim *)
(* one draft.  Frozen: a draft being sent is the same in every view, and   *)
(* its last attempt is open.  Bouncing: a bounce records an attempt for    *)
(* words that no one sent or that every view marks.  Risks: whatever may   *)
(* be out beside the sends under way is marked so in every view.           *)
(*                                                                         *)
(* The last part is about the types of all three parts; BounceOK adds that *)
(* the latest bounce was given an id, in every view.                       *)
(***************************************************************************)
EXTENDS MCHostParts, AwarenessOutbox_proofs, Sequences, WellFoundedInduction, TLAPS

-----------------------------------------------------------------------------
(* A set of naturals has a least member.                                    *)
LEMMA Least == ASSUME NEW T, T \subseteq Nat, T # {} PROVE \E n \in T : \A k \in T : n <= k
<1> DEFINE R == {p \in Nat \X Nat : p[1] < p[2]}
<1>1. R = OpToRel(<, Nat)
  BY DEF OpToRel
<1>2. IsWellFoundedOn(R, Nat)
  <2> HIDE DEF R
  <2> QED BY <1>1, NatLessThanWellFounded
<1>3. PICK n \in T : \A k \in T : ~ (<<k, n>> \in R)
  <2> HIDE DEF R
  <2> QED BY <1>2, WFMin
<1>4. ASSUME NEW k \in T PROVE n <= k
  <2>1. k \in Nat /\ n \in Nat /\ ~ (<<k, n>> \in R)
    BY <1>3
  <2>2. ~ (k < n)
    <3> SUFFICES ASSUME k < n PROVE FALSE
      OBVIOUS
    <3> QED  BY <2>1
  <2> QED  BY <2>1, <2>2
<1> QED BY <1>4

(* What the first n records come to, one after the other.                   *)
IsRun(f, p, entries, n) ==
    f = [i \in 0..n |-> IF i = 0 THEN p ELSE Drafts!Reduce(f[i - 1], entries[i])]

LEMMA RunOf ==
    ASSUME NEW p, NEW entries, NEW n \in Nat
    PROVE  \E f : IsRun(f, p, entries, n)
<1> DEFINE Bad == {k \in 0..n : ~ \E f : IsRun(f, p, entries, k)}
<1>1. Bad = {}
  <2> SUFFICES ASSUME Bad # {} PROVE FALSE
    OBVIOUS
  <2>1. PICK k \in Bad : \A j \in Bad : k <= j
    <3>1. Bad \subseteq Nat
      OBVIOUS
    <3> HIDE DEF Bad
    <3> QED  BY <3>1, Least
  <2>2. k \in 0..n /\ ~ \E f : IsRun(f, p, entries, k)
    OBVIOUS
  <2>3. k # 0
    <3>1. IsRun([i \in 0..0 |-> p], p, entries, 0)
      BY DEF IsRun
    <3> QED  BY <3>1, <2>2
  <2>4. k - 1 \in 0..n /\ k - 1 \notin Bad
    BY <2>1, <2>2, <2>3
  <2>5. PICK g : IsRun(g, p, entries, k - 1)
    BY <2>4
  <2> DEFINE h == [i \in 0..k |-> IF i = k THEN Drafts!Reduce(g[k - 1], entries[k]) ELSE g[i]]
  <2>6. \A i \in 0..(k - 1) : g[i] = IF i = 0 THEN p ELSE Drafts!Reduce(g[i - 1], entries[i])
    BY <2>5 DEF IsRun
  <2>7. ASSUME NEW i \in 0..k
        PROVE  h[i] = IF i = 0 THEN p ELSE Drafts!Reduce(h[i - 1], entries[i])
    <3>1. CASE i = k
      <4>1. k - 1 \in 0..k /\ k - 1 # k
        BY <2>2, <2>3
      <4> QED  BY <3>1, <4>1, <2>3
    <3>2. CASE i = 0
      BY <3>2, <2>3, <2>6, <2>2
    <3>3. CASE i # k /\ i # 0
      <4>1. i \in 0..(k - 1) /\ i - 1 \in 0..k /\ i - 1 # k
        BY <3>3, <2>2
      <4> QED  BY <4>1, <3>3, <2>6
    <3> QED  BY <3>1, <3>2, <3>3
  <2>8. IsRun(h, p, entries, k)
    BY <2>7 DEF IsRun
  <2> QED  BY <2>8, <2>2
<1>2. n \in 0..n
  OBVIOUS
<1> QED  BY <1>1, <1>2

(* Two logs that agree come to the same.                                    *)
LEMMA RunsAgree ==
    ASSUME NEW p, NEW f, NEW g, NEW es, NEW fs, NEW m \in Nat, NEW n \in Nat,
           NEW k \in 0..m, k <= n,
           IsRun(f, p, es, m), IsRun(g, p, fs, n), \A i \in 1..k : es[i] = fs[i]
    PROVE  f[k] = g[k]
<1> DEFINE Bad == {j \in 0..k : f[j] # g[j]}
<1>1. Bad = {}
  <2> SUFFICES ASSUME Bad # {} PROVE FALSE
    OBVIOUS
  <2>1. PICK j \in Bad : \A i \in Bad : j <= i
    <3>1. Bad \subseteq Nat
      OBVIOUS
    <3> HIDE DEF Bad
    <3> QED  BY <3>1, Least
  <2>2. \A i \in 0..m : f[i] = IF i = 0 THEN p ELSE Drafts!Reduce(f[i - 1], es[i])
    BY DEF IsRun
  <2>3. \A i \in 0..n : g[i] = IF i = 0 THEN p ELSE Drafts!Reduce(g[i - 1], fs[i])
    BY DEF IsRun
  <2>4. j # 0
    BY <2>2, <2>3
  <2>5. j - 1 \in 0..k /\ j - 1 \notin Bad
    BY <2>1, <2>4
  <2>6. j \in 0..m /\ j \in 0..n /\ es[j] = fs[j]
    BY <2>4
  <2> QED  BY <2>2, <2>3, <2>4, <2>5, <2>6
<1> QED  BY <1>1

LEMMA ReduceAllIs ==
    ASSUME NEW p, NEW entries, Len(entries) \in Nat
    PROVE  \E f : IsRun(f, p, entries, Len(entries))
             /\ Drafts!ReduceAll(p, entries) = f[Len(entries)]
<1> DEFINE n == Len(entries)
<1> DEFINE f == CHOOSE f : f = [i \in 0..n |-> IF i = 0 THEN p ELSE Drafts!Reduce(f[i - 1], entries[i])]
<1>1. IsRun(f, p, entries, n)
  <2>1. PICK g : IsRun(g, p, entries, n)
    BY RunOf
  <2>2. \E h : h = [i \in 0..n |-> IF i = 0 THEN p ELSE Drafts!Reduce(h[i - 1], entries[i])]
    BY <2>1 DEF IsRun
  <2>3. f = [i \in 0..n |-> IF i = 0 THEN p ELSE Drafts!Reduce(f[i - 1], entries[i])]
    BY <2>2, Zenon
  <2> QED  BY <2>3 DEF IsRun
<1>2. Drafts!ReduceAll(p, entries) = f[n]
  BY DEF Drafts!ReduceAll
<1> QED  BY <1>1, <1>2

LEMMA ReduceNone == ASSUME NEW p PROVE Drafts!ReduceAll(p, <<>>) = p
<1>1. Len(<<>>) = 0
  OBVIOUS
<1>2. PICK f : IsRun(f, p, <<>>, 0) /\ Drafts!ReduceAll(p, <<>>) = f[0]
  BY <1>1, ReduceAllIs
<1> QED  BY <1>2 DEF IsRun

(* Logs that agree up to their lengths.                                     *)
LEMMA ReduceAppend ==
    ASSUME NEW S, NEW entries \in Seq(S), NEW e \in S, NEW p
    PROVE  Drafts!ReduceAll(p, Append(entries, e)) = Drafts!Reduce(Drafts!ReduceAll(p, entries), e)
<1>1. PICK n \in Nat : n = Len(entries)
  OBVIOUS
<1>2. PICK more : more = Append(entries, e)
  OBVIOUS
<1>3. Len(more) = n + 1 /\ more[n + 1] = e /\ \A i \in 1..n : entries[i] = more[i]
  BY <1>1, <1>2
<1>4. PICK f : IsRun(f, p, entries, n) /\ Drafts!ReduceAll(p, entries) = f[n]
  BY <1>1, ReduceAllIs
<1>5. PICK g : IsRun(g, p, more, n + 1) /\ Drafts!ReduceAll(p, more) = g[n + 1]
  <2>1. Len(more) \in Nat
    BY <1>3
  <2>2. PICK g : IsRun(g, p, more, Len(more)) /\ Drafts!ReduceAll(p, more) = g[Len(more)]
    BY <2>1, ReduceAllIs
  <2> QED  BY <2>2, <1>3
<1>6. f[n] = g[n]
  <2>1. n \in 0..n /\ n <= n + 1 /\ n + 1 \in Nat
    OBVIOUS
  <2>2. PICK m \in Nat : m = n + 1
    OBVIOUS
  <2>3. IsRun(g, p, more, m) /\ n <= m
    BY <2>2, <1>5
  <2> QED  BY <1>3, <1>4, <2>1, <2>3, RunsAgree
<1>7. g[n + 1] = Drafts!Reduce(g[n], more[n + 1])
  <2>1. n + 1 \in 0..(n + 1) /\ n + 1 # 0 /\ (n + 1) - 1 = n
    OBVIOUS
  <2> QED  BY <1>5, <2>1 DEF IsRun
<1> QED  BY <1>2, <1>3, <1>4, <1>5, <1>6, <1>7

-----------------------------------------------------------------------------
(* One record.                                                              *)
IsProjection(P) ==
    /\ P = [drafts |-> P.drafts, latest |-> P.latest]
    /\ P.drafts = [d \in DOMAIN P.drafts |-> P.drafts[d]]
    /\ DOMAIN P.drafts \subseteq Drafts!Ids
    /\ \A d \in DOMAIN P.drafts : P.drafts[d] \in Drafts!Draft
    /\ P.latest \in 0..MaxDrafts

Kinds ==
         [op : {"held"}, id : Drafts!Ids, bounced : BOOLEAN, risk : BOOLEAN]
    \cup [op : {"attempt", "dismissed"}, id : Drafts!Ids]
    \cup [op : {"outcome"}, id : Drafts!Ids, attempt : Nat, status : Drafts!Status]
    \cup [op : {"checkpoint"}, gone : SUBSET Drafts!Ids]

LEMMA KindsAre ==
    /\ \A d \in Drafts!Ids, b, r \in BOOLEAN : Drafts!Held(d, b, r) \in Kinds
    /\ \A d \in Drafts!Ids : Drafts!Attempt(d) \in Kinds /\ Drafts!Dismissed(d) \in Kinds
    /\ \A d \in Drafts!Ids, n \in Nat, status \in Drafts!Status : Drafts!Outcome(d, n, status) \in Kinds
    /\ \A gone \in SUBSET Drafts!Ids : Drafts!Checkpoint(gone) \in Kinds
BY DEF Kinds, Drafts!Held, Drafts!Attempt, Drafts!Dismissed, Drafts!Outcome, Drafts!Checkpoint

(* A draft as it is held, and its attempts once one has its outcome.        *)
AsHeld(r) == [risk |-> r, dismissed |-> FALSE, attempts |-> <<>>]
Answers(a, n, status) == [a EXCEPT ![n] = status]

LEMMA ReduceHeld ==
    ASSUME NEW P, IsProjection(P), NEW d \in Drafts!Ids, NEW b \in BOOLEAN, NEW r \in BOOLEAN
    PROVE  LET Q == Drafts!Reduce(P, Drafts!Held(d, b, r)) IN
           /\ IsProjection(Q)
           /\ DOMAIN Q.drafts = DOMAIN P.drafts \cup {d}
           /\ Q.drafts[d] = AsHeld(r)
           /\ \A x \in DOMAIN P.drafts : x # d => Q.drafts[x] = P.drafts[x]
           /\ Q.latest = IF b THEN d ELSE P.latest
<1> DEFINE D == [x \in DOMAIN P.drafts \cup {d} |->
                    IF x = d THEN [risk |-> r, dismissed |-> FALSE, attempts |-> <<>>] ELSE P.drafts[x]]
           z == IF b THEN d ELSE P.latest
           Q == Drafts!Reduce(P, Drafts!Held(d, b, r))
<1>1. Q = [drafts |-> D, latest |-> z]
  BY DEF Drafts!Reduce, Drafts!Held
<1>2. z \in 0..MaxDrafts
  BY PartsConstants DEF IsProjection, Drafts!Ids, Drafts!DraftsConstants
<1>3. [risk |-> r, dismissed |-> FALSE, attempts |-> <<>>] \in Drafts!Draft
  BY DEF Drafts!Draft
<1>4. DOMAIN D \subseteq Drafts!Ids /\ \A x \in DOMAIN D : D[x] \in Drafts!Draft
  BY <1>3 DEF IsProjection
<1>5. Q.drafts = D /\ Q.latest = z
  BY <1>1
<1>6. D = [x \in DOMAIN D |-> D[x]]
  OBVIOUS
<1> HIDE DEF D, z
<1>7. IsProjection(Q)
  BY <1>1, <1>2, <1>4, <1>5, <1>6 DEF IsProjection
<1> QED  BY <1>5, <1>7 DEF D, z, AsHeld

LEMMA ReduceAbsent ==
    ASSUME NEW P,
           NEW e, e.op \in {"attempt", "outcome", "dismissed"}, e.id \notin DOMAIN P.drafts
    PROVE  Drafts!Reduce(P, e) = P
BY DEF Drafts!Reduce

LEMMA ReduceChanged ==
    ASSUME NEW P, IsProjection(P), NEW d \in DOMAIN P.drafts, NEW R \in Drafts!Draft, NEW Q,
           Q = [P EXCEPT !.drafts[d] = R]
    PROVE  /\ IsProjection(Q)
           /\ DOMAIN Q.drafts = DOMAIN P.drafts
           /\ Q.drafts[d] = R
           /\ \A x \in DOMAIN P.drafts : x # d => Q.drafts[x] = P.drafts[x]
           /\ Q.latest = P.latest
<1> DEFINE D == [P.drafts EXCEPT ![d] = R]
<1>1. Q = [drafts |-> D, latest |-> P.latest]
  BY DEF IsProjection
<1>2. Q.drafts = D /\ Q.latest = P.latest
  BY <1>1
<1>3. DOMAIN D = DOMAIN P.drafts /\ D[d] = R /\ \A x \in DOMAIN P.drafts : x # d
        => D[x] = P.drafts[x]
  OBVIOUS
<1>4. D = [x \in DOMAIN D |-> D[x]]
  BY DEF IsProjection
<1> HIDE DEF D
<1>5. IsProjection(Q)
  BY <1>1, <1>2, <1>3, <1>4 DEF IsProjection
<1> QED  BY <1>2, <1>3, <1>5

LEMMA DraftFields ==
    ASSUME NEW D \in Drafts!Draft
    PROVE  /\ D.risk \in BOOLEAN /\ D.dismissed \in BOOLEAN /\ D.attempts \in Seq(Drafts!Status)
           /\ \A a \in Seq(Drafts!Status) : [D EXCEPT !.attempts = a] \in Drafts!Draft
           /\ \A a \in Seq(Drafts!Status) : [D EXCEPT !.attempts = a].attempts = a
           /\ \A a : [D EXCEPT !.attempts = a].risk = D.risk
           /\ \A a : [D EXCEPT !.attempts = a].dismissed = D.dismissed
           /\ [D EXCEPT !.dismissed = TRUE] \in Drafts!Draft
           /\ [D EXCEPT !.dismissed = TRUE].risk = D.risk
           /\ [D EXCEPT !.dismissed = TRUE].attempts = D.attempts
BY DEF Drafts!Draft

LEMMA AnotherStatus ==
    ASSUME NEW a \in Seq(Drafts!Status)
    PROVE  Append(a, "unknown") \in Seq(Drafts!Status)
BY DEF Drafts!Status

LEMMA ChangedStatus ==
    ASSUME NEW a \in Seq(Drafts!Status), NEW n \in Nat, NEW status \in Drafts!Status
    PROVE  /\ [a EXCEPT ![n] = status] \in Seq(Drafts!Status)
           /\ Len([a EXCEPT ![n] = status]) = Len(a)
<1> DEFINE b == [a EXCEPT ![n] = status]
<1>1. a \in [1..Len(a) -> Drafts!Status] /\ Len(a) \in Nat
  OBVIOUS
<1>2. b \in [1..Len(a) -> Drafts!Status]
  BY <1>1
<1> HIDE DEF b
<1>3. b \in Seq(Drafts!Status)
  BY <1>1, <1>2
<1>4. Len(b) = Len(a)
  BY <1>1, <1>2
<1> QED  BY <1>3, <1>4 DEF b

LEMMA ReduceDismissed ==
    ASSUME NEW P, IsProjection(P), NEW d \in DOMAIN P.drafts
    PROVE  LET Q == Drafts!Reduce(P, Drafts!Dismissed(d)) IN
           /\ IsProjection(Q)
           /\ DOMAIN Q.drafts = DOMAIN P.drafts
           /\ Q.drafts[d].risk = P.drafts[d].risk
           /\ Q.drafts[d].attempts = P.drafts[d].attempts
           /\ \A x \in DOMAIN P.drafts : x # d => Q.drafts[x] = P.drafts[x]
           /\ Q.latest = P.latest
<1>1. P.drafts[d] \in Drafts!Draft
  BY DEF IsProjection
<1>2. PICK R \in Drafts!Draft : R = [P.drafts[d] EXCEPT !.dismissed = TRUE]
  BY <1>1, DraftFields
<1>3. Drafts!Reduce(P, Drafts!Dismissed(d)) = [P EXCEPT !.drafts[d] = R]
  BY <1>2 DEF Drafts!Reduce, Drafts!Dismissed, IsProjection
<1>4. PICK Q : Q = Drafts!Reduce(P, Drafts!Dismissed(d))
  OBVIOUS
<1>5. /\ IsProjection(Q) /\ DOMAIN Q.drafts = DOMAIN P.drafts /\ Q.drafts[d] = R
      /\ \A x \in DOMAIN P.drafts : x # d => Q.drafts[x] = P.drafts[x]
      /\ Q.latest = P.latest
  BY <1>3, <1>4, ReduceChanged
<1>6. R.risk = P.drafts[d].risk /\ R.attempts = P.drafts[d].attempts
  BY <1>1, <1>2, DraftFields
<1> QED  BY <1>4, <1>5, <1>6

LEMMA ReduceAttempt ==
    ASSUME NEW P, IsProjection(P), NEW d \in DOMAIN P.drafts
    PROVE  LET Q == Drafts!Reduce(P, Drafts!Attempt(d)) IN
           /\ IsProjection(Q)
           /\ DOMAIN Q.drafts = DOMAIN P.drafts
           /\ Q.drafts[d].risk = P.drafts[d].risk
           /\ Q.drafts[d].dismissed = P.drafts[d].dismissed
           /\ Q.drafts[d].attempts = Append(P.drafts[d].attempts, "unknown")
           /\ \A x \in DOMAIN P.drafts : x # d => Q.drafts[x] = P.drafts[x]
           /\ Q.latest = P.latest
<1>1. P.drafts[d] \in Drafts!Draft
  BY DEF IsProjection
<1>2. P.drafts[d].attempts \in Seq(Drafts!Status)
  BY <1>1, DraftFields
<1>3. PICK a \in Seq(Drafts!Status) : a = Append(P.drafts[d].attempts, "unknown")
  BY <1>2, AnotherStatus
<1>4. PICK R \in Drafts!Draft : R = [P.drafts[d] EXCEPT !.attempts = a]
  BY <1>1, DraftFields
<1>5. Drafts!Reduce(P, Drafts!Attempt(d)) = [P EXCEPT !.drafts[d] = R]
  BY <1>3, <1>4 DEF Drafts!Reduce, Drafts!Attempt, IsProjection
<1>6. PICK Q : Q = Drafts!Reduce(P, Drafts!Attempt(d))
  OBVIOUS
<1>7. /\ IsProjection(Q) /\ DOMAIN Q.drafts = DOMAIN P.drafts /\ Q.drafts[d] = R
      /\ \A x \in DOMAIN P.drafts : x # d => Q.drafts[x] = P.drafts[x]
      /\ Q.latest = P.latest
  BY <1>5, <1>6, ReduceChanged
<1>8. R.risk = P.drafts[d].risk /\ R.dismissed = P.drafts[d].dismissed /\ R.attempts = a
  BY <1>1, <1>4, DraftFields
<1> QED  BY <1>3, <1>6, <1>7, <1>8 DEF Answers

LEMMA ReduceOutcome ==
    ASSUME NEW P, IsProjection(P), NEW d \in DOMAIN P.drafts, NEW n \in Nat,
           NEW status \in Drafts!Status
    PROVE  LET Q == Drafts!Reduce(P, Drafts!Outcome(d, n, status)) IN
           /\ IsProjection(Q)
           /\ DOMAIN Q.drafts = DOMAIN P.drafts
           /\ Q.drafts[d].risk = P.drafts[d].risk
           /\ Q.drafts[d].dismissed = P.drafts[d].dismissed
           /\ Q.drafts[d].attempts = Answers(P.drafts[d].attempts, n, status)
           /\ \A x \in DOMAIN P.drafts : x # d => Q.drafts[x] = P.drafts[x]
           /\ Q.latest = P.latest
<1>1. P.drafts[d] \in Drafts!Draft
  BY DEF IsProjection
<1>2. P.drafts[d].attempts \in Seq(Drafts!Status)
  BY <1>1, DraftFields
<1>3. PICK a \in Seq(Drafts!Status) : a = [P.drafts[d].attempts EXCEPT ![n] = status]
  BY <1>2, ChangedStatus
<1>4. PICK R \in Drafts!Draft : R = [P.drafts[d] EXCEPT !.attempts = a]
  BY <1>1, DraftFields
<1>5. Drafts!Reduce(P, Drafts!Outcome(d, n, status)) = [P EXCEPT !.drafts[d] = R]
  BY <1>3, <1>4 DEF Drafts!Reduce, Drafts!Outcome, IsProjection
<1>6. PICK Q : Q = Drafts!Reduce(P, Drafts!Outcome(d, n, status))
  OBVIOUS
<1>7. /\ IsProjection(Q) /\ DOMAIN Q.drafts = DOMAIN P.drafts /\ Q.drafts[d] = R
      /\ \A x \in DOMAIN P.drafts : x # d => Q.drafts[x] = P.drafts[x]
      /\ Q.latest = P.latest
  BY <1>5, <1>6, ReduceChanged
<1>8. R.risk = P.drafts[d].risk /\ R.dismissed = P.drafts[d].dismissed /\ R.attempts = a
  BY <1>1, <1>4, DraftFields
<1> QED  BY <1>3, <1>6, <1>7, <1>8 DEF Answers

LEMMA ReduceCheckpointIs ==
    ASSUME NEW P, IsProjection(P), NEW gone,
           NEW Q, Q = Drafts!Reduce(P, Drafts!Checkpoint(gone))
    PROVE  /\ Q = [drafts |-> Q.drafts, latest |-> P.latest]
           /\ Q.drafts = Drafts!Restrict(P.drafts, DOMAIN P.drafts \ gone)
BY DEF Drafts!Reduce, Drafts!Checkpoint, IsProjection

LEMMA ReduceCheckpoint ==
    ASSUME NEW P, IsProjection(P), NEW gone \in SUBSET Drafts!Ids,
           NEW Q, Q = Drafts!Reduce(P, Drafts!Checkpoint(gone))
    PROVE  /\ IsProjection(Q)
           /\ DOMAIN Q.drafts = DOMAIN P.drafts \ gone
           /\ \A x \in DOMAIN P.drafts \ gone : Q.drafts[x] = P.drafts[x]
<1> DEFINE D == [x \in DOMAIN P.drafts \ gone |-> P.drafts[x]]
<1>1. D = Drafts!Restrict(P.drafts, DOMAIN P.drafts \ gone)
  BY DEF Drafts!Restrict
<1>2. Q = [drafts |-> D, latest |-> P.latest]
  BY <1>1, ReduceCheckpointIs
<1>3. Q.drafts = D /\ Q.latest = P.latest
  BY <1>2
<1>4. DOMAIN D = DOMAIN P.drafts \ gone /\ \A x \in DOMAIN P.drafts \ gone : D[x] = P.drafts[x]
  OBVIOUS
<1>5. D = [x \in DOMAIN D |-> D[x]]
  OBVIOUS
<1> HIDE DEF D
<1>6. IsProjection(Q)
  BY <1>2, <1>3, <1>4, <1>5 DEF IsProjection
<1> QED  BY <1>3, <1>4, <1>6

(* A record touches one draft, a checkpoint those it lets go of.            *)
Touches(e, d) == IF e.op = "checkpoint" THEN d \in e.gone ELSE e.id = d

LEMMA ReduceOther ==
    ASSUME NEW P, IsProjection(P), NEW e \in Kinds
    PROVE  /\ IsProjection(Drafts!Reduce(P, e))
           /\ e.op # "held" => DOMAIN Drafts!Reduce(P, e).drafts \subseteq DOMAIN P.drafts
           /\ e.op # "checkpoint" => DOMAIN P.drafts \subseteq DOMAIN Drafts!Reduce(P, e).drafts
           /\ \A d \in DOMAIN Drafts!Reduce(P, e).drafts : e.op = "checkpoint" \/ ~ Touches(e, d) =>
                 d \in DOMAIN P.drafts /\ Drafts!Reduce(P, e).drafts[d] = P.drafts[d]
           /\ \A d \in DOMAIN P.drafts : ~ Touches(e, d)
                => d \in DOMAIN Drafts!Reduce(P, e).drafts
<1>1. CASE e \in [op : {"held"}, id : Drafts!Ids, bounced : BOOLEAN, risk : BOOLEAN]
  <2>1. e = Drafts!Held(e.id, e.bounced, e.risk) /\ e.id \in Drafts!Ids /\ e.bounced \in BOOLEAN
          /\ e.risk \in BOOLEAN
    BY <1>1 DEF Drafts!Held
  <2>2. e.op = "held"
    BY <1>1
  <2>3. PICK d \in Drafts!Ids, b \in BOOLEAN, r \in BOOLEAN : e = Drafts!Held(d, b, r)
               /\ e.id = d
    BY <2>1
  <2>4. PICK R : R = Drafts!Reduce(P, Drafts!Held(d, b, r))
    OBVIOUS
  <2>5. /\ IsProjection(R) /\ DOMAIN R.drafts = DOMAIN P.drafts \cup {d}
        /\ \A x \in DOMAIN P.drafts : x # d => R.drafts[x] = P.drafts[x]
    BY <2>4, ReduceHeld
  <2> QED  BY <2>2, <2>3, <2>4, <2>5 DEF Touches
<1>2. CASE e \in Kinds \ [op : {"checkpoint"}, gone : SUBSET Drafts!Ids] /\ e.op # "held"
             /\ e.id \notin DOMAIN P.drafts
  <2>1. e.op \in {"attempt", "outcome", "dismissed"}
    BY <1>2 DEF Kinds
  <2>2. Drafts!Reduce(P, e) = P
    BY <1>2, <2>1, ReduceAbsent
  <2> QED  BY <2>1, <2>2
<1>3. CASE e \in [op : {"attempt", "dismissed"}, id : Drafts!Ids] /\ e.id \in DOMAIN P.drafts
  <2>1. e = Drafts!Attempt(e.id) \/ e = Drafts!Dismissed(e.id)
    BY <1>3 DEF Drafts!Attempt, Drafts!Dismissed
  <2>2. e.op # "held" /\ e.op # "checkpoint"
    BY <1>3
  <2>3. /\ IsProjection(Drafts!Reduce(P, e))
             /\ DOMAIN Drafts!Reduce(P, e).drafts = DOMAIN P.drafts
        /\ \A x \in DOMAIN P.drafts : x # e.id => Drafts!Reduce(P, e).drafts[x] = P.drafts[x]
    <3>1. PICK d \in DOMAIN P.drafts : d = e.id
      BY <1>3
    <3>2. PICK Q : Q = Drafts!Reduce(P, e)
      OBVIOUS
    <3>3. /\ IsProjection(Q) /\ DOMAIN Q.drafts = DOMAIN P.drafts
          /\ \A x \in DOMAIN P.drafts : x # d => Q.drafts[x] = P.drafts[x]
      <4>1. CASE Q = Drafts!Reduce(P, Drafts!Attempt(d))
        BY <4>1, ReduceAttempt
      <4>2. CASE Q = Drafts!Reduce(P, Drafts!Dismissed(d))
        BY <4>2, ReduceDismissed
      <4> QED  BY <2>1, <3>1, <3>2, <4>1, <4>2
    <3> QED  BY <3>1, <3>2, <3>3
  <2> QED  BY <2>2, <2>3 DEF Touches
<1>4. CASE e \in [op : {"outcome"}, id : Drafts!Ids, attempt : Nat, status : Drafts!Status]
             /\ e.id \in DOMAIN P.drafts
  <2>1. e = Drafts!Outcome(e.id, e.attempt, e.status) /\ e.attempt \in Nat
          /\ e.status \in Drafts!Status
    BY <1>4 DEF Drafts!Outcome
  <2>2. e.op # "held" /\ e.op # "checkpoint"
    BY <1>4
  <2>3. PICK d \in DOMAIN P.drafts, n \in Nat, status \in Drafts!Status : e = Drafts!Outcome(d, n, status) /\ e.id = d
    BY <1>4, <2>1
  <2>4. PICK Q : Q = Drafts!Reduce(P, Drafts!Outcome(d, n, status))
    OBVIOUS
  <2>5. /\ IsProjection(Q) /\ DOMAIN Q.drafts = DOMAIN P.drafts
        /\ \A x \in DOMAIN P.drafts : x # d => Q.drafts[x] = P.drafts[x]
    BY <2>4, ReduceOutcome
  <2> QED  BY <2>2, <2>3, <2>4, <2>5 DEF Touches
<1>5. CASE e \in [op : {"checkpoint"}, gone : SUBSET Drafts!Ids]
  <2>1. e = Drafts!Checkpoint(e.gone) /\ e.gone \in SUBSET Drafts!Ids
    BY <1>5 DEF Drafts!Checkpoint
  <2>2. e.op = "checkpoint"
    BY <1>5
  <2>3. PICK g \in SUBSET Drafts!Ids : g = e.gone /\ e = Drafts!Checkpoint(g)
    BY <2>1
  <2>4. PICK Q : Q = Drafts!Reduce(P, Drafts!Checkpoint(g))
    OBVIOUS
  <2>5. /\ IsProjection(Q) /\ DOMAIN Q.drafts = DOMAIN P.drafts \ g
        /\ \A x \in DOMAIN P.drafts \ g : Q.drafts[x] = P.drafts[x]
    BY <2>3, <2>4, ReduceCheckpoint
  <2>6. Q = Drafts!Reduce(P, e)
    BY <2>3, <2>4
  <2>7. \A x \in DOMAIN P.drafts : ~ Touches(e, x) => x \notin g
    BY <2>2, <2>3 DEF Touches
  <2> QED  BY <2>2, <2>3, <2>5, <2>6, <2>7
<1> QED  BY <1>1, <1>2, <1>3, <1>4, <1>5 DEF Kinds

-----------------------------------------------------------------------------
(* What the records a process may find come to.                             *)
ViewsOf(l, log) == {Drafts!ReduceAll(l, SubSeq(log, 1, k)) : k \in 0..Len(log)}
Log == tail \o unseen
Views == ViewsOf(lasting, Log)

LEMMA ViewsNone == ASSUME NEW l PROVE ViewsOf(l, <<>>) = {l}
<1>1. Len(<<>>) = 0 /\ SubSeq(<<>>, 1, 0) = <<>> /\ 0..0 = {0}
  OBVIOUS
<1>2. Drafts!ReduceAll(l, SubSeq(<<>>, 1, 0)) = l
  BY <1>1, ReduceNone
<1> QED  BY <1>1, <1>2 DEF ViewsOf

LEMMA ViewsWhole ==
    ASSUME NEW l, NEW S, NEW log \in Seq(S)
    PROVE  Drafts!ReduceAll(l, log) \in ViewsOf(l, log)
<1>1. Len(log) \in 0..Len(log) /\ SubSeq(log, 1, Len(log)) = log
  OBVIOUS
<1> QED  BY <1>1 DEF ViewsOf

LEMMA ViewsPart ==
    ASSUME NEW l, NEW S, NEW log \in Seq(S), NEW n \in 0..Len(log)
    PROVE  ViewsOf(l, SubSeq(log, 1, n)) \subseteq ViewsOf(l, log)
<1> SUFFICES ASSUME NEW k \in 0..Len(SubSeq(log, 1, n))
             PROVE  Drafts!ReduceAll(l, SubSeq(SubSeq(log, 1, n), 1, k)) \in ViewsOf(l, log)
  BY DEF ViewsOf
<1>1. Len(SubSeq(log, 1, n)) = n
  OBVIOUS
<1>2. k \in 0..n /\ k \in 0..Len(log)
  BY <1>1
<1>3. SubSeq(SubSeq(log, 1, n), 1, k) = SubSeq(log, 1, k)
  BY <1>2
<1> QED  BY <1>2, <1>3 DEF ViewsOf

LEMMA ViewsAppend ==
    ASSUME NEW l, NEW S, NEW log \in Seq(S), NEW e \in S
    PROVE  ViewsOf(l, Append(log, e)) = ViewsOf(l, log) \cup {Drafts!Reduce(Drafts!ReduceAll(l, log), e)}
<1> DEFINE n == Len(log)
           more == Append(log, e)
<1>1. n \in Nat /\ Len(more) = n + 1 /\ SubSeq(more, 1, n + 1) = more /\ more \in Seq(S)
  OBVIOUS
<1>2. \A k \in 0..n : SubSeq(more, 1, k) = SubSeq(log, 1, k)
  OBVIOUS
<1>3. Drafts!ReduceAll(l, more) = Drafts!Reduce(Drafts!ReduceAll(l, log), e)
  BY ReduceAppend
<1> HIDE DEF n, more
<1>4. 0..(n + 1) = 0..n \cup {n + 1}
  BY <1>1
<1>5. ViewsOf(l, more) = {Drafts!ReduceAll(l, SubSeq(more, 1, k)) : k \in 0..n} \cup {Drafts!ReduceAll(l, more)}
  BY <1>1, <1>4 DEF ViewsOf
<1>6. {Drafts!ReduceAll(l, SubSeq(more, 1, k)) : k \in 0..n} = {Drafts!ReduceAll(l, SubSeq(log, 1, k)) : k \in 0..n}
  BY <1>2
<1> QED  BY <1>3, <1>5, <1>6 DEF ViewsOf, n, more

-----------------------------------------------------------------------------
(* What the process has in memory and the journal.                          *)
Shape ==
    /\ tail \in Seq(Kinds) /\ unseen \in Seq(Kinds)
    /\ doubt \in {"none", "reconcile", "reopen"}
    /\ call \in {"opening", "none", "reload", "checkpoint"}
    /\ unseen # <<>> => doubt = "reopen"
    /\ call = "reload" => doubt = "reconcile"
    /\ call \in {"opening", "checkpoint"} => doubt = "none"
    /\ \A P \in Views : IsProjection(P)
    /\ call # "opening" => Drafts!Projection \in Views
    /\ call \in {"none", "checkpoint"} /\ doubt # "reconcile"
         => Drafts!Projection = Drafts!Replayed

LEMMA ReplayedIsSeen ==
    ASSUME tail \in Seq(Kinds), unseen \in Seq(Kinds)
    PROVE  Drafts!Replayed \in Views
<1>1. Log \in Seq(Kinds) /\ Len(tail) \in 0..Len(Log) /\ SubSeq(Log, 1, Len(tail)) = tail
  BY DEF Log
<1> QED  BY <1>1 DEF Drafts!Replayed, Views, ViewsOf

LEMMA LogSeen ==
    ASSUME tail \in Seq(Kinds)
    PROVE  /\ unseen = <<>> => Log = tail
           /\ \A e \in Kinds : unseen = <<e>> => Log = Append(tail, e)
<1>1. unseen = <<>> => Log = tail
  BY DEF Log
<1>2. ASSUME NEW e \in Kinds, unseen = <<e>>
      PROVE  Log = Append(tail, e)
  <2>1. tail \o <<e>> = Append(tail, e)
    OBVIOUS
  <2> QED  BY <1>2, <2>1 DEF Log
<1> QED  BY <1>1, <1>2

LEMMA FormOf == ASSUME NEW P, IsProjection(P)
                PROVE  [drafts |-> P.drafts, latest |-> P.latest] = P
BY DEF IsProjection

LEMMA ProjectedIs ==
    ASSUME NEW P, IsProjection(P), Drafts!Projected(P)
    PROVE  Drafts!Projection' = P
BY DEF Drafts!Projected, Drafts!Projection, IsProjection

(* A write that returns.                                                    *)
LEMMA WritesShape ==
    ASSUME Shape, call = "none", NEW e \in Kinds, Drafts!Writes(e)
    PROVE  /\ Shape' /\ doubt = "none" /\ Drafts!Projection \in Views
           /\ Views' = {Drafts!Reduce(Drafts!Projection, e)}
                /\ Drafts!Projection' = Drafts!Reduce(Drafts!Projection, e)
           /\ call' \in {"none", "checkpoint"}
<1>1. doubt = "none" /\ Drafts!Projection = Drafts!Replayed /\ Drafts!Projection \in Views
        /\ IsProjection(Drafts!Projection)
  BY DEF Drafts!Writes, Shape
<1>2. tail' = <<>> /\ unseen' = <<>> /\ doubt' = "none"
        /\ lasting' = Drafts!Reduce(Drafts!Projection, e)
  BY <1>1 DEF Drafts!Writes, Shape
<1>3. IsProjection(Drafts!Reduce(Drafts!Projection, e))
  BY <1>1, ReduceOther
<1>4. Drafts!Projection' = Drafts!Reduce(Drafts!Projection, e)
  <2>1. Drafts!Projected(Drafts!Reduce(Drafts!Projection, e))
    BY DEF Drafts!Writes
  <2> QED  BY <1>3, <2>1, ProjectedIs
<1>5. Views' = ViewsOf(lasting', <<>>)
  <2>1. Log' = <<>>
    BY <1>2 DEF Log
  <2> QED  BY <2>1 DEF Views
<1>6. Views' = {Drafts!Reduce(Drafts!Projection, e)}
  BY <1>2, <1>5, ViewsNone
<1>7. Drafts!Replayed' = Drafts!Reduce(Drafts!Projection, e)
  BY <1>2, ReduceNone DEF Drafts!Replayed
<1>8. call' \in {"none", "checkpoint"}
  BY DEF Drafts!Writes, Drafts!MaybeDue
<1>9. tail' \in Seq(Kinds) /\ unseen' \in Seq(Kinds)
  BY <1>2
<1>10. Shape'
  BY <1>2, <1>3, <1>4, <1>6, <1>7, <1>8, <1>9 DEF Shape
<1> QED  BY <1>1, <1>4, <1>6, <1>8, <1>10

(* The records grow by one that is seen, or by one that a later process may *)
(* see.                                                                     *)
LEMMA AppendedView ==
    ASSUME Shape, unseen = <<>>, NEW e \in Kinds,
           tail' = Append(tail, e), lasting' = lasting, unseen' = unseen
    PROVE  /\ tail' \in Seq(Kinds)
           /\ Views' = Views \cup {Drafts!Reduce(Drafts!Replayed, e)}
           /\ Drafts!Replayed' = Drafts!Reduce(Drafts!Replayed, e)
<1>1. tail \in Seq(Kinds) /\ tail' \in Seq(Kinds)
  BY DEF Shape
<1>2. Log = tail /\ Log' = tail'
  BY <1>1, LogSeen DEF Log
<1>3. Views' = ViewsOf(lasting, Append(tail, e)) /\ Views = ViewsOf(lasting, tail)
  BY <1>2 DEF Views
<1>4. Drafts!Replayed' = Drafts!Reduce(Drafts!Replayed, e)
  BY <1>1, ReduceAppend DEF Drafts!Replayed
<1> QED  BY <1>1, <1>3, <1>4, ViewsAppend DEF Drafts!Replayed

LEMMA ThrownView ==
    ASSUME Shape, unseen = <<>>, NEW e \in Kinds,
           tail' = tail, lasting' = lasting, unseen' \in {<<>>, <<e>>}
    PROVE  /\ unseen' \in Seq(Kinds)
           /\ Views \subseteq Views'
                /\ Views' \subseteq Views \cup {Drafts!Reduce(Drafts!Replayed, e)}
           /\ Drafts!Replayed' = Drafts!Replayed
<1>0. <<>> \in Seq(Kinds) /\ <<e>> \in Seq(Kinds)
  OBVIOUS
<1>1. tail \in Seq(Kinds) /\ unseen' \in Seq(Kinds)
  BY <1>0 DEF Shape
<1>2. Log = tail
  BY <1>1, LogSeen
<1>3. Drafts!Replayed' = Drafts!Replayed
  BY DEF Drafts!Replayed
<1>4. CASE unseen' = <<>>
  <2>1. Log' = Log
    BY <1>4 DEF Log
  <2>2. Views' = Views
    BY <2>1 DEF Views
  <2> QED  BY <1>1, <1>3, <2>2
<1>5. CASE unseen' = <<e>>
  <2>1. Log' = Append(tail, e)
    BY <1>1, <1>5 DEF Log
  <2>2. Views' = ViewsOf(lasting, Append(tail, e)) /\ Views = ViewsOf(lasting, tail)
    BY <1>2, <2>1 DEF Views
  <2>3. ViewsOf(lasting, Append(tail, e)) = ViewsOf(lasting, tail) \cup {Drafts!Reduce(Drafts!Replayed, e)}
    BY <1>1, ViewsAppend DEF Drafts!Replayed
  <2> QED  BY <1>1, <1>3, <2>2, <2>3
<1> QED  BY <1>4, <1>5

LEMMA StillShape ==
    ASSUME Shape, UNCHANGED <<Drafts!journal, Drafts!projection, call>>
    PROVE  Shape' /\ Views' = Views /\ Drafts!Projection' = Drafts!Projection
             /\ Drafts!Replayed' = Drafts!Replayed
<1>1. UNCHANGED <<lasting, tail, unseen, doubt, drafts, latestBounce, call>>
  BY DEF Drafts!journal, Drafts!projection
<1>2. Views' = Views /\ Drafts!Projection' = Drafts!Projection
        /\ Drafts!Replayed' = Drafts!Replayed
  BY <1>1 DEF Views, Log, Drafts!Projection, Drafts!Replayed
<1> QED  BY <1>1, <1>2 DEF Shape

(* A write that fails, wherever it does.                                    *)
LEMMA FailsShape ==
    ASSUME Shape, call = "none", NEW e \in Kinds, Drafts!Fails(e)
    PROVE  /\ Shape' /\ Drafts!Projection \in Views /\ Drafts!Projection' = Drafts!Projection
           /\ call' \in {"none", "reload"}
           /\ Views \subseteq Views'
                /\ Views' \subseteq Views \cup {Drafts!Reduce(Drafts!Projection, e)}
           /\ Views' = Views \/ doubt = "none"
<1>1. Drafts!Projection \in Views /\ Drafts!Projection' = Drafts!Projection
  BY DEF Shape, Drafts!Fails, Drafts!Projection, Drafts!projection
<1>2. CASE doubt = "none" /\ Drafts!AppendThrows(e) /\ call' = "none" /\ Drafts!Faulty
  <2>1. unseen = <<>> /\ Drafts!Projection = Drafts!Replayed
    BY <1>2 DEF Shape
  <2>2. /\ unseen' \in Seq(Kinds) /\ Drafts!Replayed' = Drafts!Replayed
        /\ Views \subseteq Views'
             /\ Views' \subseteq Views \cup {Drafts!Reduce(Drafts!Replayed, e)}
    BY <1>2, <2>1, ThrownView DEF Drafts!AppendThrows
  <2>3. IsProjection(Drafts!Reduce(Drafts!Replayed, e))
    BY <1>1, <2>1, ReduceOther DEF Shape
  <2>4. Shape'
    BY <1>1, <1>2, <2>1, <2>2, <2>3 DEF Shape, Drafts!AppendThrows
  <2> QED  BY <1>1, <1>2, <2>1, <2>2, <2>4
<1>3. CASE doubt = "none" /\ Drafts!AppendFails(e) /\ call' = "reload" /\ Drafts!Faulty
  <2>1. unseen = <<>> /\ Drafts!Projection = Drafts!Replayed
    BY <1>3 DEF Shape
  <2>2. /\ tail' \in Seq(Kinds) /\ Views' = Views \cup {Drafts!Reduce(Drafts!Replayed, e)}
    BY <1>3, <2>1, AppendedView DEF Drafts!AppendFails
  <2>3. IsProjection(Drafts!Reduce(Drafts!Replayed, e))
    BY <1>1, <2>1, ReduceOther DEF Shape
  <2>4. Shape'
    BY <1>1, <1>3, <2>1, <2>2, <2>3 DEF Shape, Drafts!AppendFails
  <2> QED  BY <1>1, <1>3, <2>1, <2>2, <2>4
<1>4. CASE doubt # "none" /\ UNCHANGED Drafts!journal /\ Drafts!Faultless
           /\ call' = IF doubt = "reconcile" THEN "reload" ELSE "none"
  <2>1. UNCHANGED <<lasting, tail, unseen, doubt>>
    BY <1>4 DEF Drafts!journal
  <2>2. Views' = Views /\ Drafts!Replayed' = Drafts!Replayed
    BY <2>1 DEF Views, Log, Drafts!Replayed
  <2>3. Shape'
    BY <1>1, <1>4, <2>1, <2>2 DEF Shape
  <2> QED  BY <1>1, <1>4, <2>2, <2>3
<1> QED  BY <1>2, <1>3, <1>4 DEF Drafts!Fails

LEMMA ReloadsView ==
    ASSUME Shape, Drafts!Reloads
    PROVE  /\ Views' = Views /\ Drafts!Replayed' = Drafts!Replayed
                /\ Drafts!Projection' = Drafts!Replayed /\ Drafts!Replayed \in Views
           /\ UNCHANGED <<lasting, tail, unseen>>
<1>1. UNCHANGED <<lasting, tail, unseen>>
  BY DEF Drafts!Reloads
<1>2. Views' = Views /\ Drafts!Replayed' = Drafts!Replayed
  BY <1>1 DEF Views, Log, Drafts!Replayed
<1>3. Drafts!Replayed \in Views /\ IsProjection(Drafts!Replayed)
  BY ReplayedIsSeen DEF Shape
<1>4. Drafts!Projection' = Drafts!Replayed
  BY <1>3, ProjectedIs DEF Drafts!Reloads
<1> QED  BY <1>1, <1>2, <1>3, <1>4

LEMMA OpensShape ==
    ASSUME Shape, Drafts!Opens
    PROVE  Shape' /\ Views' = Views /\ call' # "opening"
<1>1. /\ Views' = Views /\ Drafts!Replayed' = Drafts!Replayed
           /\ Drafts!Projection' = Drafts!Replayed /\ Drafts!Replayed \in Views
      /\ UNCHANGED <<lasting, tail, unseen>>
  BY ReloadsView DEF Drafts!Opens
<1>2. doubt = "none" /\ doubt' = "none" /\ call' \in {"none", "checkpoint"}
  BY DEF Drafts!Opens, Shape, Drafts!Reloads, Drafts!MaybeDue
<1> QED  BY <1>1, <1>2 DEF Shape

LEMMA ReconcilesShape ==
    ASSUME Shape, Drafts!Reconciles
    PROVE  Shape' /\ Views' = Views /\ call' # "opening"
<1>1. call = "reload" /\ doubt = "reconcile" /\ call' = "none"
  BY DEF Drafts!Reconciles, Shape
<1>2. CASE Drafts!Reloads
  <2>1. /\ Views' = Views /\ Drafts!Replayed' = Drafts!Replayed
             /\ Drafts!Projection' = Drafts!Replayed /\ Drafts!Replayed \in Views
        /\ UNCHANGED <<lasting, tail, unseen>>
    BY <1>2, ReloadsView
  <2>2. doubt' = "none"
    BY <1>1, <1>2 DEF Drafts!Reloads
  <2>3. unseen = <<>>
    BY <1>1 DEF Shape
  <2> QED  BY <1>1, <2>1, <2>2, <2>3 DEF Shape
<1>3. CASE UNCHANGED <<Drafts!journal, Drafts!projection>>
  <2>1. UNCHANGED <<lasting, tail, unseen, doubt, drafts, latestBounce>>
    BY <1>3 DEF Drafts!journal, Drafts!projection
  <2>2. Views' = Views /\ Drafts!Projection' = Drafts!Projection
          /\ Drafts!Replayed' = Drafts!Replayed
    BY <2>1 DEF Views, Log, Drafts!Projection, Drafts!Replayed
  <2> QED  BY <1>1, <2>1, <2>2 DEF Shape
<1> QED  BY <1>2, <1>3 DEF Drafts!Reconciles

LEMMA RestartsShape ==
    ASSUME Shape, Drafts!Restarts
    PROVE  Shape' /\ Views' \subseteq Views /\ call' = "opening"
<1>1. /\ unseen' = <<>> /\ doubt' = "none" /\ call' = "opening" /\ lasting' = lasting
      /\ tail' \in {SubSeq(tail \o unseen, 1, n) : n \in 0..Len(tail \o unseen)}
  BY DEF Drafts!Restarts
<1>2. Log \in Seq(Kinds)
  BY DEF Shape, Log
<1>3. PICK n \in 0..Len(Log) : tail' = SubSeq(Log, 1, n)
  BY <1>1 DEF Log
<1>4. tail' \in Seq(Kinds)
  BY <1>2, <1>3
<1>5. Log' = tail'
  BY <1>1, <1>4 DEF Log
<1>6. Views' \subseteq Views
  BY <1>1, <1>2, <1>3, <1>5, ViewsPart DEF Views
<1>7. unseen' \in Seq(Kinds)
  BY <1>1
<1> QED  BY <1>1, <1>4, <1>6, <1>7 DEF Shape

LEMMA CheckpointsShape ==
    ASSUME Shape, Drafts!Checkpoints
    PROVE  /\ Shape' /\ call' # "opening" /\ Drafts!Projection \in Views
           /\ \E gone \in SUBSET Drafts!Ids :
                /\ gone \cap Drafts!At({"recorded", "sending"}) = {}
                /\ reported' = reported \ gone
                /\ Views'
                     \subseteq Views \cup {Drafts!Reduce(Drafts!Projection, Drafts!Checkpoint(gone))}
<1>1. call = "checkpoint" /\ doubt = "none" /\ unseen = <<>> /\ latestBounce' = latestBounce
      /\ Drafts!Projection = Drafts!Replayed /\ Drafts!Projection \in Views
           /\ IsProjection(Drafts!Projection)
  BY DEF Drafts!Checkpoints, Shape
<1>2. Drafts!Projection.drafts = drafts /\ Drafts!Projection.latest = latestBounce
  BY DEF Drafts!Projection
<1>3. PICK gone \in SUBSET Drafts!MayLetGo :
         /\ \/ /\ doubt = "none" /\ tail' = Append(tail, Drafts!Checkpoint(gone))
               /\ UNCHANGED <<lasting, unseen, doubt>> /\ call' = "none" /\ Drafts!Faultless
            \/ Drafts!AppendThrows(Drafts!Checkpoint(gone)) /\ call' = "none" /\ Drafts!Faulty
            \/ Drafts!AppendFails(Drafts!Checkpoint(gone)) /\ call' = "reload" /\ Drafts!Faulty
         /\ Drafts!LetsGo(gone)
         /\ reported' = reported \ gone
  BY DEF Drafts!Checkpoints
<1>4. gone \in SUBSET Drafts!Ids /\ gone \cap Drafts!At({"recorded", "sending"}) = {}
  BY <1>1, <1>2 DEF Drafts!MayLetGo, Drafts!LetsGoOf, IsProjection
<1>5. PICK e \in Kinds : e = Drafts!Checkpoint(gone)
  BY <1>4, KindsAre
<1>6. /\ IsProjection(Drafts!Reduce(Drafts!Projection, e))
      /\ Drafts!Reduce(Drafts!Projection, e).drafts = Drafts!Restrict(drafts, DOMAIN drafts \ gone)
      /\ Drafts!Reduce(Drafts!Projection, e).latest = latestBounce
  <2>1. PICK P : P = Drafts!Projection /\ IsProjection(P) /\ P.drafts = drafts /\ P.latest = latestBounce
    BY <1>1, <1>2 DEF Drafts!Projection
  <2>2. PICK Q : Q = Drafts!Reduce(P, Drafts!Checkpoint(gone))
    OBVIOUS
  <2>3. IsProjection(Q)
    BY <1>4, <2>1, <2>2, ReduceCheckpoint
  <2>4. Q = [drafts |-> Q.drafts, latest |-> P.latest]
          /\ Q.drafts = Drafts!Restrict(P.drafts, DOMAIN P.drafts \ gone)
    BY <2>1, <2>2, ReduceCheckpointIs
  <2>5. Q.latest = P.latest
    BY <2>4
  <2> QED  BY <1>5, <2>1, <2>2, <2>3, <2>4, <2>5
<1>7. CASE tail' = Append(tail, e) /\ UNCHANGED <<lasting, unseen, doubt>> /\ call' = "none"
  <2>1. /\ tail' \in Seq(Kinds) /\ Views' = Views \cup {Drafts!Reduce(Drafts!Replayed, e)}
        /\ Drafts!Replayed' = Drafts!Reduce(Drafts!Replayed, e)
    BY <1>1, <1>7, AppendedView
  <2>2. drafts' = Drafts!Restrict(drafts, DOMAIN drafts \ gone)
    BY <1>1, <1>3, <1>7 DEF Drafts!LetsGo
  <2>3. Drafts!Projection' = Drafts!Reduce(Drafts!Projection, e)
    BY <1>1, <1>6, <2>2, FormOf DEF Drafts!Projection
  <2>4. Shape'
    BY <1>1, <1>6, <1>7, <2>1, <2>3 DEF Shape
  <2> QED  BY <1>1, <1>3, <1>4, <1>5, <1>7, <2>1, <2>4
<1>8. CASE Drafts!AppendThrows(e) /\ call' = "none"
  <2>1. unseen' \in Seq(Kinds) /\ Drafts!Replayed' = Drafts!Replayed
        /\ Views \subseteq Views'
             /\ Views' \subseteq Views \cup {Drafts!Reduce(Drafts!Replayed, e)}
    BY <1>1, <1>8, ThrownView DEF Drafts!AppendThrows
  <2>2. doubt' = "reopen" /\ tail' = tail /\ drafts' = drafts
    BY <1>3, <1>8 DEF Drafts!AppendThrows, Drafts!LetsGo
  <2>3. Drafts!Projection' = Drafts!Projection
    BY <1>1, <2>2 DEF Drafts!Projection
  <2>4. Shape'
    BY <1>1, <1>6, <1>8, <2>1, <2>2, <2>3 DEF Shape
  <2> QED  BY <1>1, <1>3, <1>4, <1>5, <1>8, <2>1, <2>4
<1>9. CASE Drafts!AppendFails(e) /\ call' = "reload"
  <2>1. tail' \in Seq(Kinds) /\ Views' = Views \cup {Drafts!Reduce(Drafts!Replayed, e)}
    BY <1>1, <1>9, AppendedView DEF Drafts!AppendFails
  <2>2. doubt' = "reconcile" /\ unseen' = unseen /\ drafts' = drafts
    BY <1>3, <1>9 DEF Drafts!AppendFails, Drafts!LetsGo
  <2>3. Drafts!Projection' = Drafts!Projection
    BY <1>1, <2>2 DEF Drafts!Projection
  <2>4. Shape'
    BY <1>1, <1>6, <1>9, <2>1, <2>2, <2>3 DEF Shape
  <2> QED  BY <1>1, <1>3, <1>4, <1>5, <1>9, <2>1, <2>4
<1> QED  BY <1>3, <1>5, <1>7, <1>8, <1>9

-----------------------------------------------------------------------------
(* The invariant.                                                           *)
SenderState ==
    [phase : {"idle", "next", "recorded", "sending", "bouncing"}, via : {"resend", "unsent-token"},
     list : Seq(Drafts!Ids), claims : SUBSET Drafts!Ids, confirmed : BOOLEAN]

Cur(s) == Head(sender[s].list)
Carrying(s) == sender[s].phase \in {"recorded", "sending"}
Carried(d) == \E s \in Sender : Carrying(s) /\ Cur(s) = d
Senders(d) == {s \in Sender : sender[s].phase = "sending" /\ Cur(s) = d}

(* What the journal has was given an id, and what a hold returned for is    *)
(* there.                                                                   *)
Given ==
    /\ issued \in 0..MaxDrafts
    /\ \A P \in Views : DOMAIN P.drafts \subseteq 1..issued
         /\ reported \subseteq DOMAIN P.drafts
    /\ settled \subseteq 1..issued
    /\ mayBeOut \in [Drafts!Ids -> SUBSET (Sender \cup {Drafts!Earlier})]
    /\ \A d \in Drafts!Ids : d > issued => mayBeOut[d] = {}
    /\ following \subseteq Drafts!Ids \X (1..issued)

(* A sender's own part.                                                     *)
Sane(R) ==
    /\ R \in SenderState
    /\ R.phase \in {"next", "recorded", "sending"} => Drafts!ToSet(R.list) \subseteq R.claims
    /\ R.phase \in {"recorded", "sending", "bouncing"} => R.list # <<>>
         /\ Head(R.list) \in 1..issued
    /\ R.phase \in {"recorded", "sending"} => Head(R.list) \in R.claims
    /\ R.phase = "bouncing" => R.via = "unsent-token"
    /\ R.via = "unsent-token" => ~ R.confirmed
    /\ call = "opening" => R.phase = "idle"

BusyPhases == {"next", "recorded", "bouncing"}
Apart(R, Q) ==
    /\ ~ (R.phase \in BusyPhases /\ Q.phase \in BusyPhases)
    /\ R.claims \cap Q.claims = {}

SendersOK ==
    /\ DOMAIN sender = Sender /\ sender = [s \in Sender |-> sender[s]]
    /\ \A s \in Sender : Sane(sender[s])
    /\ \A s, t \in Sender : s # t => Apart(sender[s], sender[t])

Undecided(D) == ~ D.dismissed /\ \A i \in 1..Len(D.attempts) : D.attempts[i] # "delivered"
Marked(D, n) == D.risk \/ \E i \in 1..n : D.attempts[i] # "failed"
Before(D, d) == IF Carried(d) THEN Len(D.attempts) - 1 ELSE Len(D.attempts)
LastUnknown(D) == D.attempts # <<>> /\ D.attempts[Len(D.attempts)] = "unknown"

(* A draft being sent is the same wherever one looks.                       *)
SeenAlike(d) == \A P \in Views : d \in DOMAIN P.drafts /\ P.drafts[d] = drafts[d]
SentOnce(s) ==
    LET d == Cur(s) IN
    /\ d \in DOMAIN drafts /\ Undecided(drafts[d]) /\ LastUnknown(drafts[d])
    /\ d \notin settled
    /\ sender[s].phase = "recorded" => sender[s].confirmed \/ mayBeOut[d] = {}
    /\ sender[s].via = "unsent-token" => mayBeOut[d] \subseteq {s}
         /\ \A p \in following : p[2] # d
Frozen == \A s \in Sender : Carrying(s) => SeenAlike(Cur(s)) /\ SentOnce(s)

Bounced(s) ==
    LET d == Cur(s) IN
    /\ \A p \in following : p[2] # d
    /\ \/ mayBeOut[d] = {}
       \/ \A P \in Views : d \in DOMAIN P.drafts =>
            Undecided(P.drafts[d]) /\ Marked(P.drafts[d], Len(P.drafts[d].attempts))
Bouncing == \A s \in Sender : sender[s].phase = "bouncing" => Bounced(s)

RiskAt(D, d) ==
    /\ mayBeOut[d] \ Senders(d) # {} => Marked(D, Before(D, d))
    /\ d \in settled => \E i \in 1..Len(D.attempts) : D.attempts[i] = "delivered"
    /\ (\E p \in following : p[2] = d) => D.risk
Risks == \A P \in Views : \A d \in DOMAIN P.drafts : RiskAt(P.drafts[d], d)

DraftsInv == Shape /\ Given /\ SendersOK /\ Frozen /\ Bouncing /\ Risks

-----------------------------------------------------------------------------
(* What a step leaves.                                                      *)

(* A later process sees what it would have seen, or a record more.          *)
Grows(e) ==
    /\ e \in Kinds
    /\ \A P \in Views' : P \in Views
         \/ (Drafts!Projection \in Views /\ P = Drafts!Reduce(Drafts!Projection, e))

LEMMA SeenBefore ==
    ASSUME Shape, NEW e, Grows(e), NEW P \in Views', NEW d \in DOMAIN P.drafts,
           e.op = "checkpoint" \/ ~ Touches(e, d)
    PROVE  \E Q \in Views : d \in DOMAIN Q.drafts /\ Q.drafts[d] = P.drafts[d]
<1>1. CASE P \in Views
  BY <1>1
<1>2. CASE Drafts!Projection \in Views /\ P = Drafts!Reduce(Drafts!Projection, e)
  <2>1. IsProjection(Drafts!Projection) /\ e \in Kinds
    BY <1>2 DEF Shape, Grows
  <2>2. d \in DOMAIN Drafts!Projection.drafts /\ P.drafts[d] = Drafts!Projection.drafts[d]
    BY <1>2, <2>1, ReduceOther
  <2> QED  BY <1>2, <2>2
<1> QED  BY <1>1, <1>2 DEF Grows

LEMMA StillHeld ==
    ASSUME Shape, Shape', call # "opening", call' # "opening", NEW e, Grows(e),
           NEW d, SeenAlike(d), ~ Touches(e, d)
    PROVE  /\ SeenAlike(d)' /\ d \in DOMAIN drafts /\ d \in DOMAIN drafts'
                /\ drafts'[d] = drafts[d]
<1>1. Drafts!Projection \in Views /\ Drafts!Projection' \in Views'
  BY DEF Shape
<1>2. Drafts!Projection.drafts = drafts /\ Drafts!Projection'.drafts = drafts'
  BY DEF Drafts!Projection
<1>3. d \in DOMAIN drafts
  BY <1>1, <1>2 DEF SeenAlike
<1>4. ASSUME NEW P \in Views' PROVE d \in DOMAIN P.drafts /\ P.drafts[d] = drafts[d]
  <2>1. CASE P \in Views
    BY <2>1 DEF SeenAlike
  <2>2. CASE P = Drafts!Reduce(Drafts!Projection, e)
    <3>1. IsProjection(Drafts!Projection) /\ e \in Kinds
      BY <1>1 DEF Shape, Grows
    <3>2. d \in DOMAIN P.drafts
      BY <1>2, <1>3, <2>2, <3>1, ReduceOther
    <3>3. P.drafts[d] = Drafts!Projection.drafts[d]
      BY <2>2, <3>1, <3>2, ReduceOther
    <3> QED  BY <1>2, <3>2, <3>3
  <2> QED  BY <2>1, <2>2 DEF Grows
<1>5. d \in DOMAIN drafts' /\ drafts'[d] = drafts[d]
  BY <1>1, <1>2, <1>4
<1>6. SeenAlike(d)'
  BY <1>4, <1>5 DEF SeenAlike
<1> QED  BY <1>3, <1>5, <1>6

LEMMA RisksKeep ==
    ASSUME Shape, Risks, NEW e, Grows(e),
           \A d \in Drafts!Ids : \A D \in Drafts!Draft :
               (e.op = "checkpoint" \/ ~ Touches(e, d)) /\ RiskAt(D, d) => RiskAt(D, d)',
           \A P \in Views' : \A d \in DOMAIN P.drafts :
               e.op # "checkpoint" /\ Touches(e, d) => RiskAt(P.drafts[d], d)'
    PROVE  Risks'
<1>1. ASSUME NEW P \in Views', NEW d \in DOMAIN P.drafts PROVE RiskAt(P.drafts[d], d)'
  <2>1. CASE e.op = "checkpoint" \/ ~ Touches(e, d)
    <3>1. PICK Q \in Views : d \in DOMAIN Q.drafts /\ Q.drafts[d] = P.drafts[d]
      BY <2>1, SeenBefore
    <3>2. d \in Drafts!Ids /\ P.drafts[d] \in Drafts!Draft
      BY <3>1 DEF Shape, IsProjection
    <3>3. RiskAt(P.drafts[d], d)
      BY <3>1 DEF Risks
    <3> QED  BY <2>1, <3>2, <3>3
  <2>2. CASE e.op # "checkpoint" /\ Touches(e, d)
    BY <2>2
  <2> QED  BY <2>1, <2>2
<1> QED  BY <1>1 DEF Risks

LEMMA RiskCalm ==
    ASSUME NEW d, NEW D \in Drafts!Draft, RiskAt(D, d),
           mayBeOut'[d] \ Senders(d)' # {} => mayBeOut[d] \ Senders(d) # {},
           Carried(d)' => Carried(d),
           d \in settled' => d \in settled,
           (\E p \in following' : p[2] = d) => (\E p \in following : p[2] = d)
    PROVE  RiskAt(D, d)'
<1>0. D.attempts \in Seq(Drafts!Status)
  BY DraftFields
<1>1. Len(D.attempts) \in Nat
  BY <1>0
<1>2. ASSUME mayBeOut'[d] \ Senders(d)' # {} PROVE Marked(D, Before(D, d))'
  <2>1. Marked(D, Before(D, d))
    BY <1>2 DEF RiskAt
  <2>2. Before(D, d) \in Int /\ Before(D, d)' \in Int /\ Before(D, d) <= Before(D, d)'
    BY <1>1 DEF Before
  <2> QED  BY <2>1, <2>2 DEF Marked
<1> QED  BY <1>2 DEF RiskAt

LEMMA SendersSame ==
    ASSUME sender' = sender
    PROVE  \A d : Carried(d)' = Carried(d) /\ Senders(d)' = Senders(d)
BY DEF Carried, Carrying, Senders, Cur

(* Nothing comes to the journal.                                            *)
LEMMA GrowsNot == ASSUME Views' \subseteq Views PROVE Grows(Drafts!Checkpoint({}))
BY KindsAre DEF Grows

LEMMA NoneGone == \A d : ~ Touches(Drafts!Checkpoint({}), d)
        /\ Drafts!Checkpoint({}).op = "checkpoint"
BY DEF Touches, Drafts!Checkpoint

LEMMA GivenKeeps ==
    ASSUME Shape, Given,
           NEW e, Grows(e), e.op # "held", e.op = "checkpoint" => reported' \cap e.gone = {},
           reported' \subseteq reported, UNCHANGED issued, settled' \subseteq 1..issued,
           mayBeOut' \in [Drafts!Ids -> SUBSET (Sender \cup {Drafts!Earlier})],
           \A d \in Drafts!Ids : d > issued => mayBeOut'[d] = {},
           following' \subseteq Drafts!Ids \X (1..issued)
    PROVE  Given'
<1>1. ASSUME NEW P \in Views'
      PROVE  DOMAIN P.drafts \subseteq 1..issued /\ reported' \subseteq DOMAIN P.drafts
  <2>1. CASE P \in Views
    BY <2>1 DEF Given
  <2>2. CASE Drafts!Projection \in Views /\ P = Drafts!Reduce(Drafts!Projection, e)
    <3>1. IsProjection(Drafts!Projection) /\ e \in Kinds
      BY <2>2 DEF Shape, Grows
    <3>2. DOMAIN P.drafts \subseteq DOMAIN Drafts!Projection.drafts
      BY <2>2, <3>1, ReduceOther
    <3>3. reported' \subseteq DOMAIN P.drafts
      <4>1. reported' \subseteq DOMAIN Drafts!Projection.drafts
        BY <2>2 DEF Given
      <4>2. CASE e.op # "checkpoint"
        BY <2>2, <3>1, <4>1, <4>2, ReduceOther
      <4>3. CASE e.op = "checkpoint"
        BY <2>2, <3>1, <4>1, <4>3, ReduceOther DEF Touches
      <4> QED  BY <4>2, <4>3
    <3> QED  BY <2>2, <3>2, <3>3 DEF Given
  <2> QED  BY <2>1, <2>2 DEF Grows
<1> QED  BY <1>1 DEF Given

(* The senders stay as they are.                                            *)
LEMMA Quiet ==
    ASSUME DraftsInv, Shape',
           NEW e, Grows(e), sender' = sender, call # "opening", call' # "opening",
           settled' = settled, issued <= issued', issued' \in Nat,
           \A s \in Sender : Carrying(s) => ~ Touches(e, Cur(s)),
           \A d \in 1..issued : mayBeOut'[d] = mayBeOut[d],
           \A p \in following' : p \in following \/ p[2] \notin 1..issued,
           (\E s \in Sender : sender[s].phase = "bouncing") => e.op = "checkpoint"
    PROVE  SendersOK' /\ Frozen' /\ Bouncing'
<1>1. SendersOK'
  BY DEF DraftsInv, SendersOK, Sane, Given
<1>2. ASSUME NEW s \in Sender, Carrying(s)'
      PROVE  (SeenAlike(Cur(s)) /\ SentOnce(s))'
  <2>1. Carrying(s) /\ Cur(s)' = Cur(s) /\ sender'[s] = sender[s]
    BY <1>2 DEF Carrying, Cur
  <2>2. SeenAlike(Cur(s)) /\ SentOnce(s)
    BY <2>1 DEF DraftsInv, Frozen
  <2>3. Cur(s) \in 1..issued
    BY <2>1 DEF DraftsInv, SendersOK, Sane, Carrying, Cur
  <2>4. /\ SeenAlike(Cur(s))' /\ Cur(s) \in DOMAIN drafts' /\ drafts'[Cur(s)] = drafts[Cur(s)]
    <3> DEFINE d == Cur(s)
    <3>1. SeenAlike(d) /\ ~ Touches(e, d)
      BY <2>1, <2>2
    <3>2. PICK x : x = d
      OBVIOUS
    <3>3. SeenAlike(x)' /\ x \in DOMAIN drafts' /\ drafts'[x] = drafts[x]
      BY <3>1, <3>2, StillHeld DEF DraftsInv
    <3> QED  BY <2>1, <3>2, <3>3 DEF SeenAlike
  <2>5. mayBeOut'[Cur(s)] = mayBeOut[Cur(s)] /\ \A p \in following' : p[2] = Cur(s)
          => p \in following
    BY <2>3
  <2> QED  BY <2>1, <2>2, <2>4, <2>5 DEF SentOnce
<1>3. ASSUME NEW s \in Sender, sender'[s].phase = "bouncing" PROVE Bounced(s)'
  <2>1. sender[s].phase = "bouncing" /\ e.op = "checkpoint" /\ Cur(s)' = Cur(s)
    BY <1>3 DEF Cur
  <2>2. Bounced(s) /\ Cur(s) \in 1..issued
    BY <2>1 DEF DraftsInv, Bouncing, SendersOK, Sane, Cur
  <2>3. mayBeOut'[Cur(s)] = mayBeOut[Cur(s)] /\ \A p \in following' : p[2] = Cur(s)
          => p \in following
    BY <2>2
  <2>4. ASSUME NEW P \in Views', Cur(s) \in DOMAIN P.drafts
        PROVE  \E Q \in Views : Cur(s) \in DOMAIN Q.drafts
                 /\ Q.drafts[Cur(s)] = P.drafts[Cur(s)]
    BY <2>1, <2>4, SeenBefore DEF DraftsInv
  <2> QED  BY <2>1, <2>2, <2>3, <2>4 DEF Bounced
<1> QED  BY <1>1, <1>2, <1>3 DEF Frozen, Bouncing

-----------------------------------------------------------------------------
(* The host's own steps, and holds.                                         *)
LEMMA OpensKeeps == ASSUME DraftsInv, Drafts!Opens PROVE DraftsInv'
<1>1. Shape' /\ Views' = Views /\ call' # "opening" /\ call = "opening"
  BY OpensShape DEF DraftsInv, Drafts!Opens
<1>2. /\ sender' = sender /\ issued' = issued /\ settled' = settled /\ mayBeOut' = mayBeOut
      /\ following' = following /\ reported' = reported
  BY DEF Drafts!Opens, Drafts!history
<1>3. Grows(Drafts!Checkpoint({}))
  BY <1>1, GrowsNot
<1>4. \A s \in Sender : sender[s].phase = "idle"
  BY <1>1 DEF DraftsInv, SendersOK, Sane
<1>5. SendersOK' /\ Frozen' /\ Bouncing'
  BY <1>1, <1>2, <1>4 DEF DraftsInv, SendersOK, Sane, Frozen, Bouncing, Carrying, Apart
<1>6. Given'
  BY <1>1, <1>2 DEF DraftsInv, Given
<1>7. Risks'
  <2>1. \A d : Carried(d)' = Carried(d) /\ Senders(d)' = Senders(d)
    BY <1>2, SendersSame
  <2>2. ASSUME NEW P \in Views', NEW d \in DOMAIN P.drafts PROVE RiskAt(P.drafts[d], d)'
    <3>1. RiskAt(P.drafts[d], d) /\ P.drafts[d] \in Drafts!Draft
      BY <1>1 DEF DraftsInv, Risks, Shape, IsProjection
    <3> QED  BY <1>2, <2>1, <3>1, RiskCalm
  <2> QED  BY <2>2 DEF Risks
<1> QED  BY <1>1, <1>5, <1>6, <1>7 DEF DraftsInv

(* A step of the journal alone that may let go of drafts no one sends.      *)
LEMMA JournalKeeps ==
    ASSUME DraftsInv, Shape',
           NEW e, Grows(e), e.op = "checkpoint", call # "opening", call' # "opening",
           UNCHANGED <<sender, issued, settled, mayBeOut, following>>,
           reported' \subseteq reported, reported' \cap e.gone = {},
           e.gone \cap Drafts!At({"recorded", "sending"}) = {}
    PROVE  DraftsInv'
<1>1. Given'
  <2>1. Shape /\ Given /\ e.op # "held"
    BY DEF DraftsInv
  <2> QED  BY <2>1, GivenKeeps DEF Given
<1>2. \A s \in Sender : Carrying(s) => ~ Touches(e, Cur(s))
  BY DEF Drafts!At, Carrying, Cur, Touches
<1>3. SendersOK' /\ Frozen' /\ Bouncing'
  BY <1>2, Quiet DEF DraftsInv, Given
<1>4. Risks'
  <2>1. \A d : Carried(d)' = Carried(d) /\ Senders(d)' = Senders(d)
    BY SendersSame
  <2>2. ASSUME NEW d \in Drafts!Ids, NEW D \in Drafts!Draft, RiskAt(D, d) PROVE RiskAt(D, d)'
    BY <2>1, <2>2, RiskCalm
  <2> QED  BY <2>2, RisksKeep DEF DraftsInv
<1> QED  BY <1>1, <1>3, <1>4 DEF DraftsInv

LEMMA ReconcilesKeeps == ASSUME DraftsInv, Drafts!Reconciles PROVE DraftsInv'
<1>1. Shape' /\ Views' = Views /\ call' # "opening" /\ call # "opening"
  BY ReconcilesShape DEF DraftsInv, Drafts!Reconciles
<1>2. UNCHANGED <<sender, issued, settled, mayBeOut, following, reported>>
  BY DEF Drafts!Reconciles, Drafts!history
<1>3. PICK e : e = Drafts!Checkpoint({})
  OBVIOUS
<1>4. Grows(e) /\ e.op = "checkpoint" /\ e.gone = {}
  BY <1>1, <1>3, GrowsNot DEF Drafts!Checkpoint
<1> QED  BY <1>1, <1>2, <1>4, JournalKeeps

LEMMA CheckpointsKeeps == ASSUME DraftsInv, Drafts!Checkpoints PROVE DraftsInv'
<1>1. Shape' /\ call' # "opening" /\ Drafts!Projection \in Views /\ call # "opening"
  BY CheckpointsShape DEF DraftsInv, Drafts!Checkpoints
<1>2. PICK gone \in SUBSET Drafts!Ids :
         /\ gone \cap Drafts!At({"recorded", "sending"}) = {}
         /\ reported' = reported \ gone
         /\ Views'
              \subseteq Views \cup {Drafts!Reduce(Drafts!Projection, Drafts!Checkpoint(gone))}
  BY CheckpointsShape DEF DraftsInv
<1>3. UNCHANGED <<sender, issued, settled, mayBeOut, following>>
  BY DEF Drafts!Checkpoints
<1>4. PICK e : e = Drafts!Checkpoint(gone)
  OBVIOUS
<1>5. Grows(e) /\ e.op = "checkpoint" /\ e.gone = gone
  <2>1. e \in Kinds /\ e.op = "checkpoint" /\ e.gone = gone
    BY <1>4, KindsAre DEF Drafts!Checkpoint
  <2> QED  BY <1>1, <1>2, <1>4, <2>1 DEF Grows
<1> QED  BY <1>1, <1>2, <1>3, <1>5, JournalKeeps

(* Words held under a new id.                                               *)
LEMMA HoldsKeeps ==
    ASSUME DraftsInv, call = "none", NEW bounced \in BOOLEAN,
           NEW risk \in BOOLEAN, Drafts!Holds(bounced, risk),
           settled' = settled, mayBeOut' \in [Drafts!Ids -> SUBSET (Sender \cup {Drafts!Earlier})],
           \A d \in Drafts!Ids : d # issued + 1 => mayBeOut'[d] = mayBeOut[d],
           following' \subseteq Drafts!Ids \X (1..(issued + 1)),
           \A p \in following' : p \in following \/ p[2] = issued + 1,
           doubt = "none" /\ ~ risk => mayBeOut'[issued + 1] = {}
             /\ \A p \in following' : p[2] # issued + 1,
           \A d : Carried(d)' = Carried(d) /\ Senders(d)' = Senders(d)
    PROVE  /\ Shape' /\ Given' /\ Risks' /\ issued' = issued + 1 /\ call' # "opening"
           /\ \E e : Grows(e) /\ e.op = "held" /\ e.id = issued + 1
<1> DEFINE n == issued + 1
           e == Drafts!Held(n, bounced, risk)
<1>1. issued' = n /\ n \in Drafts!Ids /\ n \in Nat /\ issued \in Nat /\ n \notin 1..issued
  BY PartsConstants DEF Drafts!Holds, DraftsInv, Given, Drafts!Ids, Drafts!DraftsConstants
<1>2. e \in Kinds /\ e.op = "held" /\ e.id = n
  BY <1>1, KindsAre DEF Drafts!Held
<1>3. Shape /\ Given /\ Risks
  BY DEF DraftsInv
<1>4. (Drafts!Writes(e) /\ reported' = reported \cup {n})
        \/ (Drafts!Fails(e) /\ reported' = reported)
  BY <1>1 DEF Drafts!Holds
<1> HIDE DEF e
<1>5. /\ Shape' /\ call' # "opening" /\ Drafts!Projection \in Views
      /\ Views' \subseteq Views \cup {Drafts!Reduce(Drafts!Projection, e)}
      /\ Views' = Views \/ doubt = "none"
  <2>1. CASE Drafts!Writes(e)
    <3>1. /\ Shape' /\ doubt = "none" /\ Drafts!Projection \in Views
          /\ Views' = {Drafts!Reduce(Drafts!Projection, e)} /\ call' \in {"none", "checkpoint"}
      BY <1>2, <1>3, <2>1, WritesShape
    <3> QED  BY <3>1
  <2>2. CASE Drafts!Fails(e)
    <3>1. /\ Shape' /\ Drafts!Projection \in Views /\ call' \in {"none", "reload"}
          /\ Views' \subseteq Views \cup {Drafts!Reduce(Drafts!Projection, e)}
          /\ Views' = Views \/ doubt = "none"
      BY <1>2, <1>3, <2>2, FailsShape
    <3> QED  BY <3>1
  <2> QED  BY <1>4, <2>1, <2>2
<1>6. Grows(e)
  BY <1>2, <1>5 DEF Grows
<1>7. /\ DOMAIN Drafts!Reduce(Drafts!Projection, e).drafts = DOMAIN Drafts!Projection.drafts \cup {n}
      /\ Drafts!Reduce(Drafts!Projection, e).drafts[n] = AsHeld(risk)
  BY <1>1, <1>3, <1>5, ReduceHeld DEF e, Shape
<1>8. Given'
  <2>1. ASSUME NEW P \in Views'
        PROVE  DOMAIN P.drafts \subseteq 1..n /\ reported' \subseteq DOMAIN P.drafts
    <3>1. CASE Drafts!Writes(e)
      <4>1. Views' = {Drafts!Reduce(Drafts!Projection, e)}
        BY <1>2, <1>3, <3>1, WritesShape
      <4> QED  BY <1>1, <1>3, <1>4, <1>5, <1>7, <4>1 DEF Given
    <3>2. CASE reported' = reported
      <4>1. 1..issued \subseteq 1..n /\ n \in 1..n
        BY <1>1
      <4>2. CASE P \in Views
        BY <1>3, <3>2, <4>1, <4>2 DEF Given
      <4>3. CASE P = Drafts!Reduce(Drafts!Projection, e)
        BY <1>3, <1>5, <1>7, <3>2, <4>1, <4>3 DEF Given
      <4> QED  BY <1>5, <4>2, <4>3
    <3> QED  BY <1>4, <3>1, <3>2
  <2>2. issued' \in 0..MaxDrafts
    BY <1>1, PartsConstants DEF Drafts!Ids, Drafts!DraftsConstants
  <2>3. \A d \in Drafts!Ids : d > n => mayBeOut'[d] = {}
    BY <1>1, <1>3 DEF Given, Drafts!Ids
  <2>4. settled' \subseteq 1..n
    BY <1>1, <1>3 DEF Given
  <2> QED  BY <1>1, <2>1, <2>2, <2>3, <2>4 DEF Given
<1>9. Risks'
  <2>1. ASSUME NEW d \in Drafts!Ids,
               NEW D \in Drafts!Draft, e.op = "checkpoint" \/ ~ Touches(e, d), RiskAt(D, d)
        PROVE  RiskAt(D, d)'
    <3>1. d # n
      BY <1>2, <2>1 DEF Touches
    <3> QED  BY <1>1, <2>1, <3>1, RiskCalm
  <2>2. ASSUME NEW P \in Views', NEW d \in DOMAIN P.drafts, Touches(e, d)
        PROVE  RiskAt(P.drafts[d], d)'
    <3>1. d = n
      BY <1>2, <2>2 DEF Touches
    <3>2. P \notin Views
      BY <1>1, <1>3, <3>1 DEF Given
    <3>3. P = Drafts!Reduce(Drafts!Projection, e) /\ doubt = "none"
      BY <1>5, <3>2
    <3>4. P.drafts[d] = AsHeld(risk)
      BY <1>7, <3>1, <3>3
    <3>5. n \notin settled'
      BY <1>1, <1>3 DEF Given
    <3>6. AsHeld(risk).risk = risk
      BY DEF AsHeld
    <3>7. CASE risk
      BY <3>1, <3>4, <3>5, <3>6, <3>7 DEF RiskAt, Marked
    <3>8. CASE ~ risk
      BY <3>1, <3>3, <3>4, <3>5, <3>8 DEF RiskAt
    <3> QED  BY <3>7, <3>8
  <2> QED  BY <1>3, <1>6, <2>1, <2>2, RisksKeep
<1> QED  BY <1>1, <1>2, <1>5, <1>6, <1>8, <1>9

(* What a draft's state says of its record.                                 *)
LEMMA StateOf ==
    ASSUME NEW d, drafts[d] \in Drafts!Draft
    PROVE  LET D == drafts[d] IN
           /\ Undecided(D)
                => Drafts!DraftState(d) = IF Marked(D, Len(D.attempts)) THEN "unconfirmed" ELSE "held"
           /\ ~ Undecided(D) => Drafts!DraftState(d) \in {"delivered", "dismissed"}
           /\ (\E i \in 1..Len(D.attempts) : D.attempts[i] = "delivered")
                => Drafts!DraftState(d) = "delivered"
<1> DEFINE D == drafts[d]
<1>1. D.attempts \in Seq(Drafts!Status) /\ D.risk \in BOOLEAN /\ D.dismissed \in BOOLEAN
  BY DraftFields
<1>2. \A i \in 1..Len(D.attempts) : D.attempts[i] \in {"delivered", "failed", "unknown"}
  BY <1>1 DEF Drafts!Status
<1>3. Drafts!DraftState(d) =
        IF \E i \in 1..Len(D.attempts) : D.attempts[i] = "delivered" THEN "delivered"
        ELSE IF D.dismissed THEN "dismissed"
        ELSE IF D.risk
          \/ \E i \in 1..Len(D.attempts) : D.attempts[i] = "unknown" THEN "unconfirmed"
        ELSE "held"
  BY DEF Drafts!DraftState
<1> HIDE DEF D
<1> QED  BY <1>1, <1>2, <1>3 DEF Undecided, Marked, D

LEMMA InMemory ==
    ASSUME Shape, call # "opening"
    PROVE  /\ Drafts!Projection \in Views /\ Drafts!Projection.drafts = drafts
                /\ IsProjection(Drafts!Projection)
           /\ \A d \in DOMAIN drafts : d \in Drafts!Ids /\ drafts[d] \in Drafts!Draft
BY DEF Shape, Drafts!Projection, IsProjection

(* A kept draft that may be out says so, unless it is being sent.           *)
LEMMA OpenRisk ==
    ASSUME DraftsInv, call # "opening", NEW d, Drafts!Open(d),
           mayBeOut[d] \ Senders(d) # {} \/ \E p \in following : p[2] = d
    PROVE  Drafts!DraftState(d) = "unconfirmed"
<1>1. d \in DOMAIN drafts /\ drafts[d] \in Drafts!Draft
  BY InMemory DEF Drafts!Open, Drafts!Kept, DraftsInv
<1>2. RiskAt(drafts[d], d)
  BY <1>1, InMemory DEF DraftsInv, Risks
<1>3. Undecided(drafts[d])
  BY <1>1, StateOf DEF Drafts!Open
<1>4. Len(drafts[d].attempts) \in Nat
  <2>1. drafts[d].attempts \in Seq(Drafts!Status)
    BY <1>1, DraftFields
  <2> QED  BY <2>1
<1>5. Marked(drafts[d], Len(drafts[d].attempts))
  BY <1>2, <1>4 DEF RiskAt, Marked, Before
<1> QED  BY <1>1, <1>3, <1>5, StateOf

LEMMA SendersFly ==
    ASSUME SendersOK, NEW d, Senders(d) # {}
    PROVE  d \in Drafts!InFlight
<1>1. PICK s \in Sender : sender[s].phase = "sending" /\ Cur(s) = d
  BY DEF Senders
<1>2. d \in sender[s].claims
  BY <1>1 DEF SendersOK, Sane, Cur
<1> QED  BY <1>2 DEF Drafts!InFlight

LEMMA HoldKeeps == ASSUME DraftsInv, NEW b \in BOOLEAN, Drafts!Hold(b) PROVE DraftsInv'
<1>1. Drafts!Settled /\ Drafts!Holds(b, FALSE)
        /\ UNCHANGED <<sender, mayBeOut, following, settled>> /\ call = "none"
  BY DEF Drafts!Hold, Drafts!Settled
<1>2. issued < MaxDrafts /\ issued' = issued + 1 /\ issued \in Nat /\ MaxDrafts \in Nat
  BY <1>1, PartsConstants DEF Drafts!Holds, DraftsInv, Given, Drafts!DraftsConstants
<1>3. /\ mayBeOut \in [Drafts!Ids -> SUBSET (Sender \cup {Drafts!Earlier})]
           /\ mayBeOut[issued + 1] = {}
      /\ following \subseteq Drafts!Ids \X (1..(issued + 1))
           /\ \A p \in following : p[2] # issued + 1
  <2>1. issued + 1 \in Drafts!Ids /\ issued + 1 > issued /\ issued + 1 \notin 1..issued
          /\ 1..issued \subseteq 1..(issued + 1)
    BY <1>2 DEF Drafts!Ids
  <2> QED  BY <2>1 DEF DraftsInv, Given
<1>4. \A d : Carried(d)' = Carried(d) /\ Senders(d)' = Senders(d)
  BY <1>1, SendersSame
<1>5. /\ Shape' /\ Given' /\ Risks' /\ call' # "opening"
      /\ \E e : Grows(e) /\ e.op = "held" /\ e.id = issued + 1
  BY <1>1, <1>2, <1>3, <1>4, HoldsKeeps
<1>6. SendersOK' /\ Frozen' /\ Bouncing'
  <2>1. PICK e : Grows(e) /\ e.op = "held" /\ e.id = issued + 1
    BY <1>5
  <2>2. \A s \in Sender : Carrying(s) => ~ Touches(e, Cur(s))
    <3>1. \A s \in Sender : Carrying(s) => Cur(s) \in 1..issued
      BY DEF DraftsInv, SendersOK, Sane, Carrying, Cur
    <3> QED  BY <1>2, <2>1, <3>1 DEF Touches
  <2>3. ~ \E s \in Sender : sender[s].phase = "bouncing"
    BY <1>1 DEF Drafts!Settled
  <2>4. issued <= issued' /\ issued' \in Nat
    BY <1>2
  <2> QED  BY <1>1, <1>5, <2>1, <2>2, <2>3, <2>4, Quiet
<1> QED  BY <1>5, <1>6 DEF DraftsInv

(* A copy is at risk where its source is.                                   *)
LEMMA CopyKeeps ==
    ASSUME DraftsInv, call = "none", NEW source \in Drafts!Ids,
           NEW bounced \in BOOLEAN, Drafts!HoldsCopy(source, bounced),
           mayBeOut[source] # {} \/ (\E p \in following : p[2] = source)
             => Drafts!CarriesRisk(source),
           \A d : Carried(d)' = Carried(d) /\ Senders(d)' = Senders(d)
    PROVE  /\ Shape' /\ Given' /\ Risks' /\ issued' = issued + 1 /\ call' # "opening"
           /\ issued' \in Nat /\ issued \in Nat /\ settled' = settled
           /\ \E e : Grows(e) /\ e.op = "held" /\ e.id = issued + 1
           /\ \A d \in 1..issued : mayBeOut'[d] = mayBeOut[d]
           /\ \A p \in following' : p \in following \/ p[2] \notin 1..issued
<1>1. Drafts!Holds(bounced, Drafts!CarriesRisk(source)) /\ settled' = settled
  BY DEF Drafts!HoldsCopy
<1>2. issued < MaxDrafts /\ issued' = issued + 1 /\ issued \in Nat /\ MaxDrafts \in Nat
  BY <1>1, PartsConstants DEF Drafts!Holds, DraftsInv, Given, Drafts!DraftsConstants
<1>3. issued + 1 \in Drafts!Ids /\ issued + 1 \notin 1..issued /\ 1..issued \subseteq Drafts!Ids
  BY <1>2 DEF Drafts!Ids
<1>4. mayBeOut \in [Drafts!Ids -> SUBSET (Sender \cup {Drafts!Earlier})]
        /\ following \subseteq Drafts!Ids \X (1..issued)
  BY DEF DraftsInv, Given
<1>5. mayBeOut' = [mayBeOut EXCEPT ![issued + 1] = mayBeOut[source]]
  BY <1>2 DEF Drafts!HoldsCopy
<1>6. following' = following \cup {<<d, issued + 1>> : d \in {e \in Drafts!Ids : (e = source /\ e \in Drafts!InFlight)
                                                                  \/ <<e, source>> \in following}}
  BY <1>2 DEF Drafts!HoldsCopy
<1>7. /\ mayBeOut' \in [Drafts!Ids -> SUBSET (Sender \cup {Drafts!Earlier})]
      /\ \A d \in Drafts!Ids : d # issued + 1 => mayBeOut'[d] = mayBeOut[d]
      /\ mayBeOut'[issued + 1] = mayBeOut[source]
  BY <1>3, <1>4, <1>5
<1>8. ASSUME NEW p \in following', p \notin following
      PROVE  p[2] = issued + 1 /\ p \in Drafts!Ids \X {issued + 1}
  <2>1. PICK d \in Drafts!Ids : p = <<d, issued + 1>>
    BY <1>6, <1>8
  <2> QED  BY <2>1
<1>9. following' \subseteq Drafts!Ids \X (1..(issued + 1))
  <2>1. 1..issued \subseteq 1..(issued + 1) /\ issued + 1 \in 1..(issued + 1)
    BY <1>2
  <2> QED  BY <1>4, <1>8, <2>1
<1>10. (\E p \in following' : p[2] = issued + 1) => Drafts!CarriesRisk(source)
  <2> SUFFICES ASSUME NEW p \in following', p[2] = issued + 1 PROVE Drafts!CarriesRisk(source)
    OBVIOUS
  <2>1. p \notin following
    BY <1>3, <1>4
  <2>2. PICK d \in Drafts!Ids : (d = source /\ d \in Drafts!InFlight)
               \/ <<d, source>> \in following
    BY <1>6, <2>1
  <2>3. CASE source \in Drafts!InFlight
    BY <2>3 DEF Drafts!CarriesRisk
  <2>4. CASE <<d, source>> \in following
    BY <2>4
  <2> QED  BY <2>2, <2>3, <2>4
<1>11. ~ Drafts!CarriesRisk(source) => mayBeOut'[issued + 1] = {}
         /\ \A p \in following' : p[2] # issued + 1
  BY <1>7, <1>10
<1>12. Drafts!CarriesRisk(source) \in BOOLEAN
  BY DEF Drafts!CarriesRisk
<1>13. /\ Shape' /\ Given' /\ Risks' /\ call' # "opening"
       /\ \E e : Grows(e) /\ e.op = "held" /\ e.id = issued + 1
  <2>1. PICK risk \in BOOLEAN : risk = Drafts!CarriesRisk(source)
    BY <1>12
  <2>2. Drafts!Holds(bounced, risk)
          /\ (~ risk => mayBeOut'[issued + 1] = {} /\ \A p \in following' : p[2] # issued + 1)
    BY <1>1, <1>11, <2>1
  <2> QED  BY <1>1, <1>7, <1>8, <1>9, <2>2, HoldsKeeps
<1> QED  BY <1>1, <1>2, <1>3, <1>7, <1>8, <1>13

LEMMA HoldWithUnsentKeeps ==
    ASSUME DraftsInv, NEW b \in BOOLEAN, Drafts!HoldWithUnsent(b)
    PROVE  DraftsInv'
<1> DEFINE source == latestBounce
<1>1. Drafts!Settled /\ Drafts!Open(source) /\ Drafts!HoldsCopy(source, b) /\ sender' = sender
        /\ call = "none"
  BY DEF Drafts!HoldWithUnsent, Drafts!Settled
<1>2. source \in Drafts!Ids
  BY <1>1, InMemory DEF Drafts!Open, Drafts!Kept, DraftsInv
<1>3. \A d : Carried(d)' = Carried(d) /\ Senders(d)' = Senders(d)
  BY <1>1, SendersSame
<1>4. mayBeOut[source] # {} \/ (\E p \in following : p[2] = source)
        => Drafts!CarriesRisk(source)
  <2>1. CASE Senders(source) # {}
    BY <2>1, SendersFly DEF Drafts!CarriesRisk, DraftsInv
  <2>2. CASE Senders(source) = {}
    BY <1>1, <2>2, OpenRisk DEF Drafts!CarriesRisk
  <2> QED  BY <2>1, <2>2
<1> HIDE DEF source
<1>5. /\ Shape' /\ Given' /\ Risks' /\ issued' = issued + 1 /\ call' # "opening"
      /\ issued' \in Nat /\ issued \in Nat /\ settled' = settled
      /\ \E e : Grows(e) /\ e.op = "held" /\ e.id = issued + 1
      /\ \A d \in 1..issued : mayBeOut'[d] = mayBeOut[d]
      /\ \A p \in following' : p \in following \/ p[2] \notin 1..issued
  BY <1>1, <1>2, <1>3, <1>4, CopyKeeps
<1>6. SendersOK' /\ Frozen' /\ Bouncing'
  <2>1. PICK e : Grows(e) /\ e.op = "held" /\ e.id = issued + 1
    BY <1>5
  <2>2. \A s \in Sender : Carrying(s) => ~ Touches(e, Cur(s))
    <3>1. \A s \in Sender : Carrying(s) => Cur(s) \in 1..issued
      BY DEF DraftsInv, SendersOK, Sane, Carrying, Cur
    <3>2. issued + 1 \notin 1..issued
      BY <1>5
    <3> QED  BY <2>1, <3>1, <3>2 DEF Touches
  <2>3. ~ \E s \in Sender : sender[s].phase = "bouncing"
    BY <1>1 DEF Drafts!Settled
  <2>4. issued <= issued'
    BY <1>5
  <2> QED  BY <1>1, <1>5, <2>1, <2>2, <2>3, <2>4, Quiet
<1> QED  BY <1>5, <1>6 DEF DraftsInv

LEMMA DismissKeeps == ASSUME DraftsInv, NEW d \in Drafts!Ids, Drafts!Dismiss(d) PROVE DraftsInv'
<1> DEFINE e == Drafts!Dismissed(d)
<1>1. /\ Drafts!Settled /\ d \in DOMAIN drafts /\ d \notin Drafts!Sending /\ call = "none"
      /\ Drafts!Writes(e) \/ Drafts!Fails(e)
      /\ UNCHANGED <<issued, sender, mayBeOut, following, reported, settled>>
  BY DEF Drafts!Dismiss, Drafts!Settled, Drafts!Open, Drafts!Kept, Drafts!history
<1>2. e \in Kinds /\ e.op = "dismissed" /\ e.id = d
  BY KindsAre DEF Drafts!Dismissed
<1>3. Shape /\ Given /\ Risks
  BY DEF DraftsInv
<1> HIDE DEF e
<1>4. Shape' /\ call' # "opening" /\ Drafts!Projection \in Views
        /\ Views' \subseteq Views \cup {Drafts!Reduce(Drafts!Projection, e)}
  <2>1. CASE Drafts!Writes(e)
    BY <1>1, <1>2, <1>3, <2>1, WritesShape
  <2>2. CASE Drafts!Fails(e)
    BY <1>1, <1>2, <1>3, <2>2, FailsShape
  <2> QED  BY <1>1, <2>1, <2>2
<1>5. Grows(e)
  BY <1>2, <1>4 DEF Grows
<1>6. Given'
  BY <1>1, <1>2, <1>3, <1>5, GivenKeeps DEF Given
<1>7. \A s \in Sender : sender[s].phase # "bouncing" /\ sender[s].phase # "recorded"
  BY <1>1 DEF Drafts!Settled
<1>8. \A s \in Sender : Carrying(s) => Cur(s) # d
  BY <1>1, <1>7 DEF Drafts!Sending, Drafts!At, Carrying, Cur
<1>9. SendersOK' /\ Frozen' /\ Bouncing'
  <2>1. \A s \in Sender : Carrying(s) => ~ Touches(e, Cur(s))
    BY <1>2, <1>8 DEF Touches
  <2>2. issued <= issued' /\ issued' \in Nat
    BY <1>1, <1>3 DEF Given
  <2> QED  BY <1>1, <1>4, <1>5, <1>7, <2>1, <2>2, Quiet
<1>10. Risks'
  <2>1. \A x : Carried(x)' = Carried(x) /\ Senders(x)' = Senders(x)
    BY <1>1, SendersSame
  <2>2. ASSUME NEW x \in Drafts!Ids, NEW D \in Drafts!Draft, RiskAt(D, x) PROVE RiskAt(D, x)'
    BY <1>1, <2>1, <2>2, RiskCalm
  <2>3. ASSUME NEW P \in Views', NEW x \in DOMAIN P.drafts, Touches(e, x)
        PROVE  RiskAt(P.drafts[x], x)'
    <3>1. x = d
      BY <1>2, <2>3 DEF Touches
    <3>2. CASE P \in Views
      <4>1. RiskAt(P.drafts[x], x) /\ x \in Drafts!Ids /\ P.drafts[x] \in Drafts!Draft
        BY <1>3, <3>2 DEF Risks, Shape, IsProjection
      <4> QED  BY <2>2, <4>1
    <3>3. CASE P = Drafts!Reduce(Drafts!Projection, e)
      <4>1. IsProjection(Drafts!Projection) /\ Drafts!Projection.drafts = drafts
              /\ d \in DOMAIN Drafts!Projection.drafts
        BY <1>1, <1>3, InMemory
      <4>2. IsProjection(P) /\ P.drafts[d].risk = drafts[d].risk
              /\ P.drafts[d].attempts = drafts[d].attempts
        BY <3>3, <4>1, ReduceDismissed DEF e
      <4>3. RiskAt(drafts[d], d)
        BY <1>3, <1>4, <4>1 DEF Risks
      <4>4. RiskAt(P.drafts[d], d)
        BY <4>2, <4>3 DEF RiskAt, Marked, Before
      <4>5. d \in Drafts!Ids /\ P.drafts[d] \in Drafts!Draft
        BY <2>3, <3>1, <4>2 DEF IsProjection
      <4> QED  BY <2>2, <3>1, <4>4, <4>5
    <3> QED  BY <1>4, <3>2, <3>3
  <2> QED  BY <1>3, <1>5, <2>2, <2>3, RisksKeep
<1> QED  BY <1>4, <1>6, <1>9, <1>10 DEF DraftsInv

-----------------------------------------------------------------------------
(* A sender's steps.                                                        *)
Others(s) == \A t \in Sender : t # s => sender[t].phase \in {"idle", "sending"}

LEMMA BusyAlone ==
    ASSUME SendersOK, NEW s \in Sender, sender[s].phase \in BusyPhases
    PROVE  Others(s)
BY DEF SendersOK, Apart, BusyPhases, Others, Sane, SenderState

LEMMA SettledAlone ==
    ASSUME Drafts!Settled, NEW s \in Sender
    PROVE  Others(s)
BY DEF Drafts!Settled, Others

LEMMA Moves ==
    ASSUME DraftsInv, Shape', NEW e, Grows(e), NEW s \in Sender, NEW R,
           sender' = [sender EXCEPT ![s] = R], Sane(R)', Others(s),
           \A t \in Sender : t # s => R.claims \cap sender[t].claims = {},
           call # "opening", call' # "opening", issued <= issued', issued' \in Nat,
           \A t \in Sender : t # s /\ sender[t].phase = "sending" =>
               /\ ~ Touches(e, Cur(t)) /\ Cur(t) \notin settled'
               /\ sender[t].via = "unsent-token" =>
                     mayBeOut'[Cur(t)] \subseteq {t} /\ \A p \in following' : p[2] # Cur(t),
           R.phase \in {"recorded", "sending"} => (SeenAlike(Cur(s)) /\ SentOnce(s))',
           R.phase = "bouncing" => Bounced(s)'
    PROVE  SendersOK' /\ Frozen' /\ Bouncing'
<1>1. /\ DOMAIN sender = Sender /\ sender'[s] = R
      /\ \A t \in Sender : t # s => sender'[t] = sender[t] /\ Cur(t)' = Cur(t)
  BY DEF DraftsInv, SendersOK, Cur
<1>2. SendersOK'
  <2>1. ASSUME NEW t \in Sender PROVE Sane(sender[t])'
    <3>1. CASE t = s
      BY <1>1, <3>1
    <3>2. CASE t # s
      <4>1. Sane(sender[t]) /\ issued \in Nat
        BY DEF DraftsInv, SendersOK, Given
      <4> QED  BY <1>1, <3>2, <4>1 DEF Sane
    <3> QED  BY <3>1, <3>2
  <2>2. ASSUME NEW t \in Sender, NEW u \in Sender, t # u PROVE Apart(sender[t], sender[u])'
    <3>1. \A x \in Sender : x # s => sender[x].phase \notin BusyPhases
      BY DEF Others, BusyPhases
    <3>2. Apart(sender[t], sender[u])
      BY <2>2 DEF DraftsInv, SendersOK
    <3> QED  BY <1>1, <2>2, <3>1, <3>2 DEF Apart
  <2>3. DOMAIN sender' = Sender /\ sender' = [t \in Sender |-> sender'[t]]
    BY DEF DraftsInv, SendersOK
  <2> QED  BY <2>1, <2>2, <2>3 DEF SendersOK
<1>3. ASSUME NEW t \in Sender, Carrying(t)'
      PROVE  (SeenAlike(Cur(t)) /\ SentOnce(t))'
  <2>1. CASE t = s
    BY <1>1, <1>3, <2>1 DEF Carrying
  <2>2. CASE t # s
    <3>1. sender'[t] = sender[t] /\ Cur(t)' = Cur(t) /\ sender[t].phase = "sending"
            /\ Carrying(t)
      BY <1>1, <1>3, <2>2 DEF Others, Carrying
    <3>2. SeenAlike(Cur(t)) /\ SentOnce(t) /\ ~ Touches(e, Cur(t))
      BY <2>2, <3>1 DEF DraftsInv, Frozen
    <3>3. PICK x : x = Cur(t)
      OBVIOUS
    <3>4. SeenAlike(x)' /\ x \in DOMAIN drafts' /\ drafts'[x] = drafts[x]
      BY <3>2, <3>3, StillHeld DEF DraftsInv
    <3>5. SeenAlike(Cur(t))'
      BY <3>1, <3>3, <3>4 DEF SeenAlike
    <3>6. SentOnce(t)'
      BY <2>2, <3>1, <3>2, <3>3, <3>4 DEF SentOnce
    <3> QED  BY <3>5, <3>6
  <2> QED  BY <2>1, <2>2
<1>4. ASSUME NEW t \in Sender, sender'[t].phase = "bouncing" PROVE Bounced(t)'
  BY <1>1, <1>4 DEF Others
<1> QED  BY <1>2, <1>3, <1>4 DEF Frozen, Bouncing

(* What a step of one sender does to who carries a draft.                   *)
CarriedWith(s, R, d) ==
    \/ \E t \in Sender : t # s /\ Carrying(t) /\ Cur(t) = d
    \/ R.phase \in {"recorded", "sending"} /\ Head(R.list) = d
SendersWith(s, R, d) ==
    (Senders(d) \ {s}) \cup {t \in {s} : R.phase = "sending" /\ Head(R.list) = d}

LEMMA CarriedNow ==
    ASSUME SendersOK, NEW s \in Sender, NEW R, sender' = [sender EXCEPT ![s] = R], NEW d
    PROVE  Carried(d)' = CarriedWith(s, R, d) /\ Senders(d)' = SendersWith(s, R, d)
<1>1. /\ sender'[s] = R /\ Cur(s)' = Head(R.list)
      /\ \A t \in Sender : t # s => sender'[t] = sender[t] /\ Cur(t)' = Cur(t)
  BY DEF SendersOK, Cur
<1>2. Carried(d)' = CarriedWith(s, R, d)
  BY <1>1 DEF Carried, Carrying, CarriedWith
<1>3. Senders(d)' = SendersWith(s, R, d)
  BY <1>1 DEF Senders, SendersWith
<1> QED  BY <1>2, <1>3

(* One sender at most carries a draft, and none that another has claimed.   *)
LEMMA ClaimedByOne ==
    ASSUME SendersOK, NEW s \in Sender, NEW d, d \in sender[s].claims, NEW t \in Sender, t # s
    PROVE  ~ (Carrying(t) /\ Cur(t) = d) /\ t \notin Senders(d)
BY DEF SendersOK, Sane, Apart, Carrying, Cur, Senders

LEMMA NotCarried ==
    ASSUME SendersOK, NEW d, d \notin Drafts!InFlight
    PROVE  ~ Carried(d) /\ Senders(d) = {}
<1>1. ASSUME NEW t \in Sender PROVE d \notin sender[t].claims
  BY DEF Drafts!InFlight
<1>2. ASSUME NEW t \in Sender, Carrying(t) PROVE Cur(t) # d
  BY <1>1, <1>2 DEF SendersOK, Sane, Carrying, Cur
<1> QED  BY <1>2 DEF Carried, Senders, Carrying

(* A sender that carried nothing carries nothing, and the journal stays.    *)
LEMMA Turns ==
    ASSUME DraftsInv, Shape', Views' = Views, NEW s \in Sender, NEW R,
           sender' = [sender EXCEPT ![s] = R], Sane(R)', Others(s), ~ Carrying(s),
           R.phase \in {"idle", "next", "bouncing"},
           R.phase = "bouncing" => mayBeOut[Head(R.list)] = {}
             /\ \A p \in following : p[2] # Head(R.list),
           \A t \in Sender : t # s => R.claims \cap sender[t].claims = {},
           call # "opening", call' # "opening",
           UNCHANGED <<issued, mayBeOut, reported, settled>>, following' \subseteq following
    PROVE  DraftsInv'
<1>1. PICK e : e = Drafts!Checkpoint({})
  OBVIOUS
<1>2. Grows(e) /\ e.op = "checkpoint" /\ e.gone = {} /\ \A d : ~ Touches(e, d)
  BY <1>1, GrowsNot, NoneGone DEF Drafts!Checkpoint
<1>3. Shape /\ Given /\ Risks /\ SendersOK
  BY DEF DraftsInv
<1>4. issued \in Nat
  BY <1>3 DEF Given
<1>5. Given'
  BY <1>2, <1>3, GivenKeeps DEF Given
<1>6. SendersOK' /\ Frozen' /\ Bouncing'
  <2>1. ASSUME NEW t \in Sender, t # s, sender[t].phase = "sending"
        PROVE  /\ Cur(t) \notin settled'
               /\ sender[t].via = "unsent-token" =>
                    mayBeOut'[Cur(t)] \subseteq {t} /\ \A p \in following' : p[2] # Cur(t)
    BY <2>1 DEF DraftsInv, Frozen, SentOnce, Carrying
  <2>2. R.phase \notin {"recorded", "sending"} /\ (R.phase = "bouncing" => Bounced(s)')
    <3>1. sender'[s] = R /\ Cur(s)' = Head(R.list)
      BY <1>3 DEF SendersOK, Cur
    <3> QED  BY <3>1 DEF Bounced
  <2>3. issued <= issued' /\ issued' \in Nat
    BY <1>4
  <2>4. \A t \in Sender : t # s /\ sender[t].phase = "sending" =>
           /\ ~ Touches(e, Cur(t)) /\ Cur(t) \notin settled'
           /\ sender[t].via = "unsent-token" =>
                 mayBeOut'[Cur(t)] \subseteq {t} /\ \A p \in following' : p[2] # Cur(t)
    BY <1>2, <2>1
  <2> QED  BY <1>2, <2>2, <2>3, <2>4, Moves
<1>7. Risks'
  <2>1. ASSUME NEW d PROVE (Carried(d)' => Carried(d)) /\ Senders(d)' = Senders(d)
    <3>1. Carried(d)' = CarriedWith(s, R, d) /\ Senders(d)' = SendersWith(s, R, d)
      BY <1>3, CarriedNow
    <3> QED  BY <3>1 DEF CarriedWith, SendersWith, Carried, Senders, Carrying
  <2>2. ASSUME NEW d \in Drafts!Ids, NEW D \in Drafts!Draft, RiskAt(D, d) PROVE RiskAt(D, d)'
    BY <2>1, <2>2, RiskCalm
  <2> QED  BY <1>2, <1>3, <2>2, RisksKeep
<1> QED  BY <1>5, <1>6, <1>7 DEF DraftsInv

LEMMA ResendBeginsKeeps ==
    ASSUME DraftsInv, NEW s \in Sender, NEW list \in Drafts!ResendLists,
           NEW c \in BOOLEAN, Drafts!ResendBegins(s, list, c)
    PROVE  DraftsInv'
<1> DEFINE R == [phase |-> "next", via |-> "resend", list |-> list,
                 claims |-> Drafts!ToSet(list), confirmed |-> c]
<1>1. /\ Drafts!Settled /\ sender[s].phase = "idle" /\ sender' = [sender EXCEPT ![s] = R]
      /\ \A d \in Drafts!ToSet(list) : Drafts!Kept(d) /\ d \notin Drafts!InFlight
      /\ UNCHANGED <<Drafts!journal, Drafts!projection, call>>
           /\ UNCHANGED <<issued, mayBeOut, following, reported, settled>>
  BY DEF Drafts!ResendBegins, Drafts!history
<1>2. Shape' /\ Views' = Views
  BY <1>1, StillShape DEF DraftsInv
<1>3. call = "none" /\ call' = "none"
  BY <1>1 DEF Drafts!Settled
<1>4. list \in Seq(Drafts!Ids) /\ Drafts!ToSet(list) \subseteq Drafts!Ids
  <2>1. PICK n \in 1..MaxResend : list \in [1..n -> Drafts!Ids]
    BY DEF Drafts!ResendLists
  <2>2. n \in Nat
    BY PartsConstants DEF Drafts!DraftsConstants
  <2> QED  BY <2>1, <2>2 DEF Drafts!ToSet
<1>5. R.claims = Drafts!ToSet(list) /\ R.phase = "next"
  OBVIOUS
<1>6. Sane(R)'
  BY <1>3, <1>4 DEF Sane, SenderState
<1> HIDE DEF R
<1>7. \A t \in Sender : t # s => R.claims \cap sender[t].claims = {}
  BY <1>1, <1>5 DEF Drafts!InFlight
<1>8. Others(s) /\ ~ Carrying(s)
  BY <1>1, SettledAlone DEF Carrying
<1> QED  BY <1>1, <1>2, <1>3, <1>5, <1>6, <1>7, <1>8, Turns

(* A draft with one more attempt, whose outcome is not known.               *)
LEMMA Attempted ==
    ASSUME NEW D \in Drafts!Draft, NEW E, E.risk = D.risk, E.dismissed = D.dismissed,
           E.attempts = Append(D.attempts, "unknown")
    PROVE  /\ Len(E.attempts) = Len(D.attempts) + 1 /\ Len(D.attempts) \in Nat
           /\ LastUnknown(E) /\ (Undecided(D) => Undecided(E))
           /\ Marked(D, Len(D.attempts)) => Marked(E, Len(D.attempts))
           /\ Marked(E, Len(E.attempts))
           /\ (\E i \in 1..Len(D.attempts) : D.attempts[i] = "delivered") =>
                  \E i \in 1..Len(E.attempts) : E.attempts[i] = "delivered"
<1> DEFINE a == D.attempts
           b == E.attempts
<1>1. a \in Seq(Drafts!Status)
  BY DraftFields
<1>2. "unknown" \in Drafts!Status
  BY DEF Drafts!Status
<1>3. /\ Len(a) \in Nat /\ Len(b) = Len(a) + 1 /\ b[Len(a) + 1] = "unknown"
      /\ \A i \in 1..Len(a) : b[i] = a[i]
  BY <1>1, <1>2
<1>4. b # <<>>
  BY <1>3
<1> HIDE DEF a, b
<1>5. Len(b) \in 1..Len(b) /\ b[Len(b)] = "unknown" /\ 1..Len(a) \subseteq 1..Len(b)
      /\ \A i \in 1..Len(b) : i \in 1..Len(a) \/ b[i] = "unknown"
  BY <1>3
<1>6. LastUnknown(E)
  BY <1>4, <1>5 DEF LastUnknown, b
<1>7. Undecided(D) => Undecided(E)
  BY <1>3, <1>5 DEF Undecided, a, b
<1>8. Marked(D, Len(D.attempts)) => Marked(E, Len(D.attempts))
  BY <1>3 DEF Marked, a, b
<1>9. Marked(E, Len(E.attempts))
  BY <1>5 DEF Marked, b
<1>10. (\E i \in 1..Len(a) : a[i] = "delivered") => \E i \in 1..Len(b) : b[i] = "delivered"
  BY <1>3, <1>5
<1> QED  BY <1>3, <1>6, <1>7, <1>8, <1>9, <1>10 DEF a, b

(* A sender that carried nothing and carries no draft but d.                *)
LEMMA CarriedElse ==
    ASSUME SendersOK, NEW s \in Sender, NEW R, sender' = [sender EXCEPT ![s] = R], NEW d,
           ~ Carrying(s), R.phase \in {"recorded", "sending"} => Head(R.list) = d
    PROVE  \A x : x # d => Carried(x)' = Carried(x) /\ Senders(x)' = Senders(x)
<1>1. SUFFICES ASSUME NEW x, x # d
               PROVE  Carried(x)' = Carried(x) /\ Senders(x)' = Senders(x)
  OBVIOUS
<1>2. Carried(x)' = CarriedWith(s, R, x) /\ Senders(x)' = SendersWith(s, R, x)
  BY CarriedNow
<1>3. Carried(x)' = Carried(x)
  BY <1>1, <1>2 DEF Carried, CarriedWith
<1>4. s \notin Senders(x) /\ {t \in {s} : R.phase = "sending" /\ Head(R.list) = x} = {}
  BY <1>1 DEF Senders, Carrying
<1> QED  BY <1>2, <1>3, <1>4 DEF SendersWith

LEMMA AttemptIs ==
    ASSUME NEW d \in Drafts!Ids
    PROVE  /\ Drafts!Attempt(d) \in Kinds /\ Drafts!Attempt(d).op = "attempt"
                /\ Drafts!Attempt(d).id = d
           /\ \A x : Touches(Drafts!Attempt(d), x) <=> x = d
BY KindsAre DEF Drafts!Attempt, Touches

(* What a step that touches d alone needs of the others who are sending.    *)
LEMMA OthersApart ==
    ASSUME DraftsInv, NEW s \in Sender,
           NEW d, \A t \in Sender : t # s => d \notin sender[t].claims,
           UNCHANGED <<mayBeOut, settled>>, following' \subseteq following,
           NEW t \in Sender, t # s, sender[t].phase = "sending"
    PROVE  /\ Cur(t) # d /\ Cur(t) \notin settled'
           /\ sender[t].via = "unsent-token" =>
                 mayBeOut'[Cur(t)] \subseteq {t} /\ \A p \in following' : p[2] # Cur(t)
<1>1. SentOnce(t) /\ Sane(sender[t])
  BY DEF DraftsInv, Frozen, Carrying, SendersOK
<1>2. Cur(t) \in sender[t].claims
  BY <1>1 DEF Sane, Cur
<1> QED  BY <1>1, <1>2 DEF SentOnce

LEMMA BeginsKeeps ==
    ASSUME DraftsInv, call = "none", NEW s \in Sender,
           NEW R, sender' = [sender EXCEPT ![s] = R], Sane(R)',
           Others(s), ~ Carrying(s), \A t \in Sender : t # s
             => R.claims \cap sender[t].claims = {},
           NEW d \in DOMAIN drafts, Undecided(drafts[d]), d \notin settled,
           \A t \in Sender : t # s => d \notin sender[t].claims,
           R.phase = "recorded", Head(R.list) = d, R.confirmed \/ mayBeOut[d] = {},
           R.via = "unsent-token" => mayBeOut[d] = {} /\ \A p \in following : p[2] # d,
           Drafts!Writes(Drafts!Attempt(d)), UNCHANGED <<issued, mayBeOut, reported, settled>>,
           following' \subseteq following
    PROVE  DraftsInv'
<1>1. Shape /\ Given /\ Risks /\ SendersOK
  BY DEF DraftsInv
<1>2. /\ Drafts!Projection \in Views /\ Drafts!Projection.drafts = drafts
           /\ IsProjection(Drafts!Projection)
      /\ d \in Drafts!Ids /\ drafts[d] \in Drafts!Draft
  BY <1>1, InMemory
<1>3. PICK e \in Kinds : e = Drafts!Attempt(d) /\ e.op = "attempt" /\ e.id = d
             /\ \A x : Touches(e, x) <=> x = d
  BY <1>2, AttemptIs
<1>4. PICK Q : Q = Drafts!Reduce(Drafts!Projection, e)
  OBVIOUS
<1>5. Shape' /\ Views' = {Q} /\ Drafts!Projection' = Q /\ call' # "opening"
  BY <1>1, <1>3, <1>4, WritesShape
<1>6. /\ DOMAIN Q.drafts = DOMAIN drafts
      /\ Q.drafts[d].risk = drafts[d].risk /\ Q.drafts[d].dismissed = drafts[d].dismissed
      /\ Q.drafts[d].attempts = Append(drafts[d].attempts, "unknown")
  BY <1>2, <1>3, <1>4, ReduceAttempt
<1>7. drafts' = Q.drafts
  BY <1>5 DEF Drafts!Projection
<1>8. Grows(e)
  BY <1>2, <1>4, <1>5 DEF Grows
<1>9. PICK D : D = Q.drafts[d]
  OBVIOUS
<1>10. /\ Len(D.attempts) = Len(drafts[d].attempts) + 1 /\ Len(drafts[d].attempts) \in Nat
       /\ LastUnknown(D) /\ Undecided(D)
       /\ Marked(drafts[d], Len(drafts[d].attempts)) => Marked(D, Len(drafts[d].attempts))
       /\ D.risk = drafts[d].risk
  BY <1>2, <1>6, <1>9, Attempted
<1>11. issued \in Nat
  BY <1>1 DEF Given
<1>12. Given'
  BY <1>1, <1>3, <1>8, GivenKeeps DEF Given
<1>13. SendersOK' /\ Frozen' /\ Bouncing'
  <2>1. \A t \in Sender : t # s /\ sender[t].phase = "sending" =>
           /\ ~ Touches(e, Cur(t)) /\ Cur(t) \notin settled'
           /\ sender[t].via = "unsent-token" =>
                 mayBeOut'[Cur(t)] \subseteq {t} /\ \A p \in following' : p[2] # Cur(t)
    <3>1. UNCHANGED <<mayBeOut, settled>>
      OBVIOUS
    <3>2. ASSUME NEW t \in Sender, t # s, sender[t].phase = "sending"
          PROVE  /\ Cur(t) # d /\ Cur(t) \notin settled'
                 /\ sender[t].via = "unsent-token" =>
                       mayBeOut'[Cur(t)] \subseteq {t} /\ \A p \in following' : p[2] # Cur(t)
      BY <3>1, <3>2, OthersApart
    <3> QED  BY <1>3, <3>2
  <2>2. sender'[s] = R /\ Cur(s)' = d
    BY <1>1 DEF SendersOK, Cur
  <2>3. SeenAlike(Cur(s))'
    BY <1>5, <1>6, <1>7, <2>2 DEF SeenAlike
  <2>4. SentOnce(s)'
    BY <1>6, <1>7, <1>9, <1>10, <2>2 DEF SentOnce
  <2>5. issued <= issued' /\ issued' \in Nat
    BY <1>11
  <2>6. /\ R.phase \in {"recorded", "sending"} => (SeenAlike(Cur(s)) /\ SentOnce(s))'
        /\ R.phase = "bouncing" => Bounced(s)'
    BY <2>3, <2>4
  <2>7. Shape' /\ Grows(e) /\ call # "opening" /\ call' # "opening"
    BY <1>5, <1>8
  <2> QED  BY <2>1, <2>5, <2>6, <2>7, Moves
<1>14. Risks'
  <2>1. \A x : x # d => Carried(x)' = Carried(x) /\ Senders(x)' = Senders(x)
    BY <1>1, CarriedElse
  <2>2. ~ Carried(d) /\ Senders(d)' = Senders(d) /\ Carried(d)'
    <3>1. Carried(d)' = CarriedWith(s, R, d) /\ Senders(d)' = SendersWith(s, R, d)
      BY <1>1, CarriedNow
    <3>2. s \notin Senders(d)
      BY DEF Senders, Carrying
    <3>3. \A t \in Sender : t # s => ~ (Carrying(t) /\ Cur(t) = d)
      BY <1>1 DEF SendersOK, Sane, Carrying, Cur
    <3>4. ~ Carried(d)
      BY <3>3 DEF Carried
    <3>5. {t \in {s} : R.phase = "sending" /\ Head(R.list) = d} = {}
      OBVIOUS
    <3> QED  BY <3>1, <3>2, <3>4, <3>5 DEF CarriedWith, SendersWith
  <2>3. ASSUME NEW x \in Drafts!Ids,
               NEW E \in Drafts!Draft, e.op = "checkpoint" \/ ~ Touches(e, x), RiskAt(E, x)
        PROVE  RiskAt(E, x)'
    BY <1>3, <2>1, <2>3, RiskCalm
  <2>4. ASSUME NEW P \in Views', NEW x \in DOMAIN P.drafts, e.op # "checkpoint", Touches(e, x)
        PROVE  RiskAt(P.drafts[x], x)'
    <3>1. x = d /\ P.drafts[x] = D
      BY <1>3, <1>5, <1>9, <2>4
    <3>2. RiskAt(drafts[d], d)
      BY <1>1, <1>2 DEF Risks
    <3>3. Before(drafts[d], d) = Len(drafts[d].attempts) /\ Before(D, d)' = Len(drafts[d].attempts)
      BY <1>10, <2>2 DEF Before
    <3>4. mayBeOut'[d] \ Senders(d)' # {} => Marked(D, Before(D, d)')
      BY <1>10, <2>2, <3>2, <3>3 DEF RiskAt
    <3>5. (\E p \in following' : p[2] = d) => D.risk
      BY <1>10, <3>2 DEF RiskAt
    <3>6. RiskAt(D, d)'
      BY <3>4, <3>5 DEF RiskAt
    <3> QED  BY <3>1, <3>6
  <2> QED  BY <1>1, <1>8, <2>3, <2>4, RisksKeep
<1> QED  BY <1>5, <1>12, <1>13, <1>14 DEF DraftsInv

LEMMA BeginFailsKeeps ==
    ASSUME DraftsInv, call = "none", NEW s \in Sender,
           NEW R, sender' = [sender EXCEPT ![s] = R], Sane(R)',
           Others(s), ~ Carrying(s), \A t \in Sender : t # s
             => R.claims \cap sender[t].claims = {},
           NEW d \in DOMAIN drafts, \A t \in Sender : t # s => d \notin sender[t].claims,
           R.phase \in {"idle", "bouncing"},
           R.phase = "bouncing" => Head(R.list) = d /\ mayBeOut[d] = {}
             /\ \A p \in following : p[2] # d,
           Drafts!Fails(Drafts!Attempt(d)), UNCHANGED <<issued, mayBeOut, reported, settled>>,
           following' \subseteq following
    PROVE  DraftsInv'
<1>1. Shape /\ Given /\ Risks /\ SendersOK
  BY DEF DraftsInv
<1>2. /\ Drafts!Projection \in Views /\ Drafts!Projection.drafts = drafts
           /\ IsProjection(Drafts!Projection)
      /\ d \in Drafts!Ids /\ drafts[d] \in Drafts!Draft
  BY <1>1, InMemory
<1>3. PICK e \in Kinds : e = Drafts!Attempt(d) /\ e.op = "attempt" /\ e.id = d
             /\ \A x : Touches(e, x) <=> x = d
  BY <1>2, AttemptIs
<1>4. PICK Q : Q = Drafts!Reduce(Drafts!Projection, e)
  OBVIOUS
<1>5. Shape' /\ Views' \subseteq Views \cup {Q} /\ call' # "opening"
  BY <1>1, <1>3, <1>4, FailsShape
<1>6. /\ DOMAIN Q.drafts = DOMAIN drafts
      /\ Q.drafts[d].risk = drafts[d].risk /\ Q.drafts[d].dismissed = drafts[d].dismissed
      /\ Q.drafts[d].attempts = Append(drafts[d].attempts, "unknown")
  BY <1>2, <1>3, <1>4, ReduceAttempt
<1>7. Grows(e)
  BY <1>2, <1>4, <1>5 DEF Grows
<1>8. PICK D : D = Q.drafts[d]
  OBVIOUS
<1>9. /\ Marked(D, Len(D.attempts)) /\ D.risk = drafts[d].risk
      /\ (\E i \in 1..Len(drafts[d].attempts) : drafts[d].attempts[i] = "delivered") =>
            \E i \in 1..Len(D.attempts) : D.attempts[i] = "delivered"
  BY <1>2, <1>6, <1>8, Attempted
<1>10. issued <= issued' /\ issued' \in Nat
  BY <1>1 DEF Given
<1>11. Given'
  BY <1>1, <1>3, <1>7, GivenKeeps DEF Given
<1>12. SendersOK' /\ Frozen' /\ Bouncing'
  <2>1. \A t \in Sender : t # s /\ sender[t].phase = "sending" =>
           /\ ~ Touches(e, Cur(t)) /\ Cur(t) \notin settled'
           /\ sender[t].via = "unsent-token" =>
                 mayBeOut'[Cur(t)] \subseteq {t} /\ \A p \in following' : p[2] # Cur(t)
    <3>1. UNCHANGED <<mayBeOut, settled>>
      OBVIOUS
    <3>2. ASSUME NEW t \in Sender, t # s, sender[t].phase = "sending"
          PROVE  /\ Cur(t) # d /\ Cur(t) \notin settled'
                 /\ sender[t].via = "unsent-token" =>
                       mayBeOut'[Cur(t)] \subseteq {t} /\ \A p \in following' : p[2] # Cur(t)
      BY <3>1, <3>2, OthersApart
    <3> QED  BY <1>3, <3>2
  <2>2. sender'[s] = R /\ Cur(s)' = Head(R.list)
    BY <1>1 DEF SendersOK, Cur
  <2>3. R.phase = "bouncing" => Bounced(s)'
    BY <2>2 DEF Bounced
  <2>4. R.phase \notin {"recorded", "sending"}
    OBVIOUS
  <2>5. R.phase \in {"recorded", "sending"} => (SeenAlike(Cur(s)) /\ SentOnce(s))'
    BY <2>4
  <2>6. Shape' /\ Grows(e) /\ call # "opening" /\ call' # "opening"
    BY <1>5, <1>7
  <2> QED  BY <1>10, <2>1, <2>3, <2>5, <2>6, Moves
<1>13. Risks'
  <2>1. \A x : x # d => Carried(x)' = Carried(x) /\ Senders(x)' = Senders(x)
    BY <1>1, CarriedElse
  <2>2. ~ Carried(d) /\ Senders(d)' = Senders(d) /\ ~ Carried(d)'
    <3>1. Carried(d)' = CarriedWith(s, R, d) /\ Senders(d)' = SendersWith(s, R, d)
      BY <1>1, CarriedNow
    <3>2. s \notin Senders(d)
      BY DEF Senders, Carrying
    <3>3. \A t \in Sender : t # s => ~ (Carrying(t) /\ Cur(t) = d)
      BY <1>1 DEF SendersOK, Sane, Carrying, Cur
    <3>4. ~ Carried(d)
      BY <3>3 DEF Carried
    <3>5. {t \in {s} : R.phase = "sending" /\ Head(R.list) = d} = {}
      OBVIOUS
    <3> QED  BY <3>1, <3>2, <3>3, <3>4, <3>5 DEF CarriedWith, SendersWith
  <2>3. ASSUME NEW x \in Drafts!Ids,
               NEW E \in Drafts!Draft, e.op = "checkpoint" \/ ~ Touches(e, x), RiskAt(E, x)
        PROVE  RiskAt(E, x)'
    BY <1>3, <2>1, <2>3, RiskCalm
  <2>4. ASSUME NEW P \in Views', NEW x \in DOMAIN P.drafts, e.op # "checkpoint", Touches(e, x)
        PROVE  RiskAt(P.drafts[x], x)'
    <3>1. x = d
      BY <1>3, <2>4
    <3>2. RiskAt(drafts[d], d)
      BY <1>1, <1>2 DEF Risks
    <3>3. CASE P \in Views
      <4>1. P.drafts[x] \in Drafts!Draft /\ RiskAt(P.drafts[x], x)
        BY <1>1, <3>3 DEF Shape, IsProjection, Risks
      <4> QED  BY <2>2, <3>1, <4>1, RiskCalm
    <3>4. CASE P = Q
      <4>1. P.drafts[x] = D
        BY <1>8, <3>1, <3>4
      <4>2. Before(D, d)' = Len(D.attempts)
        BY <2>2 DEF Before
      <4>3. d \in settled' => \E i \in 1..Len(D.attempts) : D.attempts[i] = "delivered"
        BY <1>9, <3>2 DEF RiskAt
      <4>4. (\E p \in following' : p[2] = d) => D.risk
        BY <1>9, <3>2 DEF RiskAt
      <4>5. RiskAt(D, d)'
        BY <1>9, <4>2, <4>3, <4>4 DEF RiskAt
      <4> QED  BY <3>1, <4>1, <4>5
    <3> QED  BY <1>5, <3>3, <3>4
  <2> QED  BY <1>1, <1>7, <2>3, <2>4, RisksKeep
<1> QED  BY <1>5, <1>11, <1>12, <1>13 DEF DraftsInv

LEMMA IdleIs ==
    /\ Drafts!Idle.phase = "idle" /\ Drafts!Idle.claims = {} /\ Sane(Drafts!Idle)
         /\ Sane(Drafts!Idle)'
BY DEF Drafts!Idle, Sane, SenderState

LEMMA StepIs ==
    ASSUME SendersOK, NEW s \in Sender, NEW phase, NEW list, Drafts!Step(s, phase, list)
    PROVE  \E R : /\ sender' = [sender EXCEPT ![s] = R]
                  /\ R.phase = phase /\ R.list = list /\ R.via = sender[s].via
                  /\ R.claims = sender[s].claims /\ R.confirmed = sender[s].confirmed
                  /\ phase \in {"idle", "next", "recorded", "sending", "bouncing"} /\ list \in Seq(Drafts!Ids) =>
                        R \in SenderState
<1> DEFINE R == [sender[s] EXCEPT !.phase = phase, !.list = list]
<1>1. sender[s] \in SenderState /\ DOMAIN sender = Sender
  BY DEF SendersOK, Sane
<1>2. sender' = [sender EXCEPT ![s] = R]
  BY <1>1 DEF Drafts!Step
<1>3. /\ R.phase = phase /\ R.list = list /\ R.via = sender[s].via
      /\ R.claims = sender[s].claims /\ R.confirmed = sender[s].confirmed
      /\ phase \in {"idle", "next", "recorded", "sending", "bouncing"}
           /\ list \in Seq(Drafts!Ids) => R \in SenderState
  BY <1>1 DEF SenderState
<1> QED  BY <1>2, <1>3

LEMMA EndsIs ==
    ASSUME SendersOK, NEW s \in Sender, Drafts!Ends(s)
    PROVE  \E R : R = Drafts!Idle /\ sender' = [sender EXCEPT ![s] = R]
             /\ following' \subseteq following
BY DEF Drafts!Ends

(* The rest of a list.                                                      *)
LEMMA ListIs ==
    ASSUME NEW list \in Seq(Drafts!Ids), list # <<>>
    PROVE  Head(list) \in Drafts!ToSet(list) /\ Tail(list) \in Seq(Drafts!Ids)
             /\ Drafts!ToSet(Tail(list)) \subseteq Drafts!ToSet(list)
<1>1. Len(list) \in Nat \ {0} /\ DOMAIN list = 1..Len(list) /\ Head(list) = list[1]
  OBVIOUS
<1>2. Tail(list) \in Seq(Drafts!Ids) /\ Len(Tail(list)) = Len(list) - 1
  OBVIOUS
<1>3. DOMAIN Tail(list) = 1..(Len(list) - 1)
        /\ \A i \in 1..(Len(list) - 1) : Tail(list)[i] = list[i + 1]
  BY <1>1, <1>2
<1>4. \A i \in 1..(Len(list) - 1) : i + 1 \in 1..Len(list)
  BY <1>1
<1> QED  BY <1>1, <1>2, <1>3, <1>4 DEF Drafts!ToSet

(* A draft its sender has claimed and may send.                             *)
LEMMA MaySend ==
    ASSUME DraftsInv, call = "none", NEW s \in Sender, ~ Carrying(s),
           NEW d, Drafts!Kept(d), \A t \in Sender : t # s => d \notin sender[t].claims,
           NEW c, Drafts!DraftState(d) # "delivered", ~ Drafts!Refused(d, c)
    PROVE  /\ d \in DOMAIN drafts /\ Undecided(drafts[d]) /\ d \notin settled
                /\ d \in Drafts!Ids
           /\ c \/ (mayBeOut[d] = {} /\ \A p \in following : p[2] # d)
<1>1. Shape /\ Risks /\ SendersOK /\ d \in DOMAIN drafts
  BY DEF DraftsInv, Drafts!Kept
<1>2. /\ Drafts!Projection \in Views /\ Drafts!Projection.drafts = drafts
      /\ d \in Drafts!Ids /\ drafts[d] \in Drafts!Draft
  BY <1>1, InMemory
<1>3. Drafts!DraftState(d) # "dismissed" /\ (c \/ Drafts!DraftState(d) # "unconfirmed")
  BY DEF Drafts!Refused
<1>4. Undecided(drafts[d])
  BY <1>2, <1>3, StateOf
<1>5. d \notin settled
  BY <1>1, <1>2, StateOf DEF Risks, RiskAt
<1>6. Drafts!Open(d)
  BY <1>1, <1>2, <1>4, StateOf DEF Drafts!Open
<1>7. Senders(d) = {}
  BY <1>1 DEF Senders, Carrying, SendersOK, Sane, Cur
<1>8. ASSUME ~ c PROVE mayBeOut[d] = {} /\ \A p \in following : p[2] # d
  <2>1. ~ (mayBeOut[d] \ Senders(d) # {} \/ \E p \in following : p[2] = d)
    BY <1>3, <1>6, <1>8, OpenRisk
  <2> QED  BY <1>7, <2>1
<1> QED  BY <1>1, <1>2, <1>4, <1>5, <1>8

LEMMA ResendNextKeeps == ASSUME DraftsInv, NEW s \in Sender, Drafts!ResendNext(s)
                         PROVE  DraftsInv'
<1>1. Shape /\ Given /\ SendersOK /\ Sane(sender[s])
  BY DEF DraftsInv, SendersOK
<1>2. call = "none" /\ sender[s].phase = "next" /\ ~ Carrying(s)
  BY DEF Drafts!ResendNext, Carrying
<1>3. Others(s)
  BY <1>1, <1>2, BusyAlone DEF BusyPhases
<1>4. \A t \in Sender : t # s => sender[s].claims \cap sender[t].claims = {}
  BY <1>1 DEF SendersOK, Apart
<1>5. UNCHANGED <<issued, mayBeOut, reported, settled>>
  BY DEF Drafts!ResendNext
<1>6. CASE Drafts!Ends(s) /\ UNCHANGED <<Drafts!journal, Drafts!projection, call>>
  <2>1. PICK R : R = Drafts!Idle /\ sender' = [sender EXCEPT ![s] = R]
               /\ following' \subseteq following
    BY <1>1, <1>6, EndsIs
  <2>2. R.phase = "idle" /\ R.claims = {} /\ Sane(R)'
    BY <2>1, IdleIs
  <2>3. Shape' /\ Views' = Views /\ call # "opening" /\ call' # "opening"
    BY <1>1, <1>2, <1>6, StillShape
  <2> QED  BY <1>2, <1>3, <1>5, <2>1, <2>2, <2>3, Turns
<1>7. CASE ~ (sender[s].list = <<>> \/ Drafts!ResendStops(s, Head(sender[s].list)))
  <2>1. PICK d : d = Head(sender[s].list)
    OBVIOUS
  <2>2. sender[s].list \in Seq(Drafts!Ids) /\ sender[s].list # <<>>
          /\ Drafts!ToSet(sender[s].list) \subseteq sender[s].claims
    BY <1>1, <1>2, <1>7 DEF Sane, SenderState
  <2>3. d \in sender[s].claims /\ Drafts!Kept(d) /\ Tail(sender[s].list) \in Seq(Drafts!Ids)
        /\ Drafts!ToSet(Tail(sender[s].list)) \subseteq sender[s].claims
    BY <1>7, <2>1, <2>2, ListIs DEF Drafts!ResendStops
  <2>4. \A t \in Sender : t # s => d \notin sender[t].claims
    BY <1>4, <2>3
  <2>5. CASE Drafts!DraftState(d) = "delivered"
    <3>1. /\ Drafts!Step(s, "next", Tail(sender[s].list)) /\ following' = following
          /\ UNCHANGED <<Drafts!journal, Drafts!projection, call>>
      BY <1>7, <2>1, <2>5 DEF Drafts!ResendNext, Drafts!Follows
    <3>2. PICK R : /\ sender' = [sender EXCEPT ![s] = R]
                   /\ R.phase = "next" /\ R.list = Tail(sender[s].list) /\ R.via = sender[s].via
                   /\ R.claims = sender[s].claims /\ R.confirmed = sender[s].confirmed
                   /\ R \in SenderState
      <4>1. PICK l \in Seq(Drafts!Ids) : l = Tail(sender[s].list)
        BY <2>3
      <4>2. PICK p : p = "next"
        OBVIOUS
      <4>3. Drafts!Step(s, p, l)
        BY <3>1, <4>1, <4>2
      <4>4. \E R : /\ sender' = [sender EXCEPT ![s] = R]
                   /\ R.phase = p /\ R.list = l /\ R.via = sender[s].via
                   /\ R.claims = sender[s].claims /\ R.confirmed = sender[s].confirmed
                   /\ p \in {"idle", "next", "recorded", "sending", "bouncing"}
                        /\ l \in Seq(Drafts!Ids) => R \in SenderState
        BY <1>1, <4>3, StepIs
      <4> QED  BY <4>1, <4>2, <4>4
    <3>3. Shape' /\ Views' = Views /\ call # "opening" /\ call' # "opening"
      BY <1>1, <1>2, <3>1, StillShape
    <3>4. Sane(R)'
      BY <1>1, <2>3, <3>2, <3>3 DEF Sane
    <3>5. \A t \in Sender : t # s => R.claims \cap sender[t].claims = {}
      BY <1>4, <3>2
    <3> QED  BY <1>2, <1>3, <1>5, <3>1, <3>2, <3>3, <3>4, <3>5, Turns
  <2>6. CASE Drafts!DraftState(d) # "delivered" /\ Drafts!Begins(d)
               /\ Drafts!Step(s, "recorded", sender[s].list) /\ Drafts!Follows
    <3>1. ~ Drafts!Refused(d, sender[s].confirmed)
      BY <1>7, <2>1, <2>6 DEF Drafts!ResendStops
    <3>2. /\ d \in DOMAIN drafts /\ Undecided(drafts[d]) /\ d \notin settled /\ d \in Drafts!Ids
          /\ sender[s].confirmed \/ (mayBeOut[d] = {} /\ \A p \in following : p[2] # d)
      BY <1>2, <2>3, <2>4, <2>6, <3>1, MaySend
    <3>3. PICK R : /\ sender' = [sender EXCEPT ![s] = R]
                   /\ R.phase = "recorded" /\ R.list = sender[s].list /\ R.via = sender[s].via
                   /\ R.claims = sender[s].claims /\ R.confirmed = sender[s].confirmed
                   /\ R \in SenderState
      BY <1>1, <2>2, <2>6, StepIs
    <3>4. Drafts!Writes(Drafts!Attempt(d)) /\ following' = following
      BY <2>6 DEF Drafts!Begins, Drafts!Follows
    <3>5. Shape' /\ call' # "opening"
      BY <1>1, <1>2, <3>2, <3>4, WritesShape, KindsAre
    <3>6. d \in 1..issued
      BY <1>1, <1>2, <3>2, InMemory DEF Given
    <3>7. Sane(R)'
      BY <1>1, <1>5, <2>1, <2>2, <2>3, <3>3, <3>5, <3>6 DEF Sane
    <3>8. \A t \in Sender : t # s => R.claims \cap sender[t].claims = {}
      BY <1>4, <3>3
    <3>9. /\ R.confirmed \/ mayBeOut[d] = {}
          /\ R.via = "unsent-token" => mayBeOut[d] = {} /\ \A p \in following : p[2] # d
      BY <1>1, <3>2, <3>3 DEF Sane
    <3>10. Head(R.list) = d
      BY <2>1, <3>3
    <3>11. call = "none" /\ ~ Carrying(s)
      BY <1>2 DEF Carrying
    <3>12. /\ d \in DOMAIN drafts /\ Undecided(drafts[d]) /\ d \notin settled
           /\ Drafts!Writes(Drafts!Attempt(d)) /\ following' \subseteq following
      BY <3>2, <3>4
    <3>13. /\ sender' = [sender EXCEPT ![s] = R] /\ R.phase = "recorded"
           /\ R.confirmed \/ mayBeOut[d] = {}
           /\ R.via = "unsent-token" => mayBeOut[d] = {} /\ \A p \in following : p[2] # d
      BY <3>3, <3>9
    <3> QED  BY <1>3, <1>5, <2>4, <3>7, <3>8, <3>10, <3>11, <3>12, <3>13, BeginsKeeps
  <2>7. CASE Drafts!DraftState(d) # "delivered" /\ Drafts!BeginFails(d) /\ Drafts!Ends(s)
    <3>1. PICK R : R = Drafts!Idle /\ sender' = [sender EXCEPT ![s] = R]
                 /\ following' \subseteq following
      BY <1>1, <2>7, EndsIs
    <3>2. R.phase = "idle" /\ R.claims = {} /\ Sane(R)'
      BY <3>1, IdleIs
    <3>3. d \in DOMAIN drafts /\ Drafts!Fails(Drafts!Attempt(d))
      BY <2>3, <2>7 DEF Drafts!Kept, Drafts!BeginFails
    <3> QED  BY <1>2, <1>3, <1>5, <2>4, <3>1, <3>2, <3>3, BeginFailsKeeps
  <2>8. \/ Drafts!DraftState(d) = "delivered"
        \/ Drafts!DraftState(d) # "delivered" /\ Drafts!Begins(d)
             /\ Drafts!Step(s, "recorded", sender[s].list) /\ Drafts!Follows
        \/ Drafts!DraftState(d) # "delivered" /\ Drafts!BeginFails(d) /\ Drafts!Ends(s)
    BY <1>7, <2>1 DEF Drafts!ResendNext
  <2> QED  BY <2>5, <2>6, <2>7, <2>8
<1>8. \/ Drafts!Ends(s) /\ UNCHANGED <<Drafts!journal, Drafts!projection, call>>
      \/ ~ (sender[s].list = <<>> \/ Drafts!ResendStops(s, Head(sender[s].list)))
  BY DEF Drafts!ResendNext
<1> QED  BY <1>6, <1>7, <1>8

LEMMA SendUnsentKeeps == ASSUME DraftsInv, NEW s \in Sender, Drafts!SendUnsent(s)
                         PROVE  DraftsInv'
<1>1. Shape /\ Given /\ SendersOK
  BY DEF DraftsInv
<1>2. PICK d : d = latestBounce
  OBVIOUS
<1>3. Drafts!Settled /\ sender[s].phase = "idle" /\ Drafts!MaySendUnsent(d)
        /\ UNCHANGED <<issued, Drafts!history>>
  BY <1>2 DEF Drafts!SendUnsent
<1>4. PICK phase \in {"recorded", "bouncing"} :
         /\ \/ phase = "recorded" /\ Drafts!Begins(d)
            \/ phase = "bouncing" /\ Drafts!BeginFails(d)
            \/ phase = "bouncing" /\ UNCHANGED <<Drafts!journal, Drafts!projection, call>>
         /\ sender' = [sender EXCEPT ![s] = [phase |-> phase, via |-> "unsent-token",
                         list |-> <<d>>, confirmed |-> FALSE,
                         claims |-> IF phase = "recorded" THEN {d} ELSE {}]]
  BY <1>2 DEF Drafts!SendUnsent
<1>5. call = "none" /\ ~ Carrying(s) /\ Others(s)
  BY <1>3, SettledAlone DEF Drafts!Settled, Carrying
<1>6. /\ UNCHANGED <<issued, mayBeOut, reported, settled>> /\ following' \subseteq following
      /\ issued' = issued
  BY <1>3 DEF Drafts!history
<1>7. \A t \in Sender : d \notin sender[t].claims
  BY <1>3 DEF Drafts!MaySendUnsent, Drafts!InFlight
<1>8. /\ d \in DOMAIN drafts /\ Undecided(drafts[d]) /\ d \notin settled /\ d \in Drafts!Ids
      /\ mayBeOut[d] = {} /\ \A p \in following : p[2] # d
  <2>1. Drafts!Kept(d) /\ Drafts!DraftState(d) # "delivered" /\ ~ Drafts!Refused(d, FALSE)
    BY <1>3 DEF Drafts!MaySendUnsent, Drafts!Open, Drafts!Refused
  <2>2. PICK c \in BOOLEAN : c = FALSE
    OBVIOUS
  <2>3. ~ Drafts!Refused(d, c) /\ ~ c
    BY <2>1, <2>2
  <2> QED  BY <1>5, <1>7, <2>1, <2>3, MaySend
<1>9. d \in 1..issued
  BY <1>1, <1>5, <1>8, InMemory DEF Given
<1>10. PICK R : R = [phase |-> phase, via |-> "unsent-token", list |-> <<d>>, confirmed |-> FALSE,
                     claims |-> IF phase = "recorded" THEN {d} ELSE {}]
  OBVIOUS
<1>11. /\ sender' = [sender EXCEPT ![s] = R] /\ R.phase = phase /\ Head(R.list) = d
       /\ R.claims \subseteq {d} /\ R.via = "unsent-token"
  BY <1>4, <1>10
<1>12. Sane(R)' \/ call' = "opening"
  <2>1. R \in SenderState /\ R.list # <<>> /\ ~ R.confirmed /\ R.phase # "next"
        /\ (phase = "recorded" => R.claims = {d}) /\ Drafts!ToSet(R.list) = {d}
    BY <1>8, <1>10 DEF SenderState, Drafts!ToSet
  <2>2. Head(R.list) \in 1..issued'
    BY <1>6, <1>9, <1>11
  <2>3. R.phase \in {"recorded", "sending"} => Head(R.list) \in R.claims
    BY <1>11, <2>1
  <2> QED  BY <1>11, <2>1, <2>2, <2>3 DEF Sane
<1>13. \A t \in Sender : t # s => R.claims \cap sender[t].claims = {}
         /\ d \notin sender[t].claims
  BY <1>7, <1>11
<1>14. CASE phase = "recorded"
  <2>1. Drafts!Writes(Drafts!Attempt(d))
    BY <1>4, <1>14 DEF Drafts!Begins
  <2>2. call' # "opening"
    BY <1>1, <1>5, <1>8, <2>1, WritesShape, KindsAre
  <2>3. Sane(R)' /\ R.phase = "recorded"
    BY <1>11, <1>12, <1>14, <2>2
  <2>4. R.via = "unsent-token" => mayBeOut[d] = {} /\ \A p \in following : p[2] # d
    BY <1>8
  <2>5. R.confirmed \/ mayBeOut[d] = {}
    BY <1>8
  <2> QED  BY <1>5, <1>6, <1>8, <1>11, <1>13, <2>1, <2>3, <2>4, <2>5, BeginsKeeps
<1>15. CASE phase = "bouncing" /\ Drafts!BeginFails(d)
  <2>1. Drafts!Fails(Drafts!Attempt(d))
    BY <1>15 DEF Drafts!BeginFails
  <2>2. call' # "opening"
    BY <1>1, <1>5, <1>8, <2>1, FailsShape, KindsAre
  <2>3. Sane(R)' /\ R.phase \in {"idle", "bouncing"}
    BY <1>11, <1>12, <1>15, <2>2
  <2>4. R.phase = "bouncing" => Head(R.list) = d /\ mayBeOut[d] = {}
          /\ \A p \in following : p[2] # d
    BY <1>8, <1>11
  <2> QED  BY <1>5, <1>6, <1>8, <1>11, <1>13, <2>1, <2>3, <2>4, BeginFailsKeeps
<1>16. CASE phase = "bouncing" /\ UNCHANGED <<Drafts!journal, Drafts!projection, call>>
  <2>1. Shape' /\ Views' = Views /\ call # "opening" /\ call' # "opening"
    BY <1>1, <1>5, <1>16, StillShape
  <2>2. R.phase = "bouncing" /\ Sane(R)'
    BY <1>11, <1>12, <1>16, <2>1
  <2> QED  BY <1>5, <1>6, <1>8, <1>11, <1>13, <2>1, <2>2, Turns
<1> QED  BY <1>4, <1>14, <1>15, <1>16

(* A draft whose last attempt has no outcome may be out.                    *)
LEMMA OpenIsMarked ==
    ASSUME NEW D \in Drafts!Draft, LastUnknown(D)
    PROVE  Len(D.attempts) \in Nat /\ Len(D.attempts) >= 1 /\ Marked(D, Len(D.attempts))
<1>1. D.attempts \in Seq(Drafts!Status) /\ D.attempts # <<>>
  BY DraftFields DEF LastUnknown
<1>2. Len(D.attempts) \in Nat /\ Len(D.attempts) >= 1
  BY <1>1
<1>3. Len(D.attempts) \in 1..Len(D.attempts)
  BY <1>2
<1> QED  BY <1>2, <1>3 DEF LastUnknown, Marked

LEMMA DoneElse ==
    ASSUME SendersOK, NEW s \in Sender, NEW R, sender' = [sender EXCEPT ![s] = R],
           R.phase \notin {"recorded", "sending"}, NEW x, Cur(s) # x
    PROVE  Carried(x)' = Carried(x) /\ Senders(x)' = Senders(x) /\ s \notin Senders(x)
<1>1. Carried(x)' = CarriedWith(s, R, x) /\ Senders(x)' = SendersWith(s, R, x)
  BY CarriedNow
<1>2. s \notin Senders(x) /\ Cur(s) # x
  BY DEF Senders
<1>3. {t \in {s} : R.phase = "sending" /\ Head(R.list) = x} = {}
  OBVIOUS
<1>4. Carried(x)' = Carried(x)
  BY <1>1, <1>2 DEF Carried, CarriedWith
<1> QED  BY <1>1, <1>2, <1>3, <1>4 DEF SendersWith

(* A sender is done with the draft it carried.                              *)
LEMMA Done ==
    ASSUME DraftsInv, Shape', call # "opening", call' # "opening",
           NEW e, Grows(e), e.op # "held", e.op = "checkpoint" => e.gone = {},
           NEW s \in Sender, Carrying(s),
           NEW R, sender' = [sender EXCEPT ![s] = R], Sane(R)', Others(s),
           \A t \in Sender : t # s => R.claims \cap sender[t].claims = {},
           R.phase \in {"idle", "next", "bouncing"}, R.phase = "bouncing" => Bounced(s)',
           NEW d, d = Cur(s), \A x : x # d => ~ Touches(e, x),
           UNCHANGED <<issued, reported>>, settled' \subseteq settled \cup {d}, following'
             \subseteq following,
           mayBeOut' \in [Drafts!Ids -> SUBSET (Sender \cup {Drafts!Earlier})],
           \A x \in Drafts!Ids : s \notin mayBeOut[x] => mayBeOut'[x] = mayBeOut[x],
           \A P \in Views' : d \in DOMAIN P.drafts => RiskAt(P.drafts[d], d)'
    PROVE  DraftsInv'
<1>1. Shape /\ Given /\ Risks /\ SendersOK /\ Sane(sender[s])
  BY DEF DraftsInv, SendersOK
<1>2. d \in sender[s].claims /\ d \in 1..issued
  BY <1>1 DEF Sane, Carrying, Cur
<1>3. issued <= issued' /\ issued' \in Nat
  BY <1>1 DEF Given
<1>4. \A x \in Drafts!Ids : x > issued => mayBeOut'[x] = {}
  BY <1>1 DEF Given
<1>5. Given'
  <2>1. settled' \subseteq 1..issued /\ following' \subseteq Drafts!Ids \X (1..issued)
    BY <1>1, <1>2 DEF Given
  <2>2. reported' \subseteq reported /\ issued' = issued
          /\ (e.op = "checkpoint" => reported' \cap e.gone = {})
    OBVIOUS
  <2> QED  BY <1>1, <1>4, <2>1, <2>2, GivenKeeps
<1>6. SendersOK' /\ Frozen' /\ Bouncing'
  <2>1. ASSUME NEW t \in Sender, t # s, sender[t].phase = "sending"
        PROVE  /\ ~ Touches(e, Cur(t)) /\ Cur(t) \notin settled'
               /\ sender[t].via = "unsent-token" =>
                     mayBeOut'[Cur(t)] \subseteq {t} /\ \A p \in following' : p[2] # Cur(t)
    <3>1. SentOnce(t) /\ Carrying(t) /\ Cur(t) \in 1..issued
      BY <1>1, <2>1 DEF DraftsInv, Frozen, Carrying, SendersOK, Sane, Cur
    <3>2. Cur(t) # d
      BY <1>1, <1>2, <2>1, <3>1, ClaimedByOne
    <3>3. Cur(t) \in Drafts!Ids
      BY <1>1, <3>1, InMemory DEF SentOnce
    <3>4. sender[t].via = "unsent-token" => mayBeOut[Cur(t)] \subseteq {t}
            /\ \A p \in following : p[2] # Cur(t)
      BY <3>1 DEF SentOnce
    <3>5. sender[t].via = "unsent-token" => mayBeOut'[Cur(t)] \subseteq {t}
      BY <2>1, <3>3, <3>4
    <3> QED  BY <3>1, <3>2, <3>4, <3>5 DEF SentOnce
  <2>2. R.phase \notin {"recorded", "sending"}
    OBVIOUS
  <2>3. \A t \in Sender : t # s /\ sender[t].phase = "sending" =>
           /\ ~ Touches(e, Cur(t)) /\ Cur(t) \notin settled'
           /\ sender[t].via = "unsent-token" =>
                 mayBeOut'[Cur(t)] \subseteq {t} /\ \A p \in following' : p[2] # Cur(t)
    BY <2>1
  <2> QED  BY <1>3, <2>2, <2>3, Moves
<1>7. Risks'
  <2>1. SUFFICES ASSUME NEW P \in Views', NEW x \in DOMAIN P.drafts, x # d
                 PROVE  RiskAt(P.drafts[x], x)'
    BY DEF Risks
  <2>2. PICK Q \in Views : x \in DOMAIN Q.drafts /\ Q.drafts[x] = P.drafts[x]
    BY <1>1, <2>1, SeenBefore
  <2>3. PICK D \in Drafts!Draft : D = P.drafts[x] /\ RiskAt(D, x) /\ x \in Drafts!Ids
    BY <1>1, <2>2 DEF Shape, IsProjection, Risks
  <2>4. Carried(x)' = Carried(x) /\ Senders(x)' = Senders(x) /\ s \notin Senders(x)
    <3>1. R.phase \notin {"recorded", "sending"} /\ Cur(s) # x
      BY <2>1
    <3> QED  BY <1>1, <3>1, DoneElse
  <2>5. x \in settled' => x \in settled
    BY <2>1
  <2>6. mayBeOut'[x] \ Senders(x)' # {} => mayBeOut[x] \ Senders(x) # {}
    BY <2>3, <2>4
  <2>7. RiskAt(D, x)'
    BY <2>3, <2>4, <2>5, <2>6, RiskCalm
  <2> QED  BY <2>3, <2>7
<1> QED  BY <1>5, <1>6, <1>7 DEF DraftsInv

LEMMA BouncesIs ==
    ASSUME SendersOK,
           NEW s \in Sender, sender' = [sender EXCEPT ![s].phase = "bouncing", ![s].claims = {}]
    PROVE  \E R : /\ sender' = [sender EXCEPT ![s] = R]
                  /\ R.phase = "bouncing" /\ R.list = sender[s].list /\ R.via = sender[s].via
                  /\ R.claims = {} /\ R.confirmed = sender[s].confirmed
                  /\ R \in SenderState
<1> DEFINE R == [sender[s] EXCEPT !.phase = "bouncing", !.claims = {}]
<1>1. sender[s] \in SenderState /\ DOMAIN sender = Sender
  BY DEF SendersOK, Sane
<1>2. sender' = [sender EXCEPT ![s] = R]
  BY <1>1
<1>3. /\ R.phase = "bouncing" /\ R.list = sender[s].list /\ R.via = sender[s].via
      /\ R.claims = {} /\ R.confirmed = sender[s].confirmed /\ R \in SenderState
  BY <1>1 DEF SenderState
<1> QED  BY <1>2, <1>3

(* The draft one sender carries is carried by no other.                     *)
LEMMA NotCarriedNow ==
    ASSUME SendersOK, NEW s \in Sender, NEW d, d \in sender[s].claims, NEW R,
           sender' = [sender EXCEPT ![s] = R], R.phase \notin {"recorded", "sending"}
    PROVE  ~ Carried(d)' /\ Senders(d)' = {}
<1>1. \A t \in Sender : t # s => ~ (Carrying(t) /\ Cur(t) = d) /\ t \notin Senders(d)
  BY ClaimedByOne
<1>2. Carried(d)' = CarriedWith(s, R, d) /\ Senders(d)' = SendersWith(s, R, d)
  BY CarriedNow
<1>3. {t \in {s} : R.phase = "sending" /\ Head(R.list) = d} = {} /\ Senders(d) \subseteq Sender
  BY DEF Senders
<1> QED  BY <1>1, <1>2, <1>3 DEF CarriedWith, SendersWith

(* What is known of the draft a sender carries.                             *)
LEMMA CarriedIs ==
    ASSUME DraftsInv, call # "opening", NEW s \in Sender, Carrying(s), NEW d, d = Cur(s)
    PROVE  /\ d \in DOMAIN drafts /\ d \in Drafts!Ids /\ drafts[d] \in Drafts!Draft
                /\ d \in sender[s].claims /\ d \in 1..issued
           /\ SeenAlike(d) /\ SentOnce(s) /\ LastUnknown(drafts[d]) /\ Undecided(drafts[d])
                /\ d \notin settled
           /\ Marked(drafts[d], Len(drafts[d].attempts)) /\ RiskAt(drafts[d], d)
<1>1. Shape /\ Risks /\ Sane(sender[s]) /\ SeenAlike(d) /\ SentOnce(s)
  BY DEF DraftsInv, SendersOK, Frozen
<1>2. d \in DOMAIN drafts /\ LastUnknown(drafts[d]) /\ Undecided(drafts[d]) /\ d \notin settled
  BY <1>1 DEF SentOnce
<1>3. d \in Drafts!Ids /\ drafts[d] \in Drafts!Draft /\ Drafts!Projection \in Views
        /\ Drafts!Projection.drafts = drafts
  BY <1>1, <1>2, InMemory
<1>4. RiskAt(drafts[d], d)
  BY <1>1, <1>2, <1>3 DEF Risks
<1>5. Marked(drafts[d], Len(drafts[d].attempts))
  BY <1>2, <1>3, OpenIsMarked
<1>6. d \in sender[s].claims /\ d \in 1..issued
  BY <1>1 DEF Sane, Carrying, Cur
<1> QED  BY <1>1, <1>2, <1>3, <1>4, <1>5, <1>6

(* It is done with it and nothing is written.                               *)
LEMMA Drops ==
    ASSUME DraftsInv, call # "opening", UNCHANGED <<Drafts!journal, Drafts!projection, call>>,
           NEW s \in Sender, Carrying(s),
           NEW R, sender' = [sender EXCEPT ![s] = R], Sane(R)', Others(s),
           \A t \in Sender : t # s => R.claims \cap sender[t].claims = {},
           R.phase \in {"idle", "bouncing"},
           R.phase = "bouncing" => Head(R.list) = Cur(s) /\ sender[s].via = "unsent-token",
           UNCHANGED <<issued, reported, settled>>, following' \subseteq following,
           mayBeOut' \in [Drafts!Ids -> SUBSET (Sender \cup {Drafts!Earlier})],
           \A x \in Drafts!Ids : s \notin mayBeOut[x] => mayBeOut'[x] = mayBeOut[x]
    PROVE  DraftsInv'
<1>1. Shape /\ SendersOK
  BY DEF DraftsInv
<1>2. Shape' /\ Views' = Views /\ call' # "opening"
  BY <1>1, StillShape
<1>3. PICK e : e = Drafts!Checkpoint({})
  OBVIOUS
<1>4. Grows(e) /\ e.op = "checkpoint" /\ e.gone = {} /\ \A d : ~ Touches(e, d)
  BY <1>2, <1>3, GrowsNot, NoneGone DEF Drafts!Checkpoint
<1>5. PICK d : d = Cur(s)
  OBVIOUS
<1>6. PICK D : D = drafts[d]
  OBVIOUS
<1>7. /\ SeenAlike(d) /\ SentOnce(s) /\ Undecided(D) /\ d \notin settled
           /\ d \in sender[s].claims
      /\ Marked(D, Len(D.attempts)) /\ RiskAt(D, d)
  BY <1>5, <1>6, CarriedIs
<1>8. \A P \in Views' : d \in DOMAIN P.drafts => P.drafts[d] = D
  BY <1>2, <1>6, <1>7 DEF SeenAlike
<1>9. ~ Carried(d)'
  <2>1. R.phase \notin {"recorded", "sending"}
    OBVIOUS
  <2> QED  BY <1>1, <1>7, <2>1, NotCarriedNow
<1>10. RiskAt(D, d)'
  <2>1. Before(D, d)' = Len(D.attempts)
    BY <1>9 DEF Before
  <2>2. (\E p \in following' : p[2] = d) => D.risk
    BY <1>7 DEF RiskAt
  <2> QED  BY <1>7, <2>1, <2>2 DEF RiskAt
<1>11. ASSUME R.phase = "bouncing" PROVE Bounced(s)'
  <2>1. Cur(s)' = d
    BY <1>1, <1>5, <1>11 DEF Cur, SendersOK
  <2>2. \A p \in following : p[2] # d
    BY <1>5, <1>7, <1>11 DEF SentOnce
  <2>3. \A P \in Views' : d \in DOMAIN P.drafts =>
            Undecided(P.drafts[d]) /\ Marked(P.drafts[d], Len(P.drafts[d].attempts))
    BY <1>7, <1>8
  <2> QED  BY <2>1, <2>2, <2>3 DEF Bounced
<1>12. UNCHANGED <<issued, reported>> /\ settled' \subseteq settled \cup {d}
  OBVIOUS
<1>13. \A P \in Views' : d \in DOMAIN P.drafts => RiskAt(P.drafts[d], d)'
  <2>1. SUFFICES ASSUME NEW P \in Views', d \in DOMAIN P.drafts PROVE RiskAt(P.drafts[d], d)'
    OBVIOUS
  <2>2. P.drafts[d] = D
    BY <1>8, <2>1
  <2> QED  BY <1>10, <2>2
<1>14. R.phase \in {"idle", "next", "bouncing"}
  OBVIOUS
<1>15. e.op # "held"
  BY <1>4
<1> QED  BY <1>2, <1>4, <1>5, <1>11, <1>12, <1>13, <1>14, <1>15, Done

(* The request leaves.                                                      *)
LEMMA Departs ==
    ASSUME DraftsInv, call # "opening", UNCHANGED <<Drafts!journal, Drafts!projection, call>>,
           NEW s \in Sender, sender[s].phase = "recorded", NEW d, d = Cur(s),
           Drafts!Step(s, "sending", sender[s].list),
           mayBeOut' = [x \in Drafts!Ids |-> IF x = d \/ <<d, x>> \in following
                                      THEN mayBeOut[x] \cup {s} ELSE mayBeOut[x]],
           UNCHANGED <<issued, reported, settled, following>>
    PROVE  DraftsInv'
<1>1. Shape /\ Given /\ Risks /\ SendersOK /\ Sane(sender[s]) /\ Carrying(s)
  BY DEF DraftsInv, SendersOK, Carrying
<1>2. Shape' /\ Views' = Views /\ call' # "opening" /\ drafts' = drafts
  BY <1>1, StillShape DEF Drafts!projection
<1>3. PICK e : e = Drafts!Checkpoint({})
  OBVIOUS
<1>4. Grows(e) /\ e.op = "checkpoint" /\ e.gone = {} /\ \A x : ~ Touches(e, x)
  BY <1>2, <1>3, GrowsNot, NoneGone DEF Drafts!Checkpoint
<1>5. /\ d \in Drafts!Ids /\ d \in sender[s].claims /\ d \in 1..issued
      /\ SeenAlike(d) /\ SentOnce(s) /\ LastUnknown(drafts[d]) /\ Undecided(drafts[d])
           /\ d \notin settled
      /\ d \in DOMAIN drafts
  BY <1>1, CarriedIs
<1>6. sender[s].list \in Seq(Drafts!Ids) /\ Head(sender[s].list) = d
  BY <1>1 DEF Sane, SenderState, Cur
<1>7. PICK R : /\ sender' = [sender EXCEPT ![s] = R]
               /\ R.phase = "sending" /\ R.list = sender[s].list /\ R.via = sender[s].via
               /\ R.claims = sender[s].claims /\ R.confirmed = sender[s].confirmed
               /\ R \in SenderState
  BY <1>1, <1>6, StepIs
<1>8. Sane(R)'
  <2>1. issued' = issued
    OBVIOUS
  <2> QED  BY <1>1, <1>2, <1>7, <2>1 DEF Sane
<1>9. Others(s)
  BY <1>1, BusyAlone DEF BusyPhases
<1>10. \A t \in Sender : t # s => R.claims \cap sender[t].claims = {}
  BY <1>1, <1>7 DEF SendersOK, Apart
<1>11. mayBeOut \in [Drafts!Ids -> SUBSET (Sender \cup {Drafts!Earlier})]
  BY <1>1 DEF Given
<1>12. /\ mayBeOut' \in [Drafts!Ids -> SUBSET (Sender \cup {Drafts!Earlier})]
       /\ mayBeOut'[d] = mayBeOut[d] \cup {s}
       /\ \A x \in Drafts!Ids : x # d /\ <<d, x>> \notin following => mayBeOut'[x] = mayBeOut[x]
  BY <1>5, <1>11
<1>13. \A x \in Drafts!Ids : <<d, x>> \in following => x \in 1..issued
         /\ \E p \in following : p[2] = x
  BY <1>1 DEF Given
<1>14. Given'
  <2>1. \A x \in Drafts!Ids : x > issued => mayBeOut'[x] = {}
    <3>1. SUFFICES ASSUME NEW x \in Drafts!Ids, x > issued PROVE mayBeOut'[x] = {}
      OBVIOUS
    <3>2. x \notin 1..issued
      BY <1>1, <3>1 DEF Given, Drafts!Ids
    <3> QED  BY <1>1, <1>5, <1>12, <1>13, <3>1, <3>2 DEF Given
  <2>2. settled' \subseteq 1..issued /\ following' \subseteq Drafts!Ids \X (1..issued)
    BY <1>1 DEF Given
  <2>3. reported' \subseteq reported /\ issued' = issued
          /\ (e.op = "checkpoint" => reported' \cap e.gone = {})
    BY <1>4
  <2>4. e.op # "held"
    BY <1>4
  <2> QED  BY <1>1, <1>4, <1>12, <2>1, <2>2, <2>3, <2>4, GivenKeeps
<1>15. SendersOK' /\ Frozen' /\ Bouncing'
  <2>1. ASSUME NEW t \in Sender, t # s, sender[t].phase = "sending"
        PROVE  /\ ~ Touches(e, Cur(t)) /\ Cur(t) \notin settled'
               /\ sender[t].via = "unsent-token" =>
                     mayBeOut'[Cur(t)] \subseteq {t} /\ \A p \in following' : p[2] # Cur(t)
    <3>1. Carrying(t)
      BY <2>1 DEF Carrying
    <3>2. PICK x : x = Cur(t)
      OBVIOUS
    <3>3. x \in Drafts!Ids /\ SentOnce(t) /\ x \notin settled
      BY <3>1, <3>2, CarriedIs
    <3>4. x # d
      BY <1>1, <1>5, <2>1, <3>1, <3>2, ClaimedByOne
    <3>5. sender[t].via = "unsent-token" => mayBeOut[x] \subseteq {t}
            /\ \A p \in following : p[2] # x
      BY <3>2, <3>3 DEF SentOnce
    <3>6. sender[t].via = "unsent-token" => mayBeOut'[x] \subseteq {t}
      BY <1>12, <1>13, <3>3, <3>4, <3>5
    <3> QED  BY <1>4, <3>2, <3>3, <3>5, <3>6
  <2>2. sender'[s] = R /\ Cur(s)' = d
    BY <1>1, <1>6, <1>7 DEF SendersOK, Cur
  <2>3. SeenAlike(Cur(s))'
    BY <1>2, <1>5, <2>2 DEF SeenAlike
  <2>4. SentOnce(s)'
    <3>1. sender[s].via = "unsent-token" => mayBeOut'[d] \subseteq {s}
            /\ \A p \in following' : p[2] # d
      BY <1>5, <1>12 DEF SentOnce
    <3> QED  BY <1>2, <1>5, <1>7, <2>2, <3>1 DEF SentOnce
  <2>5. R.phase # "bouncing" /\ issued <= issued' /\ issued' \in Nat
    BY <1>1, <1>7 DEF Given
  <2>6. \A t \in Sender : t # s /\ sender[t].phase = "sending" =>
           /\ ~ Touches(e, Cur(t)) /\ Cur(t) \notin settled'
           /\ sender[t].via = "unsent-token" =>
                 mayBeOut'[Cur(t)] \subseteq {t} /\ \A p \in following' : p[2] # Cur(t)
    BY <2>1
  <2> QED  BY <1>2, <1>4, <1>7, <1>8, <1>9, <1>10, <2>3, <2>4, <2>5, <2>6, Moves
<1>16. Risks'
  <2>1. ASSUME NEW x \in Drafts!Ids, NEW D \in Drafts!Draft, RiskAt(D, x) PROVE RiskAt(D, x)'
    <3>1. Carried(x)' = CarriedWith(s, R, x) /\ Senders(x)' = SendersWith(s, R, x)
      BY <1>1, <1>7, CarriedNow
    <3>2. s \notin Senders(x) /\ Head(R.list) = d
      BY <1>6, <1>7 DEF Senders
    <3>3. Carried(x)' = Carried(x)
      BY <1>1, <1>7, <3>1, <3>2 DEF Carried, CarriedWith
    <3>4. Before(D, x)' = Before(D, x)
      BY <3>3 DEF Before
    <3>5. D.risk => Marked(D, Before(D, x))
      BY DEF Marked
    <3>6. CASE x # d /\ <<d, x>> \in following
      BY <1>13, <2>1, <3>4, <3>5, <3>6 DEF RiskAt
    <3>7. CASE x # d /\ <<d, x>> \notin following
      BY <1>12, <2>1, <3>1, <3>2, <3>4, <3>7 DEF RiskAt, SendersWith
    <3>8. CASE x = d
      <4>1. Senders(x)' = Senders(x) \cup {s}
        <5>1. {t \in {s} : R.phase = "sending" /\ Head(R.list) = x} = {s}
          BY <1>7, <3>2, <3>8
        <5> QED  BY <3>1, <3>2, <5>1 DEF SendersWith
      <4>2. mayBeOut'[x] \ Senders(x)' # {} => mayBeOut[x] \ Senders(x) # {}
        BY <1>12, <3>8, <4>1
      <4> QED  BY <2>1, <3>4, <4>2 DEF RiskAt
    <3> QED  BY <3>6, <3>7, <3>8
  <2> QED  BY <1>1, <1>4, <2>1, RisksKeep
<1> QED  BY <1>2, <1>14, <1>15, <1>16 DEF DraftsInv

LEMMA SendLeavesKeeps == ASSUME DraftsInv, NEW s \in Sender, Drafts!SendLeaves(s)
                         PROVE  DraftsInv'
<1>1. SendersOK /\ Sane(sender[s])
  BY DEF DraftsInv, SendersOK
<1>2. call = "none" /\ call # "opening" /\ sender[s].phase = "recorded" /\ Carrying(s)
  BY DEF Drafts!SendLeaves, Carrying
<1>3. /\ UNCHANGED <<Drafts!journal, Drafts!projection, call>>
           /\ UNCHANGED <<issued, reported, settled>>
      /\ issued' = issued /\ call' = call
  BY DEF Drafts!SendLeaves
<1>4. Others(s)
  BY <1>1, <1>2, BusyAlone DEF BusyPhases
<1>5. CASE doubt = "reconcile" /\ Drafts!Ends(s) /\ UNCHANGED mayBeOut
  <2>1. PICK R : R = Drafts!Idle /\ sender' = [sender EXCEPT ![s] = R]
               /\ following' \subseteq following
    BY <1>1, <1>5, EndsIs
  <2>2. R.phase = "idle" /\ R.claims = {} /\ Sane(R)'
    BY <2>1, IdleIs
  <2>3. mayBeOut' \in [Drafts!Ids -> SUBSET (Sender \cup {Drafts!Earlier})]
    BY <1>5 DEF DraftsInv, Given
  <2> QED  BY <1>2, <1>3, <1>4, <1>5, <2>1, <2>2, <2>3, Drops
<1>6. CASE /\ doubt = "reconcile" /\ sender[s].via # "resend" /\ Drafts!Follows
                /\ UNCHANGED mayBeOut
           /\ sender' = [sender EXCEPT ![s].phase = "bouncing", ![s].claims = {}]
  <2>1. PICK R : /\ sender' = [sender EXCEPT ![s] = R]
                 /\ R.phase = "bouncing" /\ R.list = sender[s].list /\ R.via = sender[s].via
                 /\ R.claims = {} /\ R.confirmed = sender[s].confirmed
                 /\ R \in SenderState
    BY <1>1, <1>6, BouncesIs
  <2>2. sender[s].via = "unsent-token" /\ following' \subseteq following
    BY <1>1, <1>6 DEF Sane, SenderState, Drafts!Follows
  <2>3. Sane(R)'
    BY <1>1, <1>2, <1>3, <2>1, <2>2 DEF Sane
  <2>4. mayBeOut' \in [Drafts!Ids -> SUBSET (Sender \cup {Drafts!Earlier})]
    BY <1>6 DEF DraftsInv, Given
  <2>5. Head(R.list) = Cur(s)
    BY <2>1 DEF Cur
  <2> QED  BY <1>2, <1>3, <1>4, <1>6, <2>1, <2>2, <2>3, <2>4, <2>5, Drops
<1>7. CASE doubt # "reconcile"
  <2>1. PICK d : d = Cur(s)
    OBVIOUS
  <2>2. /\ Drafts!Step(s, "sending", sender[s].list) /\ following' = following
        /\ mayBeOut' = [x \in Drafts!Ids |-> IF x = d \/ <<d, x>> \in following
                                      THEN mayBeOut[x] \cup {s} ELSE mayBeOut[x]]
    BY <1>7, <2>1 DEF Drafts!SendLeaves, Drafts!Follows, Cur
  <2> QED  BY <1>2, <1>3, <2>1, <2>2, Departs
<1>8. \/ doubt # "reconcile"
      \/ doubt = "reconcile" /\ Drafts!Ends(s) /\ UNCHANGED mayBeOut
      \/ /\ doubt = "reconcile" /\ sender[s].via # "resend" /\ Drafts!Follows
              /\ UNCHANGED mayBeOut
         /\ sender' = [sender EXCEPT ![s].phase = "bouncing", ![s].claims = {}]
  BY DEF Drafts!SendLeaves
<1> QED  BY <1>5, <1>6, <1>7, <1>8

LEMMA AnsweredIs ==
    ASSUME Given, NEW s \in Sender, NEW status, Drafts!Answered(s, status)
    PROVE  /\ mayBeOut' \in [Drafts!Ids -> SUBSET (Sender \cup {Drafts!Earlier})]
           /\ \A x \in Drafts!Ids : s \notin mayBeOut[x] => mayBeOut'[x] = mayBeOut[x]
           /\ status = "failed"
                => \A x \in Drafts!Ids : mayBeOut'[x] \subseteq mayBeOut[x] \ {s}
BY DEF Given, Drafts!Answered

(* What a sender does once its request is answered.                         *)
LEMMA AfterIs ==
    ASSUME SendersOK, NEW s \in Sender, sender[s].phase = "sending", NEW status,
           Drafts!AfterAnswer(s, status), issued' = issued, call' # "opening"
    PROVE  \E R : /\ sender' = [sender EXCEPT ![s] = R] /\ Sane(R)'
                  /\ R.phase \in {"idle", "next", "bouncing"}
                       /\ R.claims \subseteq sender[s].claims
                  /\ following' \subseteq following
                  /\ R.phase = "next" => status = "delivered"
                  /\ R.phase = "bouncing" =>
                       status = "failed" /\ Head(R.list) = Cur(s)
                         /\ sender[s].via = "unsent-token"
<1>1. /\ Sane(sender[s]) /\ sender[s] \in SenderState /\ sender[s].list \in Seq(Drafts!Ids)
           /\ sender[s].list # <<>>
      /\ Drafts!ToSet(sender[s].list) \subseteq sender[s].claims
  BY DEF SendersOK, Sane, SenderState
<1>2. CASE Drafts!Ends(s)
  <2>1. PICK R : R = Drafts!Idle /\ sender' = [sender EXCEPT ![s] = R]
               /\ following' \subseteq following
    BY <1>2, EndsIs
  <2>2. R.phase = "idle" /\ R.claims = {} /\ Sane(R)'
    BY <2>1, IdleIs
  <2> QED  BY <2>1, <2>2
<1>3. CASE status = "delivered" /\ Drafts!Step(s, "next", Tail(sender[s].list))
             /\ Drafts!Follows
  <2>1. Tail(sender[s].list) \in Seq(Drafts!Ids)
          /\ Drafts!ToSet(Tail(sender[s].list)) \subseteq sender[s].claims
    BY <1>1, ListIs
  <2>4. PICK list : list = Tail(sender[s].list)
    OBVIOUS
  <2>5. Drafts!Step(s, "next", list) /\ list \in Seq(Drafts!Ids)
    BY <1>3, <2>1, <2>4
  <2>2. PICK R : /\ sender' = [sender EXCEPT ![s] = R]
                 /\ R.phase = "next" /\ R.list = Tail(sender[s].list) /\ R.via = sender[s].via
                 /\ R.claims = sender[s].claims /\ R.confirmed = sender[s].confirmed
                 /\ R \in SenderState
    <3>1. \E R : /\ sender' = [sender EXCEPT ![s] = R]
                 /\ R.phase = "next" /\ R.list = list /\ R.via = sender[s].via
                 /\ R.claims = sender[s].claims /\ R.confirmed = sender[s].confirmed
                 /\ "next" \in {"idle", "next", "recorded", "sending", "bouncing"} /\ list \in Seq(Drafts!Ids) =>
                        R \in SenderState
      BY <2>5, StepIs
    <3> QED  BY <2>4, <2>5, <3>1
  <2>3. Sane(R)'
    BY <1>1, <2>1, <2>2 DEF Sane
  <2> QED  BY <1>3, <2>2, <2>3 DEF Drafts!Follows
<1>4. CASE /\ status = "failed" /\ sender[s].via # "resend"
           /\ sender' = [sender EXCEPT ![s].phase = "bouncing", ![s].claims = {}]
           /\ following' = {p \in following : p[1] \notin sender[s].claims}
  <2>1. PICK R : /\ sender' = [sender EXCEPT ![s] = R]
                 /\ R.phase = "bouncing" /\ R.list = sender[s].list /\ R.via = sender[s].via
                 /\ R.claims = {} /\ R.confirmed = sender[s].confirmed
                 /\ R \in SenderState
    BY <1>4, BouncesIs
  <2>2. sender[s].via = "unsent-token"
    BY <1>1, <1>4 DEF SenderState
  <2>3. Sane(R)'
    BY <1>1, <2>1, <2>2 DEF Sane
  <2> QED  BY <1>4, <2>1, <2>2, <2>3 DEF Cur
<1> QED  BY <1>2, <1>3, <1>4 DEF Drafts!AfterAnswer

LEMMA SendThrowsKeeps == ASSUME DraftsInv, NEW s \in Sender, Drafts!SendThrows(s)
                         PROVE  DraftsInv'
<1>1. SendersOK /\ Given
  BY DEF DraftsInv
<1>2. Drafts!Settled /\ sender[s].phase = "sending" /\ Carrying(s) /\ call # "opening"
        /\ Others(s)
  BY SettledAlone DEF Drafts!SendThrows, Carrying, Drafts!Settled
<1>3. /\ UNCHANGED <<Drafts!journal, Drafts!projection, call>>
           /\ UNCHANGED <<issued, reported, settled>>
      /\ issued' = issued /\ call' = call /\ Drafts!Answered(s, "unknown")
  BY DEF Drafts!SendThrows
<1>4. /\ mayBeOut' \in [Drafts!Ids -> SUBSET (Sender \cup {Drafts!Earlier})]
      /\ \A x \in Drafts!Ids : s \notin mayBeOut[x] => mayBeOut'[x] = mayBeOut[x]
  BY <1>1, <1>3, AnsweredIs
<1>5. PICK status \in {"failed", "unknown"} : Drafts!AfterAnswer(s, status)
  BY DEF Drafts!SendThrows, Drafts!AfterAnswer
<1>6. PICK R : /\ sender' = [sender EXCEPT ![s] = R] /\ Sane(R)'
               /\ R.phase \in {"idle", "next", "bouncing"}
                    /\ R.claims \subseteq sender[s].claims
               /\ following' \subseteq following
               /\ R.phase = "next" => status = "delivered"
               /\ R.phase = "bouncing" =>
                    status = "failed" /\ Head(R.list) = Cur(s) /\ sender[s].via = "unsent-token"
  BY <1>1, <1>2, <1>3, <1>5, AfterIs
<1>7. \A t \in Sender : t # s => R.claims \cap sender[t].claims = {}
  BY <1>1, <1>6 DEF SendersOK, Apart
<1>8. R.phase \in {"idle", "bouncing"}
  BY <1>5, <1>6
<1> QED  BY <1>2, <1>3, <1>4, <1>6, <1>7, <1>8, Drops

(* A draft whose last attempt has its outcome.                              *)
LEMMA AnsweredDraft ==
    ASSUME NEW D \in Drafts!Draft, LastUnknown(D), Undecided(D), NEW E,
           NEW status \in Drafts!Status, E.risk = D.risk,
           E.attempts = Answers(D.attempts, Len(D.attempts), status)
    PROVE  /\ Len(E.attempts) = Len(D.attempts)
           /\ status # "failed" => Marked(E, Len(E.attempts))
           /\ Marked(D, Len(D.attempts) - 1) => Marked(E, Len(E.attempts))
           /\ status = "delivered" => \E i \in 1..Len(E.attempts) : E.attempts[i] = "delivered"
<1> DEFINE a == D.attempts
           b == E.attempts
<1>1. a \in Seq(Drafts!Status) /\ Len(a) \in Nat /\ Len(a) >= 1
  BY DraftFields, OpenIsMarked
<1>2. Len(b) = Len(a) /\ b = [a EXCEPT ![Len(a)] = status]
  BY <1>1, ChangedStatus DEF Answers
<1>3. DOMAIN a = 1..Len(a)
  BY <1>1
<1>4. b[Len(a)] = status /\ \A i \in 1..(Len(a) - 1) : i \in 1..Len(a) /\ b[i] = a[i]
  BY <1>1, <1>2, <1>3
<1>5. Len(a) \in 1..Len(a)
  BY <1>1
<1> HIDE DEF a, b
<1>6. status # "failed" => Marked(E, Len(b))
  BY <1>2, <1>4, <1>5 DEF Marked, b
<1>7. Marked(D, Len(a) - 1) => Marked(E, Len(b))
  BY <1>2, <1>4 DEF Marked, a, b
<1>8. status = "delivered" => \E i \in 1..Len(b) : b[i] = "delivered"
  BY <1>2, <1>4, <1>5
<1> QED  BY <1>2, <1>6, <1>7, <1>8 DEF a, b

LEMMA SendAnsweredKeeps ==
    ASSUME DraftsInv, NEW s \in Sender,
           NEW status \in Drafts!Status, Drafts!SendAnswered(s, status)
    PROVE  DraftsInv'
<1>1. Shape /\ SendersOK /\ Given
  BY DEF DraftsInv
<1>2. Drafts!Settled /\ call = "none" /\ sender[s].phase = "sending" /\ Carrying(s)
        /\ call # "opening" /\ Others(s)
  BY SettledAlone DEF Drafts!SendAnswered, Carrying, Drafts!Settled
<1>3. PICK d : d = Cur(s)
  OBVIOUS
<1>4. PICK D : D = drafts[d]
  OBVIOUS
<1>5. /\ d \in DOMAIN drafts /\ d \in Drafts!Ids /\ D \in Drafts!Draft /\ d \in sender[s].claims
      /\ SeenAlike(d) /\ SentOnce(s) /\ LastUnknown(D) /\ Undecided(D) /\ d \notin settled
      /\ Marked(D, Len(D.attempts)) /\ RiskAt(D, d)
  BY <1>2, <1>3, <1>4, CarriedIs
<1>6. PICK n \in Nat : n = Len(D.attempts)
  BY <1>5, OpenIsMarked
<1>7. PICK e : e = Drafts!Outcome(d, n, status)
  OBVIOUS
<1>8. e \in Kinds /\ e.op = "outcome" /\ e.id = d /\ \A x : x # d => ~ Touches(e, x)
  BY <1>5, <1>7, KindsAre DEF Drafts!Outcome, Touches
<1>9. /\ Drafts!Answered(s, status) /\ Drafts!AfterAnswer(s, status)
           /\ UNCHANGED <<issued, reported>> /\ issued' = issued
      /\ \/ Drafts!Writes(e)
              /\ settled' = IF status = "delivered" THEN settled \cup {d} ELSE settled
         \/ Drafts!Fails(e) /\ settled' = settled
  BY <1>3, <1>4, <1>6, <1>7 DEF Drafts!SendAnswered, Cur
<1>10. PICK Q : Q = Drafts!Reduce(Drafts!Projection, e)
  OBVIOUS
<1>11. /\ Drafts!Projection \in Views /\ Drafts!Projection.drafts = drafts
            /\ IsProjection(Drafts!Projection)
  BY <1>1, <1>2, InMemory
<1>12. /\ Q.drafts[d].risk = D.risk
       /\ Q.drafts[d].attempts = Answers(D.attempts, n, status)
  BY <1>4, <1>5, <1>7, <1>10, <1>11, ReduceOutcome
<1>13. /\ Shape' /\ call' # "opening"
       /\ \/ Views' = {Q}
               /\ settled' = IF status = "delivered" THEN settled \cup {d} ELSE settled
          \/ Views' \subseteq Views \cup {Q} /\ settled' = settled
  <2>1. CASE Drafts!Writes(e)
               /\ settled' = IF status = "delivered" THEN settled \cup {d} ELSE settled
    BY <1>1, <1>2, <1>8, <1>10, <2>1, WritesShape
  <2>2. CASE Drafts!Fails(e) /\ settled' = settled
    BY <1>1, <1>2, <1>8, <1>10, <2>2, FailsShape
  <2> QED  BY <1>9, <2>1, <2>2
<1>14. Grows(e)
  BY <1>8, <1>10, <1>11, <1>13 DEF Grows
<1>15. /\ mayBeOut' \in [Drafts!Ids -> SUBSET (Sender \cup {Drafts!Earlier})]
       /\ \A x \in Drafts!Ids : s \notin mayBeOut[x] => mayBeOut'[x] = mayBeOut[x]
       /\ status = "failed" => \A x \in Drafts!Ids : mayBeOut'[x] \subseteq mayBeOut[x] \ {s}
  BY <1>1, <1>9, AnsweredIs
<1>16. PICK R : /\ sender' = [sender EXCEPT ![s] = R] /\ Sane(R)'
                /\ R.phase \in {"idle", "next", "bouncing"}
                     /\ R.claims \subseteq sender[s].claims
                /\ following' \subseteq following
                /\ R.phase = "next" => status = "delivered"
                /\ R.phase = "bouncing" =>
                     status = "failed" /\ Head(R.list) = Cur(s)
                       /\ sender[s].via = "unsent-token"
  BY <1>1, <1>2, <1>9, <1>13, AfterIs
<1>17. \A t \in Sender : t # s => R.claims \cap sender[t].claims = {}
  BY <1>1, <1>16 DEF SendersOK, Apart
<1>18. ~ Carried(d)' /\ Senders(d)' = {}
  <2>1. R.phase \notin {"recorded", "sending"}
    BY <1>16
  <2> QED  BY <1>1, <1>5, <1>16, <2>1, NotCarriedNow
<1>19. (\E p \in following' : p[2] = d) => D.risk
  BY <1>5, <1>16 DEF RiskAt
<1>20. PICK E : E = Q.drafts[d]
  OBVIOUS
<1>21. E.risk = D.risk /\ E.attempts = Answers(D.attempts, Len(D.attempts), status)
  BY <1>6, <1>12, <1>20
<1>22. /\ status # "failed" => Marked(E, Len(E.attempts))
       /\ Marked(D, Len(D.attempts) - 1) => Marked(E, Len(E.attempts))
       /\ status = "delivered" => \E i \in 1..Len(E.attempts) : E.attempts[i] = "delivered"
  BY <1>5, <1>21, AnsweredDraft
<1>23. RiskAt(E, d)'
  <2>1. Before(E, d)' = Len(E.attempts)
    BY <1>18 DEF Before
  <2>2. mayBeOut'[d] \ Senders(d)' # {} => Marked(E, Len(E.attempts))
    <3>1. CASE status # "failed"
      BY <1>22, <3>1
    <3>2. CASE status = "failed" /\ mayBeOut'[d] # {}
      <4>1. Carried(d) /\ Before(D, d) = Len(D.attempts) - 1
        BY <1>2, <1>3 DEF Carried, Before
      <4>2. Senders(d) \subseteq {s}
        BY <1>1, <1>5, ClaimedByOne DEF Senders
      <4>3. mayBeOut[d] \ Senders(d) # {}
        BY <1>5, <1>15, <3>2, <4>2
      <4> QED  BY <1>5, <1>22, <4>1, <4>3 DEF RiskAt
    <3> QED  BY <3>1, <3>2
  <2>3. d \in settled' => \E i \in 1..Len(E.attempts) : E.attempts[i] = "delivered"
    BY <1>5, <1>13, <1>22
  <2> QED  BY <1>19, <1>21, <2>1, <2>2, <2>3 DEF RiskAt
<1>24. ASSUME NEW P \in Views', d \in DOMAIN P.drafts
       PROVE  RiskAt(P.drafts[d], d)'
  <2>1. CASE P = Q
    BY <1>20, <1>23, <2>1
  <2>2. CASE P \in Views /\ settled' = settled
    <3>1. P.drafts[d] = D
      BY <1>4, <1>5, <2>2 DEF SeenAlike
    <3>2. Before(D, d)' = Len(D.attempts)
      BY <1>18 DEF Before
    <3>3. RiskAt(D, d)'
      BY <1>5, <1>19, <2>2, <3>2 DEF RiskAt
    <3> QED  BY <3>1, <3>3
  <2> QED  BY <1>13, <2>1, <2>2
<1>25. ASSUME R.phase = "bouncing" PROVE Bounced(s)'
  <2>1. Cur(s)' = d
    BY <1>1, <1>3, <1>16, <1>25 DEF Cur, SendersOK
  <2>2. mayBeOut[d] \subseteq {s} /\ \A p \in following : p[2] # d
    BY <1>3, <1>5, <1>16, <1>25 DEF SentOnce
  <2>3. mayBeOut'[d] = {}
    BY <1>5, <1>15, <1>16, <1>25, <2>2
  <2> QED  BY <1>16, <2>1, <2>2, <2>3 DEF Bounced
<1>26. settled' \subseteq settled \cup {d}
  BY <1>13
<1>27. \A P \in Views' : d \in DOMAIN P.drafts => RiskAt(P.drafts[d], d)'
  BY <1>24
<1>28. e.op # "held" /\ e.op # "checkpoint"
  BY <1>8
<1> QED  BY <1>2, <1>3, <1>8, <1>9, <1>13, <1>14, <1>15, <1>16, <1>17, <1>25, <1>26, <1>27,
            <1>28, Done

LEMMA BouncesKeeps == ASSUME DraftsInv, NEW s \in Sender, Drafts!Bounces(s) PROVE DraftsInv'
<1>1. Shape /\ SendersOK /\ Given /\ Sane(sender[s])
  BY DEF DraftsInv, SendersOK
<1>2. call = "none" /\ call # "opening" /\ sender[s].phase = "bouncing" /\ ~ Carrying(s)
  BY DEF Drafts!Bounces, Carrying
<1>3. Others(s)
  BY <1>1, <1>2, BusyAlone DEF BusyPhases
<1>4. PICK R : R = Drafts!Idle
  OBVIOUS
<1>5. sender' = [sender EXCEPT ![s] = R] /\ R.phase = "idle" /\ R.claims = {} /\ Sane(R)'
  BY <1>4, IdleIs DEF Drafts!Bounces
<1>6. \A t \in Sender : t # s => R.claims \cap sender[t].claims = {}
  BY <1>5
<1>7. PICK d : d = Cur(s)
  OBVIOUS
<1>8. CASE UNCHANGED <<Drafts!journal, Drafts!projection, call>>
             /\ UNCHANGED <<issued, Drafts!history>>
  <2>1. Shape' /\ Views' = Views /\ call' # "opening"
    BY <1>1, <1>2, <1>8, StillShape
  <2>2. UNCHANGED <<issued, mayBeOut, reported, settled>> /\ following' \subseteq following
    BY <1>8 DEF Drafts!history
  <2>3. R.phase \in {"idle", "next"}
    BY <1>5
  <2> QED  BY <1>2, <1>3, <1>5, <1>6, <2>1, <2>2, <2>3, Turns
<1>9. CASE Drafts!Kept(d) /\ Drafts!HoldsCopy(d, TRUE)
  <2>1. /\ Drafts!Projection \in Views /\ Drafts!Projection.drafts = drafts
        /\ d \in DOMAIN drafts /\ d \in Drafts!Ids /\ drafts[d] \in Drafts!Draft
    BY <1>1, <1>2, <1>9, InMemory DEF Drafts!Kept
  <2>2. Bounced(s)
    BY <1>2 DEF DraftsInv, Bouncing
  <2>3. mayBeOut[d] # {} \/ (\E p \in following : p[2] = d) => Drafts!CarriesRisk(d)
    <3>1. SUFFICES ASSUME mayBeOut[d] # {} PROVE Drafts!CarriesRisk(d)
      BY <1>7, <2>2 DEF Bounced
    <3>2. Undecided(drafts[d]) /\ Marked(drafts[d], Len(drafts[d].attempts))
      BY <1>7, <2>1, <2>2, <3>1 DEF Bounced
    <3> QED  BY <2>1, <3>2, StateOf DEF Drafts!CarriesRisk
  <2>4. ASSUME NEW x PROVE Carried(x)' = Carried(x) /\ Senders(x)' = Senders(x)
    <3>1. Carried(x)' = CarriedWith(s, R, x) /\ Senders(x)' = SendersWith(s, R, x)
      BY <1>1, <1>5, CarriedNow
    <3>2. s \notin Senders(x) /\ {t \in {s} : R.phase = "sending" /\ Head(R.list) = x} = {}
      BY <1>2, <1>5 DEF Senders
    <3>3. Carried(x)' = Carried(x)
      BY <1>2, <1>5, <3>1 DEF Carried, CarriedWith
    <3> QED  BY <3>1, <3>2, <3>3 DEF SendersWith
  <2>5. /\ Shape' /\ Given' /\ Risks' /\ issued' = issued + 1 /\ call' # "opening"
        /\ issued' \in Nat /\ issued \in Nat /\ settled' = settled
        /\ \E e : Grows(e) /\ e.op = "held" /\ e.id = issued + 1
        /\ \A x \in 1..issued : mayBeOut'[x] = mayBeOut[x]
        /\ \A p \in following' : p \in following \/ p[2] \notin 1..issued
    <3>1. TRUE \in BOOLEAN /\ \A x : Carried(x)' = Carried(x) /\ Senders(x)' = Senders(x)
      BY <2>4
    <3> QED  BY <1>2, <1>9, <2>1, <2>3, <3>1, CopyKeeps
  <2>6. PICK e : Grows(e) /\ e.op = "held" /\ e.id = issued + 1
    BY <2>5
  <2>7. ASSUME NEW t \in Sender, t # s, sender[t].phase = "sending"
        PROVE  /\ ~ Touches(e, Cur(t)) /\ Cur(t) \notin settled'
               /\ sender[t].via = "unsent-token" =>
                     mayBeOut'[Cur(t)] \subseteq {t} /\ \A p \in following' : p[2] # Cur(t)
    <3>1. PICK x : x = Cur(t)
      OBVIOUS
    <3>2. x \in 1..issued /\ SentOnce(t) /\ x \notin settled
      BY <1>2, <2>7, <3>1, CarriedIs DEF Carrying
    <3>3. x # issued + 1
      BY <2>5, <3>2
    <3>4. ~ Touches(e, x)
      BY <2>6, <3>3 DEF Touches
    <3>5. sender[t].via = "unsent-token" => mayBeOut[x] \subseteq {t}
            /\ \A p \in following : p[2] # x
      BY <3>1, <3>2 DEF SentOnce
    <3> QED  BY <2>5, <3>1, <3>2, <3>4, <3>5
  <2>8. \A t \in Sender : t # s /\ sender[t].phase = "sending" =>
           /\ ~ Touches(e, Cur(t)) /\ Cur(t) \notin settled'
           /\ sender[t].via = "unsent-token" =>
                 mayBeOut'[Cur(t)] \subseteq {t} /\ \A p \in following' : p[2] # Cur(t)
    BY <2>7
  <2>9. issued <= issued' /\ issued' \in Nat /\ R.phase \notin {"recorded", "sending"}
          /\ R.phase # "bouncing"
    BY <1>5, <2>5
  <2>10. SendersOK' /\ Frozen' /\ Bouncing'
    BY <1>2, <1>3, <1>5, <1>6, <2>5, <2>6, <2>8, <2>9, Moves
  <2> QED  BY <2>5, <2>10 DEF DraftsInv
<1>10. \/ UNCHANGED <<Drafts!journal, Drafts!projection, call>>
            /\ UNCHANGED <<issued, Drafts!history>>
       \/ Drafts!Kept(d) /\ Drafts!HoldsCopy(d, TRUE)
  BY <1>7 DEF Drafts!Bounces, Cur
<1> QED  BY <1>8, <1>9, <1>10

LEMMA RestartsKeeps == ASSUME DraftsInv, Drafts!Restarts PROVE DraftsInv'
<1>1. Shape /\ Given /\ SendersOK /\ Risks
  BY DEF DraftsInv
<1>2. Shape' /\ Views' \subseteq Views /\ call' = "opening"
  BY <1>1, RestartsShape
<1>3. /\ sender' = [t \in Sender |-> Drafts!Idle] /\ following' = {}
           /\ UNCHANGED <<issued, reported, settled>>
      /\ mayBeOut' = [x \in Drafts!Ids |-> IF mayBeOut[x] = {} THEN {} ELSE {Drafts!Earlier}]
      /\ issued' = issued /\ settled' = settled
  BY DEF Drafts!Restarts
<1>4. PICK e : e = Drafts!Checkpoint({})
  OBVIOUS
<1>5. Grows(e) /\ e.op = "checkpoint" /\ e.gone = {} /\ e.op # "held"
  BY <1>2, <1>4, GrowsNot DEF Drafts!Checkpoint
<1>6. /\ mayBeOut' \in [Drafts!Ids -> SUBSET (Sender \cup {Drafts!Earlier})]
      /\ \A x \in Drafts!Ids : mayBeOut'[x] # {} => mayBeOut[x] # {}
  BY <1>3
<1>7. Given'
  <2>1. \A x \in Drafts!Ids : x > issued => mayBeOut'[x] = {}
    BY <1>1, <1>6 DEF Given
  <2>2. settled' \subseteq 1..issued /\ following' \subseteq Drafts!Ids \X (1..issued)
    BY <1>1, <1>3 DEF Given
  <2>3. reported' \subseteq reported /\ issued' = issued
          /\ (e.op = "checkpoint" => reported' \cap e.gone = {})
    BY <1>3, <1>5
  <2> QED  BY <1>1, <1>5, <1>6, <2>1, <2>2, <2>3, GivenKeeps
<1>8. \A t \in Sender : sender'[t] = Drafts!Idle
  BY <1>3
<1>9. \A t \in Sender : sender'[t].phase = "idle" /\ sender'[t].claims = {}
  BY <1>8, IdleIs
<1>10. SendersOK'
  <2>1. DOMAIN sender' = Sender /\ sender' = [t \in Sender |-> sender'[t]]
    BY <1>3
  <2>2. ASSUME NEW t \in Sender PROVE Sane(sender[t])'
    <3>1. PICK R : R = Drafts!Idle
      OBVIOUS
    <3>2. Sane(R)' /\ sender'[t] = R
      BY <1>8, <3>1, IdleIs
    <3> QED  BY <3>2
  <2>3. \A t \in Sender, u \in Sender : t # u => Apart(sender[t], sender[u])'
    BY <1>9 DEF Apart, BusyPhases
  <2> QED  BY <2>1, <2>2, <2>3 DEF SendersOK
<1>11. Frozen' /\ Bouncing'
  BY <1>9 DEF Frozen, Bouncing, Carrying
<1>12. Risks'
  <2>1. SUFFICES ASSUME NEW P \in Views', NEW x \in DOMAIN P.drafts
                 PROVE  RiskAt(P.drafts[x], x)'
    BY DEF Risks
  <2>2. PICK D \in Drafts!Draft : D = P.drafts[x] /\ RiskAt(D, x) /\ x \in Drafts!Ids
    BY <1>1, <1>2, <2>1 DEF Shape, IsProjection, Risks
  <2>3. Before(D, x)' = Len(D.attempts)
    BY <1>9 DEF Before, Carried, Carrying
  <2>4. ASSUME mayBeOut[x] # {} PROVE Marked(D, Len(D.attempts))
    <3>1. Len(D.attempts) \in Nat
      <4>1. D.attempts \in Seq(Drafts!Status)
        BY <2>2, DraftFields
      <4> QED  BY <4>1
    <3>2. CASE mayBeOut[x] \ Senders(x) # {}
      <4>1. Marked(D, Before(D, x))
        BY <2>2, <3>2 DEF RiskAt
      <4>2. Before(D, x) = Len(D.attempts) \/ Before(D, x) = Len(D.attempts) - 1
        BY DEF Before
      <4> QED  BY <3>1, <4>1, <4>2 DEF Marked
    <3>3. CASE Senders(x) # {}
      <4>1. PICK t \in Sender : sender[t].phase = "sending" /\ Cur(t) = x
        BY <3>3 DEF Senders
      <4>2. call # "opening"
        BY <1>1, <4>1 DEF SendersOK, Sane
      <4>3. SeenAlike(x) /\ Marked(drafts[x], Len(drafts[x].attempts))
        BY <4>1, <4>2, CarriedIs DEF Carrying
      <4> QED  BY <1>2, <2>1, <2>2, <4>3 DEF SeenAlike
    <3> QED  BY <2>4, <3>2, <3>3
  <2>5. mayBeOut'[x] \ Senders(x)' # {} => Marked(D, Before(D, x)')
    BY <1>6, <2>2, <2>3, <2>4
  <2>6. RiskAt(D, x)'
    BY <1>3, <2>2, <2>5 DEF RiskAt
  <2> QED  BY <2>2, <2>6
<1> QED  BY <1>2, <1>7, <1>10, <1>11, <1>12 DEF DraftsInv

LEMMA InitDrafts == ASSUME Drafts!Init PROVE DraftsInv
<1>1. /\ lasting = Drafts!Nothing /\ tail = <<>> /\ unseen = <<>> /\ doubt = "none"
      /\ call = "opening" /\ issued = 0 /\ sender = [t \in Sender |-> Drafts!Idle]
      /\ mayBeOut = [x \in Drafts!Ids |-> {}] /\ following = {} /\ reported = {} /\ settled = {}
  BY DEF Drafts!Init
<1>2. Log = <<>>
  BY <1>1 DEF Log
<1>3. Views = {Drafts!Nothing}
  BY <1>1, <1>2, ViewsNone DEF Views
<1>4. Drafts!Nothing.drafts = <<>> /\ Drafts!Nothing.latest = 0 /\ IsProjection(Drafts!Nothing)
        /\ DOMAIN Drafts!Nothing.drafts = {}
  <2>1. Drafts!Nothing = [drafts |-> <<>>, latest |-> 0] /\ DOMAIN <<>> = {}
    BY DEF Drafts!Nothing
  <2>2. 0 \in 0..MaxDrafts
    BY PartsConstants DEF Drafts!DraftsConstants
  <2>3. <<>> = [x \in DOMAIN <<>> |-> <<>>[x]]
    OBVIOUS
  <2> QED  BY <2>1, <2>2, <2>3 DEF IsProjection
<1>5. Shape
  <2>1. tail \in Seq(Kinds) /\ unseen \in Seq(Kinds)
    BY <1>1
  <2> QED  BY <1>1, <1>3, <1>4, <2>1 DEF Shape
<1>6. Given
  <2>1. 0 \in 0..MaxDrafts
    BY PartsConstants DEF Drafts!DraftsConstants
  <2> QED  BY <1>1, <1>3, <1>4, <2>1 DEF Given
<1>7. \A t \in Sender : sender[t] = Drafts!Idle /\ sender[t].phase = "idle"
        /\ sender[t].claims = {}
  BY <1>1, IdleIs
<1>8. SendersOK
  <2>1. DOMAIN sender = Sender /\ sender = [t \in Sender |-> sender[t]]
    BY <1>1
  <2>2. \A t \in Sender : Sane(sender[t])
    BY <1>7, IdleIs
  <2>3. \A t \in Sender, u \in Sender : t # u => Apart(sender[t], sender[u])
    BY <1>7 DEF Apart, BusyPhases
  <2> QED  BY <2>1, <2>2, <2>3 DEF SendersOK
<1>9. Frozen /\ Bouncing
  BY <1>7 DEF Frozen, Bouncing, Carrying
<1>10. Risks
  BY <1>3, <1>4 DEF Risks
<1> QED  BY <1>5, <1>6, <1>8, <1>9, <1>10 DEF DraftsInv

LEMMA DraftsStill == ASSUME DraftsInv, UNCHANGED Drafts!vars PROVE DraftsInv'
<1>1. /\ UNCHANGED <<Drafts!journal, Drafts!projection, call>>
      /\ UNCHANGED <<sender, issued, settled, mayBeOut, following>> /\ reported' = reported
  BY DEF Drafts!vars, Drafts!history
<1>2. Shape' /\ Views' = Views /\ call' = call
  BY <1>1, StillShape DEF DraftsInv
<1>3. UNCHANGED <<issued, sender, settled, mayBeOut, following, reported, call, drafts>>
  BY <1>1 DEF Drafts!projection
<1>4. Given'
  BY <1>2, <1>3 DEF DraftsInv, Given
<1>5. SendersOK'
  BY <1>3 DEF DraftsInv, SendersOK, Sane, Apart
<1>6. \A x : Carried(x)' = Carried(x) /\ Senders(x)' = Senders(x)
  BY <1>3, SendersSame
<1>7. Frozen' /\ Bouncing'
  BY <1>2, <1>3 DEF DraftsInv, Frozen, Bouncing, Carrying, SeenAlike, SentOnce, Bounced, Cur
<1>8. Risks'
  BY <1>2, <1>3, <1>6 DEF DraftsInv, Risks, RiskAt, Before
<1> QED  BY <1>2, <1>4, <1>5, <1>7, <1>8 DEF DraftsInv

LEMMA DraftsStep == ASSUME DraftsInv, [Drafts!Next]_(Drafts!vars) PROVE DraftsInv'
<1>1. CASE Drafts!Opens
  BY <1>1, OpensKeeps
<1>2. CASE Drafts!Reconciles
  BY <1>2, ReconcilesKeeps
<1>3. CASE Drafts!Checkpoints
  BY <1>3, CheckpointsKeeps
<1>4. ASSUME NEW b \in BOOLEAN, Drafts!Hold(b) PROVE DraftsInv'
  BY <1>4, HoldKeeps
<1>5. ASSUME NEW b \in BOOLEAN, Drafts!HoldWithUnsent(b) PROVE DraftsInv'
  BY <1>5, HoldWithUnsentKeeps
<1>6. ASSUME NEW d \in Drafts!Ids, Drafts!Dismiss(d) PROVE DraftsInv'
  BY <1>6, DismissKeeps
<1>7. ASSUME NEW s \in Sender, NEW list \in Drafts!ResendLists,
             NEW c \in BOOLEAN, Drafts!ResendBegins(s, list, c)
      PROVE  DraftsInv'
  BY <1>7, ResendBeginsKeeps
<1>8. ASSUME NEW s \in Sender, Drafts!ResendNext(s) PROVE DraftsInv'
  BY <1>8, ResendNextKeeps
<1>9. ASSUME NEW s \in Sender, Drafts!SendUnsent(s) PROVE DraftsInv'
  BY <1>9, SendUnsentKeeps
<1>10. ASSUME NEW s \in Sender, Drafts!SendLeaves(s) PROVE DraftsInv'
  BY <1>10, SendLeavesKeeps
<1>11. ASSUME NEW s \in Sender, NEW status \in Drafts!Status, Drafts!SendAnswered(s, status)
       PROVE  DraftsInv'
  BY <1>11, SendAnsweredKeeps
<1>12. ASSUME NEW s \in Sender, Drafts!SendThrows(s) PROVE DraftsInv'
  BY <1>12, SendThrowsKeeps
<1>13. ASSUME NEW s \in Sender, Drafts!Bounces(s) PROVE DraftsInv'
  BY <1>13, BouncesKeeps
<1>14. CASE Drafts!Restarts
  BY <1>14, RestartsKeeps
<1>15. CASE UNCHANGED Drafts!vars
  BY <1>15, DraftsStill
<1> QED
  BY <1>1, <1>2, <1>3, <1>4, <1>5, <1>6, <1>7, <1>8, <1>9, <1>10, <1>11, <1>12, <1>13, <1>14,
     <1>15 DEF Drafts!Next

LEMMA DraftsReads == ASSUME DraftsInv PROVE Drafts!ReadsTheJournal
<1>1. Shape /\ Given
  BY DEF DraftsInv
<1>2. (call \in {"none", "checkpoint"} /\ doubt # "reconcile")
        => Drafts!Projection = Drafts!Replayed
  BY <1>1 DEF Shape
<1>3. ASSUME call # "opening" PROVE \A d \in reported : Drafts!Kept(d)
  <2>1. Drafts!Projection \in Views /\ Drafts!Projection.drafts = drafts
    BY <1>1, <1>3, InMemory
  <2> QED  BY <1>1, <2>1 DEF Given, Drafts!Kept
<1> QED  BY <1>2, <1>3 DEF Drafts!ReadsTheJournal

(* Only SendLeaves lets a recorded sender send.                             *)
LEMMA OneLeaves ==
    ASSUME DraftsInv, [Drafts!Next]_(Drafts!vars), NEW s \in Sender, Drafts!Leaves(s)
    PROVE  /\ sender[s].confirmed \/ mayBeOut[Head(sender[s].list)] = {}
           /\ Head(sender[s].list) \notin settled
<1>1. SentOnce(s)
  BY DEF DraftsInv, Frozen, Carrying, Drafts!Leaves
<1> QED  BY <1>1 DEF SentOnce, Drafts!Leaves, Cur

-----------------------------------------------------------------------------
(* The parts side by side: a step is one part's, and leaves the drafts'     *)
(* variables alone when it is another's.                                    *)

LEMMA DraftsPartStep ==
    ASSUME [PartsNext]_<<part, vars, draftsVars, presenceVars>>
    PROVE  [Drafts!Next]_(Drafts!vars)
BY DEF PartsNext, draftsVars, Drafts!vars, Drafts!journal, Drafts!projection, Drafts!history

LEMMA DraftsAlways == PartsSpec => []DraftsInv
<1>1. PartsInit => DraftsInv
  BY InitDrafts DEF PartsInit
<1>2. DraftsInv /\ [PartsNext]_<<part, vars, draftsVars, presenceVars>> => DraftsInv'
  BY DraftsPartStep, DraftsStep
<1> QED  BY <1>1, <1>2, PTL DEF PartsSpec

(* Through writes that fail before or after they take effect, checkpoints   *)
(* that fail at either end, reloads and restarts, the drafts in memory are  *)
(* those of the journal, and words whose hold returned are a draft of every *)
(* later process until a checkpoint lets go of them (prose-drafts.ts write, *)
(* hold, checkpointIfDue, reload).                                          *)
THEOREM DraftsReadTheJournal == PartsSpec => []ReadsTheJournal
<1>1. DraftsInv => ReadsTheJournal
  BY DraftsReads DEF ReadsTheJournal
<1> QED  BY <1>1, DraftsAlways, PTL

(* Words leave for the host only if every earlier send of the draft, and of *)
(* the drafts it copies, is known to have failed or the resident confirmed  *)
(* the risk, and never once their delivery was recorded, however senders    *)
(* interleave (prose-drafts.ts beginAttempt, resendRefusal, takeUnsent;     *)
(* framework.ts resendProseDrafts).                                         *)
THEOREM NothingIsRepeatedUnasked == PartsSpec => NoSilentRepeat
<1>1. ASSUME DraftsInv, [Drafts!Next]_(Drafts!vars)
      PROVE  \A s \in Sender : Drafts!Leaves(s) =>
                /\ sender[s].confirmed \/ mayBeOut[Head(sender[s].list)] = {}
                /\ Head(sender[s].list) \notin settled
  BY <1>1, OneLeaves
<1>2. DraftsInv /\ [PartsNext]_<<part, vars, draftsVars, presenceVars>> =>
        [\A s \in Sender : Drafts!Leaves(s) =>
            /\ sender[s].confirmed \/ mayBeOut[Head(sender[s].list)] = {}
            /\ Head(sender[s].list) \notin settled]_(Drafts!vars)
  BY <1>1, DraftsPartStep
<1> QED  BY <1>2, DraftsAlways, PTL DEF PartsSpec, NoSilentRepeat, Drafts!NoSilentRepeat

-----------------------------------------------------------------------------
(* What a server shows, by the theorems of ToolPresence_proofs, whose       *)
(* instances read the module's definitions as Presence and Asked do.        *)

Shows == INSTANCE ToolPresence_proofs
    WITH connected <- serverConnected, settled <- policySettled, faults <- serverFaults,
         SetOf <- [t \in Tool |-> IF t = t1 THEN g1 ELSE NoToolset],
         MaxActs <- ServerActs, MaxFaults <- ServerFaults, MaxAsks <- 0
AskedShows == INSTANCE ToolPresence_proofs
    WITH connected <- serverConnected, settled <- policySettled, faults <- serverFaults,
         Tool <- {t1}, SetOf <- [t \in {t1} |-> g1],
         MaxActs <- 1, MaxFaults <- ServerFaults, MaxAsks <- 1

ShownInv == IF part = "asked" THEN AskedShows!PresenceInv ELSE Shows!PresenceInv

LEMMA ShowsConstants == Shows!PresenceConstants /\ AskedShows!PresenceConstants
BY ShownConstants
   DEF Presence!PresenceConstants, Shows!PresenceConstants, Asked!PresenceConstants,
       AskedShows!PresenceConstants

LEMMA ShowsNext == [Presence!Next]_(Presence!vars) => [Shows!Next]_(Shows!vars)
BY Zenon DEF
       Presence!Flow, Shows!Flow, Presence!bounds, Shows!bounds, Presence!host, Shows!host,
       Presence!vars, Shows!vars, Presence!ToolsOf, Shows!ToolsOf, Presence!Loose, Shows!Loose,
       Presence!NoSets, Shows!NoSets, Presence!NoShows, Shows!NoShows, Presence!Message,
       Shows!Message, Presence!Notice, Shows!Notice, Presence!Ask, Shows!Ask, Presence!Faulty,
       Shows!Faulty, Presence!Noted, Shows!Noted, Presence!ApplyBody, Shows!ApplyBody,
       Presence!NamesUnlisted, Shows!NamesUnlisted, Presence!Later, Shows!Later,
       Presence!Behind, Shows!Behind, Presence!Skips, Shows!Skips, Presence!InDoubt,
       Shows!InDoubt, Presence!Applied, Shows!Applied, Presence!SetTools, Shows!SetTools,
       Presence!Adopted, Shows!Adopted, Presence!ScheduledIf, Shows!ScheduledIf, Presence!Says,
       Shows!Says, Presence!States, Shows!States, Presence!ShowsFor, Shows!ShowsFor,
       Presence!WithOpen, Shows!WithOpen, Presence!WithClosed, Shows!WithClosed,
       Presence!ServerOpens, Shows!ServerOpens, Presence!ServerCloses, Shows!ServerCloses,
       Presence!ServerShows, Shows!ServerShows, Presence!ServerHides, Shows!ServerHides,
       Presence!Lists, Shows!Lists, Presence!ServerLists, Shows!ServerLists,
       Presence!ServerRemoves, Shows!ServerRemoves, Presence!Answers, Shows!Answers,
       Presence!AnswersTools, Shows!AnswersTools, Presence!AnswersToolsets,
       Shows!AnswersToolsets, Presence!AnswersOpen, Shows!AnswersOpen, Presence!AnswersClose,
       Shows!AnswersClose, Presence!AnswersError, Shows!AnswersError, Presence!Running,
       Shows!Running, Presence!Lose, Shows!Lose, Presence!Start, Shows!Start, Presence!Answered,
       Shows!Answered, Presence!AnswersFlow, Shows!AnswersFlow, Presence!Reads, Shows!Reads,
       Presence!ReadHints, Shows!ReadHints, Presence!ReadToolList, Shows!ReadToolList,
       Presence!ReadToolsetList, Shows!ReadToolsetList, Presence!ReadError, Shows!ReadError,
       Presence!RefreshIsAsked, Shows!RefreshIsAsked, Presence!ReadListChanged,
       Shows!ReadListChanged, Presence!TimesOut, Shows!TimesOut, Presence!GoesOn, Shows!GoesOn,
       Presence!NotesEnd, Shows!NotesEnd, Presence!ConnectEnds, Shows!ConnectEnds,
       Presence!RecoveryEnds, Shows!RecoveryEnds, Presence!RefreshEnds, Shows!RefreshEnds,
       Presence!RecoveryStarts, Shows!RecoveryStarts, Presence!AgentAsks, Shows!AgentAsks,
       Presence!Connects, Shows!Connects, Presence!Settles, Shows!Settles, Presence!Breaks,
       Shows!Breaks, Presence!Next, Shows!Next

LEMMA AskedShowsNext == [Asked!Next]_(Asked!vars) => [AskedShows!Next]_(AskedShows!vars)
BY Zenon DEF
       Asked!Flow, AskedShows!Flow, Asked!bounds, AskedShows!bounds, Asked!host,
       AskedShows!host, Asked!vars, AskedShows!vars, Asked!ToolsOf, AskedShows!ToolsOf,
       Asked!Loose, AskedShows!Loose, Asked!NoSets, AskedShows!NoSets, Asked!NoShows,
       AskedShows!NoShows, Asked!Message, AskedShows!Message, Asked!Notice, AskedShows!Notice,
       Asked!Ask, AskedShows!Ask, Asked!Faulty, AskedShows!Faulty, Asked!Noted,
       AskedShows!Noted, Asked!ApplyBody, AskedShows!ApplyBody, Asked!NamesUnlisted,
       AskedShows!NamesUnlisted, Asked!Later, AskedShows!Later, Asked!Behind, AskedShows!Behind,
       Asked!Skips, AskedShows!Skips, Asked!InDoubt, AskedShows!InDoubt, Asked!Applied,
       AskedShows!Applied, Asked!SetTools, AskedShows!SetTools, Asked!Adopted,
       AskedShows!Adopted, Asked!ScheduledIf, AskedShows!ScheduledIf, Asked!Says,
       AskedShows!Says, Asked!States, AskedShows!States, Asked!ShowsFor, AskedShows!ShowsFor,
       Asked!WithOpen, AskedShows!WithOpen, Asked!WithClosed, AskedShows!WithClosed,
       Asked!ServerOpens, AskedShows!ServerOpens, Asked!ServerCloses, AskedShows!ServerCloses,
       Asked!ServerShows, AskedShows!ServerShows, Asked!ServerHides, AskedShows!ServerHides,
       Asked!Lists, AskedShows!Lists, Asked!ServerLists, AskedShows!ServerLists,
       Asked!ServerRemoves, AskedShows!ServerRemoves, Asked!Answers, AskedShows!Answers,
       Asked!AnswersTools, AskedShows!AnswersTools, Asked!AnswersToolsets,
       AskedShows!AnswersToolsets, Asked!AnswersOpen, AskedShows!AnswersOpen,
       Asked!AnswersClose, AskedShows!AnswersClose, Asked!AnswersError, AskedShows!AnswersError,
       Asked!Running, AskedShows!Running, Asked!Lose, AskedShows!Lose, Asked!Start,
       AskedShows!Start, Asked!Answered, AskedShows!Answered, Asked!AnswersFlow,
       AskedShows!AnswersFlow, Asked!Reads, AskedShows!Reads, Asked!ReadHints,
       AskedShows!ReadHints, Asked!ReadToolList, AskedShows!ReadToolList, Asked!ReadToolsetList,
       AskedShows!ReadToolsetList, Asked!ReadError, AskedShows!ReadError, Asked!RefreshIsAsked,
       AskedShows!RefreshIsAsked, Asked!ReadListChanged, AskedShows!ReadListChanged,
       Asked!TimesOut, AskedShows!TimesOut, Asked!GoesOn, AskedShows!GoesOn, Asked!NotesEnd,
       AskedShows!NotesEnd, Asked!ConnectEnds, AskedShows!ConnectEnds, Asked!RecoveryEnds,
       AskedShows!RecoveryEnds, Asked!RefreshEnds, AskedShows!RefreshEnds, Asked!RecoveryStarts,
       AskedShows!RecoveryStarts, Asked!AgentAsks, AskedShows!AgentAsks, Asked!Connects,
       AskedShows!Connects, Asked!Settles, AskedShows!Settles, Asked!Breaks, AskedShows!Breaks,
       Asked!Next, AskedShows!Next

LEMMA ShownInit == ASSUME PartsInit PROVE ShownInv
<1>1. CASE part = "asked"
  <2>1. AskedShows!Init
    BY <1>1 DEF PartsInit, Asked!Init, AskedShows!Init, Asked!Flow, AskedShows!Flow
  <2> QED  BY <1>1, <2>1, ShowsConstants, AskedShows!InvInit DEF ShownInv
<1>2. CASE part # "asked"
  <2>1. Shows!Init
    BY <1>2 DEF PartsInit, Presence!Init, Shows!Init, Presence!Flow, Shows!Flow
  <2> QED  BY <1>2, <2>1, ShowsConstants, Shows!InvInit DEF ShownInv
<1> QED  BY <1>1, <1>2

(* A step is one part's, and leaves what is shown alone when it is another's. *)
LEMMA ShownStep ==
    ASSUME ShownInv, [PartsNext]_<<part, vars, draftsVars, presenceVars>>
    PROVE  ShownInv'
<1>1. CASE part = "asked"
  <2>1. part' = "asked" /\ [Asked!Next]_(Asked!vars)
    BY <1>1 DEF PartsNext, presenceVars, Asked!vars, Asked!host, Asked!bounds
  <2>2. AskedShows!PresenceInv'
    BY <1>1, <2>1, ShowsConstants, AskedShowsNext, AskedShows!InvStep DEF ShownInv
  <2> QED  BY <2>1, <2>2 DEF ShownInv
<1>2. CASE part # "asked"
  <2>1. part' = part /\ [Presence!Next]_(Presence!vars)
    BY <1>2 DEF PartsNext, presenceVars, Presence!vars, Presence!host, Presence!bounds
  <2>2. Shows!PresenceInv'
    BY <1>2, <2>1, ShowsConstants, ShowsNext, Shows!InvStep DEF ShownInv
  <2> QED  BY <1>2, <2>1, <2>2 DEF ShownInv
<1> QED  BY <1>1, <1>2

LEMMA ShownAlways == PartsSpec => []ShownInv
<1>1. PartsInit => ShownInv
  BY ShownInit
<1>2. ShownInv /\ [PartsNext]_<<part, vars, draftsVars, presenceVars>> => ShownInv'
  BY ShownStep
<1> QED  BY <1>1, <1>2, PTL DEF PartsSpec

(* Of one tool alone the lists are as long, and the same is shown of it.    *)
LEMMA ShownAgrees == ASSUME ShownInv PROVE SettledAgrees
<1> SUFFICES ASSUME Presence!Quiet, ~ ignored
             PROVE  Presence!View(presence) = Presence!View(server)
  BY DEF SettledAgrees, Presence!SettledAgrees
<1>1. /\ presence.open = server.open /\ presence.visible = server.visible
      /\ presence.visible \subseteq presence.tools /\ server.visible \subseteq server.tools
  <2>1. CASE part = "asked"
    <3>1. AskedShows!Quiet
      BY DEF Presence!Quiet, AskedShows!Quiet, Presence!Running, AskedShows!Running,
             Presence!Flow, AskedShows!Flow
    <3> QED  BY <2>1, <3>1, AskedShows!InvSame DEF ShownInv
  <2>2. CASE part # "asked"
    <3>1. Shows!Quiet
      BY DEF Presence!Quiet, Shows!Quiet, Presence!Running, Shows!Running,
             Presence!Flow, Shows!Flow
    <3> QED  BY <2>2, <3>1, Shows!InvSame DEF ShownInv
  <2> QED  BY <2>1, <2>2
<1>2. presence.tools \cap presence.visible = server.tools \cap server.visible
  BY <1>1
<1> QED  BY <1>1, <1>2 DEF Presence!View, Presence!Shown

(* However messages are lost, lists fail, connections break, and the server *)
(* and an agent change what is shown meanwhile, a host with nothing left to *)
(* read or to ask, that heard the server's last statement and whose last    *)
(* lists did not fail, shows what the server shows (tool-presence.ts apply, *)
(* setTools, adopt; toolset-host.ts onRead, connected, recover).            *)
THEOREM SettledHostAgrees == PartsSpec => []SettledAgrees
<1>1. ShownInv => SettledAgrees
  BY ShownAgrees
<1> QED  BY <1>1, ShownAlways, PTL

-----------------------------------------------------------------------------
(* The types.  The latest bounce has been given an id, in every process     *)
(* that may follow.                                                         *)
BounceOK ==
    /\ \A P \in Views : P.latest <= issued
    /\ call = "opening" => drafts = <<>> /\ latestBounce = 0

LEMMA ReduceLatest ==
    ASSUME NEW P, IsProjection(P), NEW e \in Kinds
    PROVE  \/ Drafts!Reduce(P, e).latest = P.latest
           \/ e.op = "held" /\ Drafts!Reduce(P, e).latest = e.id
<1>1. CASE e \in [op : {"held"}, id : Drafts!Ids, bounced : BOOLEAN, risk : BOOLEAN]
  <2>1. e.op = "held" /\ e.bounced \in BOOLEAN
    BY <1>1
  <2>2. Drafts!Reduce(P, e).latest = IF e.bounced THEN e.id ELSE P.latest
    BY <2>1 DEF Drafts!Reduce
  <2> QED  BY <2>1, <2>2
<1>2. CASE e.op = "checkpoint"
  BY <1>2 DEF Drafts!Reduce, IsProjection
<1>3. CASE e.op \in {"attempt", "outcome", "dismissed"} /\ e.id \notin DOMAIN P.drafts
  BY <1>3, ReduceAbsent
<1>4. CASE e.op \in {"attempt", "dismissed"} /\ e.id \in DOMAIN P.drafts
  BY <1>4 DEF Drafts!Reduce, IsProjection
<1>5. CASE e.op = "outcome" /\ e.id \in DOMAIN P.drafts
  BY <1>5 DEF Drafts!Reduce, IsProjection
<1> QED  BY <1>1, <1>2, <1>3, <1>4, <1>5 DEF Kinds

(* A record more names no draft that has no id.                             *)
LEMMA BounceKeeps ==
    ASSUME Shape, BounceOK, issued \in Nat, issued' \in Nat, issued <= issued',
           call' # "opening", NEW e, Grows(e), e.op = "held" => e.id <= issued'
    PROVE  BounceOK'
<1>1. ASSUME NEW P \in Views' PROVE P.latest <= issued'
  <2>1. CASE P \in Views
    <3>1. P.latest <= issued /\ P.latest \in 0..MaxDrafts
      BY <2>1 DEF BounceOK, Shape, IsProjection
    <3> QED  BY <3>1
  <2>2. CASE Drafts!Projection \in Views /\ P = Drafts!Reduce(Drafts!Projection, e)
    <3>1. /\ IsProjection(Drafts!Projection) /\ e \in Kinds
          /\ Drafts!Projection.latest <= issued /\ Drafts!Projection.latest \in 0..MaxDrafts
      BY <2>2 DEF BounceOK, Shape, IsProjection, Grows
    <3>2. P.latest = Drafts!Projection.latest \/ (e.op = "held" /\ P.latest = e.id)
      BY <2>2, <3>1, ReduceLatest
    <3> QED  BY <3>1, <3>2
  <2> QED  BY <2>1, <2>2 DEF Grows
<1> QED  BY <1>1 DEF BounceOK

LEMMA WriteGrows ==
    ASSUME Shape, call = "none", NEW e \in Kinds, Drafts!Writes(e) \/ Drafts!Fails(e)
    PROVE  Grows(e) /\ call' # "opening"
<1>1. CASE Drafts!Writes(e)
  BY <1>1, WritesShape DEF Grows
<1>2. CASE Drafts!Fails(e)
  BY <1>2, FailsShape DEF Grows
<1> QED  BY <1>1, <1>2

(* A step that writes nothing of a hold.                                    *)
LEMMA BounceCalm ==
    ASSUME DraftsInv, BounceOK, issued' = issued, call' # "opening",
           NEW e, Grows(e), e.op # "held"
    PROVE  BounceOK'
<1>1. Shape /\ issued \in Nat /\ issued' \in Nat /\ issued <= issued'
  BY DEF DraftsInv, Given
<1> QED  BY <1>1, BounceKeeps

LEMMA BounceSeen ==
    ASSUME DraftsInv, BounceOK, issued' = issued, call' # "opening", Views' \subseteq Views
    PROVE  BounceOK'
<1>1. Drafts!Checkpoint({}).op # "held"
  BY DEF Drafts!Checkpoint
<1> QED  BY <1>1, GrowsNot, BounceCalm

LEMMA BounceStill ==
    ASSUME DraftsInv, BounceOK, issued' = issued,
           UNCHANGED <<Drafts!journal, Drafts!projection, call>>
    PROVE  BounceOK'
<1>1. Views' = Views /\ UNCHANGED <<drafts, latestBounce, call>>
  BY StillShape DEF DraftsInv, Drafts!projection
<1> QED  BY <1>1 DEF BounceOK

LEMMA HoldsBounce ==
    ASSUME DraftsInv, BounceOK, call = "none",
           NEW bounced \in BOOLEAN, NEW risk \in BOOLEAN, Drafts!Holds(bounced, risk)
    PROVE  BounceOK'
<1>1. issued' = issued + 1 /\ issued \in Nat /\ issued' \in Nat /\ issued' \in Drafts!Ids /\ Shape
        /\ issued <= issued' /\ issued' <= issued'
  BY PartsConstants DEF Drafts!Holds, DraftsInv, Given, Drafts!Ids, Drafts!DraftsConstants
<1>2. PICK e : e = Drafts!Held(issued', bounced, risk)
  OBVIOUS
<1>3. e \in Kinds /\ e.op = "held" /\ e.id = issued'
  BY <1>1, <1>2, KindsAre DEF Drafts!Held
<1>4. Drafts!Writes(e) \/ Drafts!Fails(e)
  BY <1>2 DEF Drafts!Holds
<1>5. Grows(e) /\ call' # "opening"
  BY <1>1, <1>3, <1>4, WriteGrows
<1> QED  BY <1>1, <1>3, <1>5, BounceKeeps

LEMMA CopyBounce ==
    ASSUME DraftsInv, BounceOK, call = "none", NEW source,
           NEW bounced \in BOOLEAN, Drafts!HoldsCopy(source, bounced)
    PROVE  BounceOK'
<1>1. PICK risk \in BOOLEAN : risk = Drafts!CarriesRisk(source)
  BY DEF Drafts!CarriesRisk
<1>2. Drafts!Holds(bounced, risk)
  BY <1>1 DEF Drafts!HoldsCopy
<1> QED  BY <1>2, HoldsBounce

LEMMA AttemptBounce ==
    ASSUME DraftsInv, BounceOK, call = "none", NEW d \in Drafts!Ids, issued' = issued,
           Drafts!Begins(d) \/ Drafts!BeginFails(d)
    PROVE  BounceOK'
<1>1. PICK e : e = Drafts!Attempt(d)
  OBVIOUS
<1>2. e \in Kinds /\ e.op # "held"
  BY <1>1, KindsAre DEF Drafts!Attempt
<1>3. Drafts!Writes(e) \/ Drafts!Fails(e)
  BY <1>1 DEF Drafts!Begins, Drafts!BeginFails
<1>4. Grows(e) /\ call' # "opening"
  BY <1>2, <1>3, WriteGrows DEF DraftsInv
<1> QED  BY <1>2, <1>4, BounceCalm

LEMMA AnsweredBounce ==
    ASSUME DraftsInv, BounceOK, NEW s \in Sender, NEW status \in Drafts!Status,
           Drafts!SendAnswered(s, status)
    PROVE  BounceOK'
<1>1. call = "none" /\ Carrying(s) /\ issued' = issued
  BY DEF Drafts!SendAnswered, Drafts!Settled, Carrying
<1>2. Cur(s) \in Drafts!Ids /\ drafts[Cur(s)] \in Drafts!Draft
  BY <1>1, CarriedIs
<1>3. PICK n \in Nat : n = Len(drafts[Cur(s)].attempts)
  <2>1. drafts[Cur(s)].attempts \in Seq(Drafts!Status)
    BY <1>2, DraftFields
  <2> QED  BY <2>1
<1>4. PICK e : e = Drafts!Outcome(Cur(s), n, status)
  OBVIOUS
<1>5. e \in Kinds /\ e.op # "held"
  BY <1>2, <1>4, KindsAre DEF Drafts!Outcome
<1>6. Drafts!Writes(e) \/ Drafts!Fails(e)
  BY <1>3, <1>4 DEF Drafts!SendAnswered, Cur
<1>7. Grows(e) /\ call' # "opening"
  BY <1>1, <1>5, <1>6, WriteGrows DEF DraftsInv
<1> QED  BY <1>1, <1>5, <1>7, BounceCalm

LEMMA ResendNextBounce ==
    ASSUME DraftsInv, BounceOK, NEW s \in Sender, Drafts!ResendNext(s)
    PROVE  BounceOK'
<1>1. call = "none" /\ issued' = issued
  BY DEF Drafts!ResendNext
<1>2. CASE UNCHANGED <<Drafts!journal, Drafts!projection, call>>
  BY <1>1, <1>2, BounceStill
<1>3. CASE Drafts!Kept(Head(sender[s].list))
             /\ (Drafts!Begins(Head(sender[s].list)) \/ Drafts!BeginFails(Head(sender[s].list)))
  <2>1. Head(sender[s].list) \in Drafts!Ids
    BY <1>1, <1>3, InMemory DEF Drafts!Kept, DraftsInv
  <2> QED  BY <1>1, <1>3, <2>1, AttemptBounce
<1> QED  BY <1>2, <1>3 DEF Drafts!ResendNext, Drafts!ResendStops

LEMMA SendUnsentBounce ==
    ASSUME DraftsInv, BounceOK, NEW s \in Sender, Drafts!SendUnsent(s)
    PROVE  BounceOK'
<1>1. /\ call = "none" /\ issued' = issued /\ Drafts!Kept(latestBounce)
      /\ \/ Drafts!Begins(latestBounce) \/ Drafts!BeginFails(latestBounce)
         \/ UNCHANGED <<Drafts!journal, Drafts!projection, call>>
  BY DEF Drafts!SendUnsent, Drafts!Settled, Drafts!MaySendUnsent, Drafts!Open
<1>2. latestBounce \in Drafts!Ids
  BY <1>1, InMemory DEF Drafts!Kept, DraftsInv
<1> QED  BY <1>1, <1>2, AttemptBounce, BounceStill

LEMMA DismissBounce ==
    ASSUME DraftsInv, BounceOK, NEW d \in Drafts!Ids, Drafts!Dismiss(d)
    PROVE  BounceOK'
<1>1. PICK e : e = Drafts!Dismissed(d)
  OBVIOUS
<1>2. e \in Kinds /\ e.op # "held"
  BY <1>1, KindsAre DEF Drafts!Dismissed
<1>3. (Drafts!Writes(e) \/ Drafts!Fails(e)) /\ call = "none" /\ issued' = issued
  BY <1>1 DEF Drafts!Dismiss, Drafts!Settled
<1>4. Grows(e) /\ call' # "opening"
  BY <1>2, <1>3, WriteGrows DEF DraftsInv
<1> QED  BY <1>2, <1>3, <1>4, BounceCalm

LEMMA BouncesBounce ==
    ASSUME DraftsInv, BounceOK, NEW s \in Sender, Drafts!Bounces(s)
    PROVE  BounceOK'
<1>1. call = "none"
  BY DEF Drafts!Bounces
<1>2. CASE Drafts!HoldsCopy(Head(sender[s].list), TRUE)
  BY <1>1, <1>2, CopyBounce
<1>3. CASE UNCHANGED <<Drafts!journal, Drafts!projection, call>> /\ issued' = issued
  BY <1>3, BounceStill
<1> QED  BY <1>2, <1>3 DEF Drafts!Bounces

LEMMA CheckpointsBounce == ASSUME DraftsInv, BounceOK, Drafts!Checkpoints PROVE BounceOK'
<1>1. call' # "opening" /\ issued' = issued /\ Drafts!Projection \in Views
  BY CheckpointsShape DEF DraftsInv, Drafts!Checkpoints
<1>2. PICK gone \in SUBSET Drafts!Ids :
         Views' \subseteq Views \cup {Drafts!Reduce(Drafts!Projection, Drafts!Checkpoint(gone))}
  BY CheckpointsShape DEF DraftsInv
<1>3. Grows(Drafts!Checkpoint(gone)) /\ Drafts!Checkpoint(gone).op # "held"
  BY <1>1, <1>2, KindsAre DEF Grows, Drafts!Checkpoint
<1> QED  BY <1>1, <1>3, BounceCalm

LEMMA RestartsBounce == ASSUME DraftsInv, BounceOK, Drafts!Restarts PROVE BounceOK'
<1>1. Views' \subseteq Views /\ issued' = issued /\ drafts' = <<>> /\ latestBounce' = 0
  BY RestartsShape DEF DraftsInv, Drafts!Restarts
<1> QED  BY <1>1 DEF BounceOK

LEMMA InitBounce == ASSUME Drafts!Init PROVE BounceOK
<1>1. Views = {Drafts!Nothing}
  <2>1. Log = <<>> /\ lasting = Drafts!Nothing
    BY DEF Drafts!Init, Log
  <2> QED  BY <2>1, ViewsNone DEF Views
<1> QED  BY <1>1 DEF BounceOK, Drafts!Init, Drafts!Nothing

LEMMA BounceStep ==
    ASSUME DraftsInv, BounceOK, [Drafts!Next]_(Drafts!vars)
    PROVE  BounceOK'
<1>1. CASE Drafts!Opens
  <2>1. Views' = Views /\ call' # "opening" /\ issued' = issued
    BY <1>1, OpensShape DEF DraftsInv, Drafts!Opens
  <2> QED  BY <2>1, BounceSeen
<1>2. CASE Drafts!Reconciles
  <2>1. Views' = Views /\ call' # "opening" /\ issued' = issued
    BY <1>2, ReconcilesShape DEF DraftsInv, Drafts!Reconciles
  <2> QED  BY <2>1, BounceSeen
<1>3. CASE Drafts!Checkpoints
  BY <1>3, CheckpointsBounce
<1>4. ASSUME NEW b \in BOOLEAN, Drafts!Hold(b) PROVE BounceOK'
  <2>1. call = "none" /\ Drafts!Holds(b, FALSE)
    BY <1>4 DEF Drafts!Hold, Drafts!Settled
  <2> QED  BY <2>1, HoldsBounce
<1>5. ASSUME NEW b \in BOOLEAN, Drafts!HoldWithUnsent(b) PROVE BounceOK'
  <2>1. call = "none" /\ Drafts!HoldsCopy(latestBounce, b)
    BY <1>5 DEF Drafts!HoldWithUnsent, Drafts!Settled
  <2> QED  BY <2>1, CopyBounce
<1>6. ASSUME NEW d \in Drafts!Ids, Drafts!Dismiss(d) PROVE BounceOK'
  BY <1>6, DismissBounce
<1>7. ASSUME NEW s \in Sender, Drafts!ResendNext(s) PROVE BounceOK'
  BY <1>7, ResendNextBounce
<1>8. ASSUME NEW s \in Sender, Drafts!SendUnsent(s) PROVE BounceOK'
  BY <1>8, SendUnsentBounce
<1>9. ASSUME NEW s \in Sender, NEW status \in Drafts!Status, Drafts!SendAnswered(s, status)
      PROVE  BounceOK'
  BY <1>9, AnsweredBounce
<1>10. ASSUME NEW s \in Sender, Drafts!Bounces(s) PROVE BounceOK'
  BY <1>10, BouncesBounce
<1>11. ASSUME NEW s \in Sender,
              \/ \E list \in Drafts!ResendLists, c \in BOOLEAN : Drafts!ResendBegins(s, list, c)
              \/ Drafts!SendLeaves(s) \/ Drafts!SendThrows(s)
       PROVE  BounceOK'
  <2>1. UNCHANGED <<Drafts!journal, Drafts!projection, call>> /\ issued' = issued
    BY <1>11 DEF Drafts!ResendBegins, Drafts!SendLeaves, Drafts!SendThrows
  <2> QED  BY <2>1, BounceStill
<1>12. CASE Drafts!Restarts
  BY <1>12, RestartsBounce
<1>13. CASE UNCHANGED Drafts!vars
  <2>1. UNCHANGED <<Drafts!journal, Drafts!projection, call>> /\ issued' = issued
    BY <1>13 DEF Drafts!vars
  <2> QED  BY <2>1, BounceStill
<1> QED
  BY <1>1, <1>2, <1>3, <1>4, <1>5, <1>6, <1>7, <1>8, <1>9, <1>10, <1>11, <1>12, <1>13
     DEF Drafts!Next

LEMMA DraftsTypes == ASSUME DraftsInv, BounceOK PROVE Drafts!TypeOK
<1>1. Shape /\ Given /\ SendersOK
  BY DEF DraftsInv
<1>2. MaxDrafts \in Nat /\ issued \in 0..MaxDrafts /\ 1..issued \subseteq Drafts!Ids
  BY <1>1, PartsConstants DEF Drafts!DraftsConstants, Given, Drafts!Ids
<1>3. /\ DOMAIN drafts \subseteq Drafts!Ids /\ \A d \in DOMAIN drafts : drafts[d] \in Drafts!Draft
      /\ latestBounce \in 0..issued
  <2>1. CASE call = "opening"
    <3>1. drafts = <<>> /\ latestBounce = 0 /\ DOMAIN <<>> = {}
      BY <2>1 DEF BounceOK
    <3> QED  BY <1>2, <3>1
  <2>2. CASE call # "opening"
    <3>1. Drafts!Projection \in Views /\ Drafts!Projection.latest = latestBounce
      BY <1>1, <2>2, InMemory DEF Drafts!Projection
    <3>2. latestBounce <= issued /\ latestBounce \in 0..MaxDrafts
      BY <1>1, <3>1 DEF BounceOK, Shape, IsProjection
    <3> QED  BY <1>1, <1>2, <2>2, <3>2, InMemory
  <2> QED  BY <2>1, <2>2
<1>4. ASSUME NEW s \in Sender
      PROVE  /\ sender[s].phase \in {"idle", "next", "recorded", "sending", "bouncing"}
             /\ sender[s].phase \in {"recorded", "sending"} =>
                  Head(sender[s].list) \in DOMAIN drafts \cap sender[s].claims
  <2>1. Sane(sender[s])
    BY <1>1 DEF SendersOK
  <2>2. ASSUME Carrying(s) PROVE Cur(s) \in DOMAIN drafts /\ Cur(s) \in sender[s].claims
    <3>1. call # "opening"
      BY <2>1, <2>2 DEF Sane, Carrying
    <3> QED  BY <2>2, <3>1, CarriedIs
  <2> QED  BY <2>1, <2>2 DEF Sane, SenderState, Carrying, Cur
<1>5. reported \subseteq Drafts!Ids /\ settled \subseteq Drafts!Ids
  <2>1. Drafts!Replayed \in Views
    BY <1>1, ReplayedIsSeen DEF Shape
  <2> QED  BY <1>1, <1>2, <2>1 DEF Given
<1> QED  BY <1>1, <1>2, <1>3, <1>4, <1>5 DEF Drafts!TypeOK, Shape, Given

LEMMA BounceAlways == PartsSpec => []BounceOK
<1>1. PartsInit => BounceOK
  BY InitBounce DEF PartsInit
<1>2. DraftsInv /\ BounceOK /\ [PartsNext]_<<part, vars, draftsVars, presenceVars>> => BounceOK'
  BY DraftsPartStep, BounceStep
<1> QED  BY <1>1, <1>2, DraftsAlways, PTL DEF PartsSpec

(* The marks and their delivery, by the invariant of AwarenessOutbox_proofs. *)
LEMMA MarksAlways == PartsSpec => []IInv
<1>1. PartsInit => IInv
  BY Initially, LedgerConstants DEF PartsInit
<1>2. IInv /\ [PartsNext]_<<part, vars, draftsVars, presenceVars>> => IInv'
  <2>1. [PartsNext]_<<part, vars, draftsVars, presenceVars>> => [Next]_vars
    BY DEF PartsNext
  <2> QED  BY <2>1, Inductive, LedgerConstants
<1> QED  BY <1>1, <1>2, PTL DEF PartsSpec

(* The types of what is shown of one tool are those of what is shown of all. *)
LEMMA ShownTypes == ASSUME ShownInv PROVE Presence!TypeOK
<1>1. CASE part = "asked"
  <2>1. AskedShows!TypeOK
    BY <1>1, AskedShows!InvTypes DEF ShownInv
  <2>2. presence \in AskedShows!Side => presence \in Presence!Side
    BY ShownConstants DEF AskedShows!Side, Presence!Side
  <2> QED
    BY <2>1, <2>2
       DEF AskedShows!TypeOK, Presence!TypeOK, AskedShows!Flow, Presence!Flow, AskedShows!Running,
           Presence!Running
<1>2. CASE part # "asked"
  <2>1. Shows!TypeOK
    BY <1>2, Shows!InvTypes DEF ShownInv
  <2> QED
    BY <2>1
       DEF Shows!TypeOK, Presence!TypeOK, Shows!Side, Presence!Side, Shows!Flow, Presence!Flow,
           Shows!Running, Presence!Running
<1> QED  BY <1>1, <1>2

(* The ledger, its store and its pass, the drafts and their senders, and    *)
(* what a host and its server show keep their types; a draft whose attempt  *)
(* is recorded or being sent is kept and claimed by its sender, and the     *)
(* latest bounce has been held (prose-drafts.ts 249-271, 442-476;           *)
(* awareness-ledger.ts; toolset-host.ts).                                   *)
THEOREM HostTypes == PartsSpec => []TypesOK
<1>1. DraftsInv /\ BounceOK /\ IInv /\ ShownInv => TypesOK
  <2>1. IInv => TypeOK
    BY DEF IInv
  <2> QED  BY <2>1, DraftsTypes, ShownTypes DEF TypesOK
<1> QED  BY <1>1, DraftsAlways, BounceAlways, MarksAlways, ShownAlways, PTL
=============================================================================
