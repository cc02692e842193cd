---------------------- MODULE QueueAndWaits_proofs ----------------------
(***************************************************************************)
(* Machine-checked facts about the small parts that MCQueueAndWaits has    *)
(* side by side: the event queue, the waits providers stated, the calls    *)
(* observers are told of, and the heartbeat, for any events, consumers,    *)
(* models, deadlines, calls, servers and reminders.                        *)
(***************************************************************************)
EXTENDS MCQueueAndWaits, SequenceTheorems, WellFoundedInduction, TLAPS

(* A set of naturals has a least member.                                    *)
LEMMA Least == ASSUME NEW T, T \subseteq Nat, T # {} PROVE \E n \in T : \A k \in T : n <= k
<1> DEFINE R == {p \in Nat \X Nat : p[1] < p[2]}
<1>1. R = OpToRel(<, Nat)
  BY DEF OpToRel
<1>2. IsWellFoundedOn(R, Nat)
  <2> HIDE DEF R
  <2> QED BY <1>1, NatLessThanWellFounded
<1>3. PICK n \in T : \A k \in T : ~ (<<k, n>> \in R)
  <2> HIDE DEF R
  <2> QED BY <1>2, WFMin
<1>4. ASSUME NEW k \in T PROVE n <= k
  <2>1. k \in Nat /\ n \in Nat /\ ~ (<<k, n>> \in R)
    BY <1>3
  <2>2. ~ (k < n)
    <3> SUFFICES ASSUME k < n PROVE FALSE
      OBVIOUS
    <3> QED  BY <2>1
  <2> QED  BY <2>1, <2>2
<1> QED BY <1>4


-----------------------------------------------------------------------------
(* The array as two lanes.                                                  *)

(* Where the lanes part.                                                    *)
PartsAt(q, n) ==
    /\ n \in 0..Len(q)
    /\ \A i \in 1..n : ~Internal(q[i])
    /\ n < Len(q) => Internal(q[n + 1])

LEMMA ExternalsPart ==
    ASSUME NEW S, NEW q \in Seq(S)
    PROVE  PartsAt(q, Externals(q))
<1> DEFINE I == {i \in 1..Len(q) : Internal(q[i])}
<1>0. Len(q) \in Nat /\ I \subseteq Nat
  OBVIOUS
<1>1. SelectInSeq(q, Internal) = IF I # {} THEN CHOOSE x \in I : \A y \in I : x <= y ELSE 0
  BY DEF SelectInSeq, Min
<1>2. CASE I = {}
  <2>1. Externals(q) = Len(q)
    BY <1>1, <1>2 DEF Externals
  <2> QED  BY <1>0, <1>2, <2>1 DEF PartsAt
<1>3. CASE I # {}
  <2> DEFINE x == CHOOSE x \in I : \A y \in I : x <= y
  <2>1. x \in I /\ \A y \in I : x <= y
    <3>1. \E n \in I : \A k \in I : n <= k
      <4> HIDE DEF I
      <4> QED  BY <1>0, <1>3, Least
    <3> QED  BY <3>1
  <2>2. x \in 1..Len(q) /\ Internal(q[x]) /\ \A i \in 1..(x - 1) : ~Internal(q[i])
    <3>1. x \in 1..Len(q) /\ Internal(q[x])
      BY <2>1
    <3>2. ASSUME NEW i \in 1..(x - 1) PROVE ~Internal(q[i])
      <4>1. i \in 1..Len(q) /\ ~ (x <= i)
        BY <1>0, <3>1
      <4> QED  BY <2>1, <4>1
    <3> QED  BY <3>1, <3>2
  <2>3. SelectInSeq(q, Internal) = x
    BY <1>1, <1>3
  <2> HIDE DEF x
  <2>4. Externals(q) = x - 1
    BY <2>2, <2>3 DEF Externals
  <2> QED  BY <1>0, <2>2, <2>4 DEF PartsAt
<1> QED  BY <1>2, <1>3

LEMMA PartsOnce ==
    ASSUME NEW S, NEW q \in Seq(S), NEW n, PartsAt(q, n)
    PROVE  Externals(q) = n
<1> DEFINE m == Externals(q)
<1>1. PartsAt(q, m)
  BY ExternalsPart
<1> HIDE DEF m
<1>2. Len(q) \in Nat /\ m \in 0..Len(q) /\ n \in 0..Len(q)
  BY <1>1 DEF PartsAt
<1>3. ~ (m < n)
  <2> SUFFICES ASSUME m < n PROVE FALSE
    OBVIOUS
  <2>1. m + 1 \in 1..n /\ m < Len(q)
    BY <1>2
  <2> QED  BY <1>1, <2>1 DEF PartsAt
<1>4. ~ (n < m)
  <2> SUFFICES ASSUME n < m PROVE FALSE
    OBVIOUS
  <2>1. n + 1 \in 1..m /\ n < Len(q)
    BY <1>2
  <2> QED  BY <1>1, <2>1 DEF PartsAt
<1> QED  BY <1>2, <1>3, <1>4 DEF m

(* Internal work stays behind.                                              *)
Ordered(q) == \A i, j \in 1..Len(q) : i < j /\ Internal(q[i]) => Internal(q[j])

(* e joins behind the first n.                                              *)
Joins(q, n, e, r) ==
    /\ Len(r) = Len(q) + 1
    /\ \A i \in 1..n : r[i] = q[i]
    /\ r[n + 1] = e
    /\ \A i \in (n + 2)..(Len(q) + 1) : r[i] = q[i - 1]

LEMMA Appends ==
    ASSUME NEW S, NEW q \in Seq(S), NEW e \in S
    PROVE  Append(q, e) \in Seq(S) /\ Joins(q, Len(q), e, Append(q, e))
  BY DEF Joins

LEMMA Inserts ==
    ASSUME NEW S, NEW q \in Seq(S), NEW e \in S, NEW n \in Nat, n < Len(q)
    PROVE  InsertAt(q, n + 1, e) \in Seq(S) /\ Joins(q, n, e, InsertAt(q, n + 1, e))
<1> DEFINE pre == SubSeq(q, 1, n)
           one == <<e>>
           post == SubSeq(q, n + 1, Len(q))
           l == Len(q)
<1>0. l \in Nat /\ n + 1 \in Int /\ n \in Int
  OBVIOUS
<1>1. pre \in Seq(S) /\ Len(pre) = n /\ \A i \in 1..n : pre[i] = q[i]
  <2>1. \A i \in 1..n : q[i] \in S
    OBVIOUS
  <2> QED  BY <1>0, <2>1, SubSeqProperties
<1>2. post \in Seq(S) /\ Len(post) = l - n /\ \A i \in 1..(l - n) : post[i] = q[n + i]
  <2>1. \A i \in (n + 1)..l : q[i] \in S
    BY <1>0
  <2>2. /\ post \in Seq(S) /\ Len(post) = (IF n + 1 <= l THEN l - (n + 1) + 1 ELSE 0)
        /\ \A i \in 1..(l - (n + 1) + 1) : post[i] = q[(n + 1) + i - 1]
    BY <1>0, <2>1, SubSeqProperties
  <2> HIDE DEF post
  <2>3. l - (n + 1) + 1 = l - n /\ n + 1 <= l /\ \A i \in 1..(l - n) : (n + 1) + i - 1 = n + i
    BY <1>0
  <2> QED  BY <2>2, <2>3
<1>3. one \in Seq(S) /\ Len(one) = 1 /\ one[1] = e
  OBVIOUS
<1> HIDE DEF pre, one, post
<1> DEFINE front == pre \o one
<1>4. front \in Seq(S) /\ Len(front) = n + 1 /\ front[n + 1] = e
        /\ \A i \in 1..n : front[i] = q[i]
  <2>1. /\ front \in Seq(S) /\ Len(front) = n + 1
        /\ \A i \in 1..(n + 1) : front[i] = IF i <= n THEN pre[i] ELSE one[i - n]
    <3>1. /\ front \in Seq(S) /\ Len(front) = Len(pre) + Len(one)
          /\ \A i \in 1..Len(pre) + Len(one) : front[i] = IF i <= Len(pre) THEN pre[i] ELSE one[i - Len(pre)]
      BY <1>1, <1>3, ConcatProperties
    <3> QED  BY <1>1, <1>3, <3>1
  <2>2. n + 1 \in 1..(n + 1) /\ (n + 1) - n = 1 /\ ~ (n + 1 <= n)
          /\ \A i \in 1..n : i \in 1..(n + 1) /\ i <= n
    BY <1>0
  <2> QED  BY <1>1, <1>3, <2>1, <2>2
<1> HIDE DEF front
<1> DEFINE r == front \o post
<1>5. /\ r \in Seq(S) /\ Len(r) = l + 1
      /\ \A i \in 1..(l + 1) : r[i] = IF i <= n + 1 THEN front[i] ELSE post[i - (n + 1)]
  <2>1. /\ r \in Seq(S) /\ Len(r) = (n + 1) + (l - n)
        /\ \A i \in 1..((n + 1) + (l - n)) : r[i] = IF i <= n + 1 THEN front[i] ELSE post[i - (n + 1)]
    <3>1. /\ r \in Seq(S) /\ Len(r) = Len(front) + Len(post)
          /\ \A i \in 1..Len(front) + Len(post) :
                r[i] = IF i <= Len(front) THEN front[i] ELSE post[i - Len(front)]
      BY <1>2, <1>4, ConcatProperties
    <3> QED  BY <1>2, <1>4, <3>1
  <2>2. (n + 1) + (l - n) = l + 1
    BY <1>0
  <2> QED  BY <2>1, <2>2
<1>6. InsertAt(q, n + 1, e) = r
  <2>1. (n + 1) - 1 = n
    BY <1>0
  <2> QED  BY <2>1 DEF InsertAt, r, front, pre, one, post
<1> HIDE DEF r
<1>7. Joins(q, n, e, r)
  <2>1. \A i \in 1..n : r[i] = q[i]
    BY <1>0, <1>4, <1>5
  <2>2. r[n + 1] = e
    BY <1>0, <1>4, <1>5
  <2>3. ASSUME NEW i \in (n + 2)..(l + 1) PROVE r[i] = q[i - 1]
    <3>1. i \in 1..(l + 1) /\ ~ (i <= n + 1) /\ i - (n + 1) \in 1..(l - n)
            /\ n + (i - (n + 1)) = i - 1
      BY <1>0
    <3> QED  BY <1>2, <1>5, <3>1
  <2> QED  BY <1>5, <2>1, <2>2, <2>3 DEF Joins
<1> QED  BY <1>5, <1>6, <1>7

(* An external event joins the end of its lane.                             *)
LEMMA JoinsItsLane ==
    ASSUME NEW S, NEW q \in Seq(S), NEW e \in S
    PROVE  JoinExternalLane(q, e) \in Seq(S)
             /\ Joins(q, Externals(q), e, JoinExternalLane(q, e))
<1> DEFINE n == Externals(q)
           first == SelectInSeq(q, Internal)
<1>1. Len(q) \in Nat /\ n \in 0..Len(q)
  BY ExternalsPart DEF PartsAt
<1>2. CASE first = 0
  <2>1. n = Len(q) /\ JoinExternalLane(q, e) = Append(q, e)
    BY <1>2 DEF Externals, JoinExternalLane
  <2> QED  BY <2>1, Appends
<1>3. CASE first # 0
  <2>1. first \in 1..Len(q)
    <3> DEFINE I == {i \in 1..Len(q) : Internal(q[i])}
    <3>1. first = IF I # {} THEN CHOOSE x \in I : \A y \in I : x <= y ELSE 0
      BY DEF SelectInSeq, Min
    <3>2. I # {} => \E x \in I : \A y \in I : x <= y
      <4>1. I \subseteq Nat
        BY <1>1
      <4> HIDE DEF I
      <4> QED  BY <4>1, Least
    <3> HIDE DEF first
    <3> QED  BY <1>3, <3>1, <3>2
  <2>2. n = first - 1 /\ JoinExternalLane(q, e) = InsertAt(q, first, e)
    BY <1>3 DEF Externals, JoinExternalLane
  <2> HIDE DEF n, first
  <2>3. n \in Nat /\ n < Len(q) /\ n + 1 = first
    BY <1>1, <2>1, <2>2
  <2> QED  BY <2>2, <2>3, Inserts DEF n
<1> QED  BY <1>2, <1>3

-----------------------------------------------------------------------------
(* What every step keeps.                                                   *)
Distinct(s) == \A i, j \in 1..Len(s) : s[i] = s[j] => i = j
Apart(s, t) == \A i \in 1..Len(s), j \in 1..Len(t) : s[i] # t[j]

QueueInv ==
    /\ NoSleeperBesideWork
    /\ pushed \subseteq Event
    /\ queue \in Seq(pushed) /\ delivered \in Seq(pushed) /\ waiters \in Seq(Caller)
    /\ Distinct(queue) /\ Distinct(delivered) /\ Apart(queue, delivered)
    /\ Ordered(queue)

(* An event new to the queue joins it.                                      *)
LEMMA JoinedOK ==
    ASSUME NEW S, NEW q \in Seq(S), NEW d \in Seq(S), Distinct(q), Apart(q, d), Ordered(q),
           NEW e, e \notin S, NEW n \in 0..Len(q), NEW r \in Seq(S \cup {e}), Joins(q, n, e, r),
           (PartsAt(q, n) /\ ~Internal(e)) \/ (n = Len(q) /\ Internal(e))
    PROVE  Distinct(r) /\ Apart(r, d) /\ Ordered(r)
<1> DEFINE from(i) == IF i <= n THEN i ELSE i - 1
<1>0. Len(q) \in Nat /\ Len(d) \in Nat /\ n \in Nat /\ Len(r) = Len(q) + 1
  BY DEF Joins
<1>1. r[n + 1] = e /\ n + 1 \in 1..Len(r)
  BY <1>0 DEF Joins
<1>2. \A i \in 1..Len(r) : i # n + 1 => from(i) \in 1..Len(q) /\ r[i] = q[from(i)] /\ r[i] # e
  <2> SUFFICES ASSUME NEW i \in 1..Len(r), i # n + 1
               PROVE  from(i) \in 1..Len(q) /\ r[i] = q[from(i)] /\ r[i] # e
    OBVIOUS
  <2>1. from(i) \in 1..Len(q) /\ (i <= n => i \in 1..n)
          /\ (~ (i <= n) => i \in (n + 2)..(Len(q) + 1))
    BY <1>0
  <2>2. r[i] = q[from(i)]
    BY <2>1 DEF Joins
  <2>3. q[from(i)] \in S
    BY <2>1
  <2> QED  BY <2>1, <2>2, <2>3
<1>3. \A i, j \in 1..Len(r) : i # n + 1 /\ j # n + 1 => (from(i) = from(j) => i = j)
        /\ (i < j => from(i) < from(j))
  BY <1>0
<1>4. Distinct(r)
  <2> SUFFICES ASSUME NEW i \in 1..Len(r), NEW j \in 1..Len(r), r[i] = r[j] PROVE i = j
    BY DEF Distinct
  <2> HIDE DEF from
  <2> QED  BY <1>1, <1>2, <1>3 DEF Distinct
<1>5. Apart(r, d)
  <2> SUFFICES ASSUME NEW i \in 1..Len(r), NEW j \in 1..Len(d) PROVE r[i] # d[j]
    BY DEF Apart
  <2>1. d[j] \in S
    OBVIOUS
  <2> HIDE DEF from
  <2> QED  BY <1>1, <1>2, <2>1 DEF Apart
<1>6. Ordered(r)
  <2> SUFFICES ASSUME NEW i \in 1..Len(r), NEW j \in 1..Len(r), i < j, Internal(r[i])
               PROVE  Internal(r[j])
    BY DEF Ordered
  <2>1. CASE i # n + 1 /\ j # n + 1
    <3> HIDE DEF from
    <3> QED  BY <1>2, <1>3, <2>1 DEF Ordered
  <2>2. CASE i = n + 1
    <3>1. Internal(e) /\ n = Len(q)
      BY <1>1, <2>2
    <3> QED  BY <1>0, <2>2, <3>1
  <2>3. CASE j = n + 1 /\ i # n + 1
    <3>1. i \in 1..n /\ r[i] = q[i]
      BY <1>0, <1>2, <2>3
    <3>2. ~PartsAt(q, n)
      BY <3>1 DEF PartsAt
    <3> QED  BY <1>1, <2>3, <3>2
  <2> QED  BY <2>1, <2>2, <2>3
<1> QED  BY <1>4, <1>5, <1>6

LEMMA TailOK ==
    ASSUME NEW S, NEW q \in Seq(S), q # <<>>,
           NEW d \in Seq(S), Distinct(q), Distinct(d), Apart(q, d), Ordered(q)
    PROVE  /\ Tail(q) \in Seq(S) /\ Append(d, Head(q)) \in Seq(S)
           /\ Distinct(Tail(q)) /\ Distinct(Append(d, Head(q)))
                /\ Apart(Tail(q), Append(d, Head(q))) /\ Ordered(Tail(q))
<1> DEFINE t == Tail(q)
           h == Head(q)
           dd == Append(d, h)
<1>1. /\ t \in Seq(S) /\ Len(t) = Len(q) - 1 /\ h = q[1] /\ h \in S /\ Len(q) \in Nat
           /\ Len(q) > 0
      /\ \A i \in 1..Len(t) : t[i] = q[i + 1]
  OBVIOUS
<1>2. /\ dd \in Seq(S) /\ Len(dd) = Len(d) + 1 /\ Len(d) \in Nat /\ dd[Len(d) + 1] = h
      /\ \A i \in 1..Len(d) : dd[i] = d[i]
  BY <1>1
<1> HIDE DEF t, h, dd
<1>3. \A i \in 1..Len(t) : i + 1 \in 1..Len(q) /\ 1 \in 1..Len(q) /\ i + 1 # 1
  BY <1>1
<1>4. Distinct(t)
  BY <1>1, <1>3 DEF Distinct
<1>5. Distinct(dd)
  <2> SUFFICES ASSUME NEW i \in 1..Len(dd), NEW j \in 1..Len(dd), dd[i] = dd[j] PROVE i = j
    BY DEF Distinct
  <2>1. (i \in 1..Len(d) \/ i = Len(d) + 1) /\ (j \in 1..Len(d) \/ j = Len(d) + 1)
          /\ 1 \in 1..Len(q)
    BY <1>1, <1>2
  <2> QED  BY <1>1, <1>2, <2>1 DEF Distinct, Apart
<1>6. Apart(t, dd)
  <2> SUFFICES ASSUME NEW i \in 1..Len(t), NEW j \in 1..Len(dd) PROVE t[i] # dd[j]
    BY DEF Apart
  <2>1. j \in 1..Len(d) \/ j = Len(d) + 1
    BY <1>2
  <2> QED  BY <1>1, <1>2, <1>3, <2>1 DEF Apart, Distinct
<1>7. Ordered(t)
  <2> SUFFICES ASSUME NEW i \in 1..Len(t), NEW j \in 1..Len(t), i < j, Internal(t[i])
               PROVE  Internal(t[j])
    BY DEF Ordered
  <2>1. i + 1 < j + 1
    BY <1>1
  <2> QED  BY <1>1, <1>3, <2>1 DEF Ordered
<1> QED  BY <1>1, <1>2, <1>4, <1>5, <1>6, <1>7 DEF t, h, dd

LEMMA EnqueueOK ==
    ASSUME QueueInv, NEW e \in Event, e \notin pushed, Enqueue(e)
    PROVE  /\ queue' \in Seq(pushed \cup {e})
           /\ Distinct(queue') /\ Apart(queue', delivered) /\ Ordered(queue')
<1> DEFINE S == pushed \cup {e}
<1>0. queue \in Seq(pushed) /\ delivered \in Seq(pushed) /\ queue \in Seq(S) /\ e \in S
        /\ Len(queue) \in Nat
  BY DEF QueueInv
<1>1. CASE Internal(e)
  <2>1. queue' = Append(queue, e)
    BY <1>1 DEF Enqueue
  <2>2. queue' \in Seq(S) /\ Joins(queue, Len(queue), e, queue')
    BY <1>0, <2>1, Appends
  <2>3. Len(queue) \in 0..Len(queue)
    BY <1>0
  <2> QED  BY <1>0, <1>1, <2>2, <2>3, JoinedOK DEF QueueInv
<1>2. CASE ~Internal(e)
  <2>1. queue' = JoinExternalLane(queue, e)
    BY <1>2 DEF Enqueue
  <2>2. queue' \in Seq(S) /\ Joins(queue, Externals(queue), e, queue')
    BY <1>0, <2>1, JoinsItsLane
  <2>3. PartsAt(queue, Externals(queue)) /\ Externals(queue) \in 0..Len(queue)
    BY <1>0, ExternalsPart DEF PartsAt
  <2> QED  BY <1>0, <1>2, <2>2, <2>3, JoinedOK DEF QueueInv
<1> QED  BY <1>1, <1>2

LEMMA QueueInit == Init => QueueInv
<1> SUFFICES ASSUME Init PROVE QueueInv
  OBVIOUS
<1>1. queue \in Seq(pushed) /\ delivered \in Seq(pushed) /\ waiters \in Seq(Caller)
      /\ Len(queue) = 0 /\ Len(delivered) = 0 /\ pushed = {}
  BY DEF Init
<1>2. NoSleeperBesideWork
  BY DEF Init, NoSleeperBesideWork
<1> QED  BY <1>1, <1>2 DEF QueueInv, Distinct, Apart, Ordered

LEMMA QueueStep == QueueInv /\ [Next]_vars => QueueInv'
<1> SUFFICES ASSUME QueueInv, [Next]_vars PROVE QueueInv'
  OBVIOUS
<1>0. queue \in Seq(pushed) /\ delivered \in Seq(pushed) /\ waiters \in Seq(Caller)
        /\ pushed \subseteq Event
      /\ (queue = <<>> \/ waiters = <<>>)
  BY DEF QueueInv, NoSleeperBesideWork
<1>1. ASSUME NEW e \in Event, Push(e) PROVE QueueInv'
  <2>1. e \notin pushed /\ pushed' = pushed \cup {e} /\ pushed' \subseteq Event /\ e \in pushed'
    BY <1>0, <1>1 DEF Push
  <2>2. queue \in Seq(pushed') /\ delivered \in Seq(pushed')
    BY <1>0, <2>1
  <2>3. CASE waiters # <<>>
    <3>1. queue' = <<>> /\ delivered' = Append(delivered, e) /\ waiters' \in Seq(Caller)
      <4>1. queue' = queue /\ queue = <<>> /\ delivered' = Append(delivered, e)
              /\ waiters' = Tail(waiters)
        BY <1>0, <1>1, <2>3 DEF Push, Resolve
      <4> QED  BY <1>0, <2>3, <4>1
    <3>2. Joins(delivered, Len(delivered), e, delivered') /\ delivered' \in Seq(pushed')
      BY <2>1, <2>2, <3>1, Appends
    <3>3. Distinct(delivered')
      <4>1. Len(delivered) \in Nat /\ \A i \in 1..Len(delivered) : delivered[i] # e
        BY <1>0, <2>1
      <4>2. \A i \in 1..Len(delivered') : i \in 1..Len(delivered) \/ i = Len(delivered) + 1
        BY <3>2, <4>1 DEF Joins
      <4>3. Distinct(delivered)
        BY DEF QueueInv
      <4> QED  BY <3>2, <4>1, <4>2, <4>3 DEF Distinct, Joins
    <3>4. queue' \in Seq(pushed') /\ Len(queue') = 0
      BY <3>1
    <3> QED  BY <2>1, <3>1, <3>2, <3>3, <3>4
                DEF QueueInv, NoSleeperBesideWork, Distinct, Apart, Ordered
  <2>4. CASE waiters = <<>>
    <3>1. Enqueue(e) /\ UNCHANGED <<waiters, delivered>>
      BY <1>1, <2>4 DEF Push
    <3>2. queue' \in Seq(pushed') /\ Distinct(queue') /\ Apart(queue', delivered)
            /\ Ordered(queue')
      BY <2>1, <3>1, EnqueueOK
    <3> QED  BY <2>1, <2>2, <2>4, <3>1, <3>2 DEF QueueInv, NoSleeperBesideWork
  <2> QED  BY <2>3, <2>4
<1>2. CASE queue # <<>> /\ queue' = Tail(queue) /\ delivered' = Append(delivered, Head(queue))
             /\ UNCHANGED <<waiters, pushed>>
  <2>1. /\ Tail(queue) \in Seq(pushed) /\ Append(delivered, Head(queue)) \in Seq(pushed)
        /\ Distinct(Tail(queue)) /\ Distinct(Append(delivered, Head(queue)))
        /\ Apart(Tail(queue), Append(delivered, Head(queue))) /\ Ordered(Tail(queue))
    BY <1>0, <1>2, TailOK DEF QueueInv
  <2> QED  BY <1>0, <1>2, <2>1 DEF QueueInv, NoSleeperBesideWork
<1>3. CASE queue = <<>> /\ UNCHANGED <<queue, delivered, pushed>>
             /\ \E c \in Caller : waiters' = Append(waiters, c)
  <2>1. waiters' \in Seq(Caller)
    BY <1>0, <1>3
  <2> QED  BY <1>0, <1>3, <2>1 DEF QueueInv, NoSleeperBesideWork
<1>4. CASE queue' = <<>> /\ UNCHANGED <<waiters, pushed, delivered>>
  <2>1. queue' \in Seq(pushed') /\ Len(queue') = 0
    BY <1>4
  <2> QED  BY <1>0, <1>4, <2>1 DEF QueueInv, NoSleeperBesideWork, Distinct, Apart, Ordered
<1>5. CASE UNCHANGED <<queue, pushed, delivered>> /\ waiters' \in {waiters, <<>>}
  <2>1. waiters' \in Seq(Caller)
    BY <1>0, <1>5
  <2> QED  BY <1>0, <1>5, <2>1 DEF QueueInv, NoSleeperBesideWork
<1>6. ASSUME NEW c \in Caller, Pop(c) PROVE QueueInv'
  BY <1>2, <1>3, <1>6 DEF Pop, Resolve
<1>7. CASE TryPop
  BY <1>2, <1>7 DEF TryPop
<1>8. CASE Clear
  BY <1>4, <1>8 DEF Clear
<1>9. CASE Close \/ UNCHANGED vars
  BY <1>5, <1>9 DEF Close, vars
<1> QED  BY <1>1, <1>6, <1>7, <1>8, <1>9 DEF Next

LEMMA InvDeliversOnce == QueueInv => DeliveredAtMostOnce
<1> SUFFICES ASSUME QueueInv PROVE DeliveredAtMostOnce
  OBVIOUS
<1> DEFINE s == queue \o delivered
           n == Len(queue)
<1>1. queue \in Seq(pushed) /\ delivered \in Seq(pushed) /\ waiters \in Seq(Caller) /\ n \in Nat
        /\ Len(delivered) \in Nat
  BY DEF QueueInv
<1>2. /\ s \in Seq(pushed) /\ Len(s) = n + Len(delivered)
      /\ \A i \in 1..(n + Len(delivered)) : s[i] = IF i <= n THEN queue[i] ELSE delivered[i - n]
  BY <1>1, ConcatProperties
<1>3. DOMAIN s = 1..(n + Len(delivered))
  BY <1>2
<1> HIDE DEF s
<1>4. ASSUME NEW i \in 1..(n + Len(delivered)), NEW j \in 1..(n + Len(delivered)), s[i] = s[j]
      PROVE  i = j
  <2>1. (i <= n => i \in 1..n) /\ (~ (i <= n) => i - n \in 1..Len(delivered))
        /\ (j <= n => j \in 1..n) /\ (~ (j <= n) => j - n \in 1..Len(delivered))
    BY <1>1
  <2>2. i - n = j - n => i = j
    BY <1>1
  <2> HIDE DEF n
  <2> QED  BY <1>2, <1>4, <2>1, <2>2 DEF QueueInv, Distinct, Apart, n
<1>5. IsInjective(s)
  BY <1>3, <1>4 DEF IsInjective
<1> QED  BY <1>1, <1>2, <1>5 DEF DeliveredAtMostOnce, s

-----------------------------------------------------------------------------
(* The refinement.                                                          *)
ExternalLane(q) == SubSeq(q, 1, Externals(q))
InternalLane(q) == SubSeq(q, Externals(q) + 1, Len(q))

LEMMA Split ==
    ASSUME NEW S, NEW q \in Seq(S), NEW n \in 0..Len(q)
    PROVE  /\ SubSeq(q, 1, n) \in Seq(S) /\ Len(SubSeq(q, 1, n)) = n
           /\ \A i \in 1..n : SubSeq(q, 1, n)[i] = q[i]
           /\ SubSeq(q, n + 1, Len(q)) \in Seq(S) /\ Len(SubSeq(q, n + 1, Len(q))) = Len(q) - n
           /\ \A i \in 1..(Len(q) - n) : SubSeq(q, n + 1, Len(q))[i] = q[n + i]
<1> DEFINE pre == SubSeq(q, 1, n)
           post == SubSeq(q, n + 1, Len(q))
           l == Len(q)
<1>0. l \in Nat /\ n \in Nat /\ n + 1 \in Int /\ n \in Int /\ n <= l
  OBVIOUS
<1>1. pre \in Seq(S) /\ Len(pre) = n /\ \A i \in 1..n : pre[i] = q[i]
  <2>1. \A i \in 1..n : q[i] \in S
    OBVIOUS
  <2> QED  BY <1>0, <2>1, SubSeqProperties
<1>2. post \in Seq(S) /\ Len(post) = l - n /\ \A i \in 1..(l - n) : post[i] = q[n + i]
  <2>1. \A i \in (n + 1)..l : q[i] \in S
    BY <1>0
  <2>2. /\ post \in Seq(S) /\ Len(post) = (IF n + 1 <= l THEN l - (n + 1) + 1 ELSE 0)
        /\ \A i \in 1..(l - (n + 1) + 1) : post[i] = q[(n + 1) + i - 1]
    BY <1>0, <2>1, SubSeqProperties
  <2> HIDE DEF post
  <2>3. l - (n + 1) + 1 = l - n /\ (~ (n + 1 <= l) => l - n = 0)
        /\ \A i \in 1..(l - n) : (n + 1) + i - 1 = n + i
    BY <1>0
  <2> QED  BY <2>2, <2>3
<1> QED  BY <1>1, <1>2

LEMMA LanesAre ==
    ASSUME NEW S, NEW q \in Seq(S), NEW n, PartsAt(q, n)
    PROVE  /\ n \in 0..Len(q) /\ Len(q) \in Nat
           /\ ExternalLane(q) \in Seq(S) /\ Len(ExternalLane(q)) = n
           /\ \A i \in 1..n : ExternalLane(q)[i] = q[i]
           /\ InternalLane(q) \in Seq(S) /\ Len(InternalLane(q)) = Len(q) - n
           /\ \A i \in 1..(Len(q) - n) : InternalLane(q)[i] = q[n + i]
<1>1. n = Externals(q) /\ n \in 0..Len(q)
  BY PartsOnce DEF PartsAt
<1>2. ExternalLane(q) = SubSeq(q, 1, n) /\ InternalLane(q) = SubSeq(q, n + 1, Len(q))
  BY <1>1 DEF ExternalLane, InternalLane
<1>3. /\ SubSeq(q, 1, n) \in Seq(S) /\ Len(SubSeq(q, 1, n)) = n
      /\ \A i \in 1..n : SubSeq(q, 1, n)[i] = q[i]
      /\ SubSeq(q, n + 1, Len(q)) \in Seq(S) /\ Len(SubSeq(q, n + 1, Len(q))) = Len(q) - n
      /\ \A i \in 1..(Len(q) - n) : SubSeq(q, n + 1, Len(q))[i] = q[n + i]
  BY <1>1, Split
<1> QED  BY <1>1, <1>2, <1>3

LEMMA Accepts ==
    ASSUME NEW S, NEW q \in Seq(S), NEW e \in S, NEW r \in Seq(S)
    PROVE  /\ ~Internal(e) /\ Joins(q, Externals(q), e, r) =>
                 ExternalLane(r) = Append(ExternalLane(q), e)
                   /\ InternalLane(r) = InternalLane(q)
           /\ Internal(e) /\ Joins(q, Len(q), e, r) =>
                 ExternalLane(r) = ExternalLane(q)
                   /\ InternalLane(r) = Append(InternalLane(q), e)
<1> DEFINE n == Externals(q)
           l == Len(q)
<1>0. PartsAt(q, n)
  BY ExternalsPart
<1> HIDE DEF n
<1>1. /\ n \in 0..l /\ l \in Nat /\ ExternalLane(q) \in Seq(S) /\ Len(ExternalLane(q)) = n
      /\ \A i \in 1..n : ExternalLane(q)[i] = q[i]
      /\ InternalLane(q) \in Seq(S) /\ Len(InternalLane(q)) = l - n
      /\ \A i \in 1..(l - n) : InternalLane(q)[i] = q[n + i]
  BY <1>0, LanesAre
<1>2. /\ Append(ExternalLane(q), e) \in Seq(S) /\ Len(Append(ExternalLane(q), e)) = n + 1
      /\ Append(ExternalLane(q), e)[n + 1] = e
      /\ \A i \in 1..n : Append(ExternalLane(q), e)[i] = q[i]
  <2> DEFINE x == ExternalLane(q)
  <2>1. x \in Seq(S) /\ Len(x) = n /\ \A i \in 1..n : x[i] = q[i]
    BY <1>1
  <2> HIDE DEF x
  <2>2. Append(x, e) \in Seq(S) /\ Len(Append(x, e)) = n + 1 /\ Append(x, e)[n + 1] = e
        /\ \A i \in 1..n : Append(x, e)[i] = q[i]
    BY <1>1, <2>1
  <2> QED  BY <2>2 DEF x
<1>3. /\ Append(InternalLane(q), e) \in Seq(S) /\ Len(Append(InternalLane(q), e)) = l - n + 1
      /\ Append(InternalLane(q), e)[l - n + 1] = e
      /\ \A i \in 1..(l - n) : Append(InternalLane(q), e)[i] = q[n + i]
  <2> DEFINE x == InternalLane(q)
             k == l - n
  <2>1. x \in Seq(S) /\ Len(x) = k /\ (\A i \in 1..k : x[i] = q[n + i]) /\ k \in Nat
    BY <1>1
  <2> HIDE DEF x, k
  <2>2. Append(x, e) \in Seq(S) /\ Len(Append(x, e)) = k + 1 /\ Append(x, e)[k + 1] = e
        /\ \A i \in 1..k : Append(x, e)[i] = q[n + i]
    BY <2>1
  <2> QED  BY <2>2 DEF x, k
<1>4. ASSUME ~Internal(e), Joins(q, n, e, r)
      PROVE  ExternalLane(r) = Append(ExternalLane(q), e) /\ InternalLane(r) = InternalLane(q)
  <2>1. /\ Len(r) = l + 1 /\ (\A i \in 1..n : r[i] = q[i]) /\ r[n + 1] = e
        /\ \A i \in 1..(l - n) : r[(n + 1) + i] = q[n + i]
    <3>1. ASSUME NEW i \in 1..(l - n) PROVE r[(n + 1) + i] = q[n + i]
      <4>1. (n + 1) + i \in (n + 2)..(l + 1) /\ ((n + 1) + i) - 1 = n + i
        BY <1>1
      <4> QED  BY <1>4, <4>1 DEF Joins
    <3> QED  BY <1>4, <3>1 DEF Joins
  <2>2. PartsAt(r, n + 1)
    <3>1. n + 1 \in 0..Len(r)
      BY <1>1, <2>1
    <3>2. ASSUME NEW i \in 1..(n + 1) PROVE ~Internal(r[i])
      <4>1. i = n + 1 \/ i \in 1..n
        BY <1>1
      <4> QED  BY <1>0, <1>4, <2>1, <4>1 DEF PartsAt
    <3>3. ASSUME n + 1 < Len(r) PROVE Internal(r[(n + 1) + 1])
      <4>1. 1 \in 1..(l - n) /\ n < l
        BY <1>1, <2>1, <3>3
      <4> QED  BY <1>0, <2>1, <4>1 DEF PartsAt
    <3> QED  BY <3>1, <3>2, <3>3 DEF PartsAt
  <2>3. /\ ExternalLane(r) \in Seq(S) /\ Len(ExternalLane(r)) = n + 1
        /\ \A i \in 1..(n + 1) : ExternalLane(r)[i] = r[i]
        /\ InternalLane(r) \in Seq(S) /\ Len(InternalLane(r)) = Len(r) - (n + 1)
        /\ \A i \in 1..(Len(r) - (n + 1)) : InternalLane(r)[i] = r[(n + 1) + i]
    BY <2>2, LanesAre
  <2>4. \A i \in 1..(n + 1) : ExternalLane(r)[i] = Append(ExternalLane(q), e)[i]
    <3>1. \A i \in 1..(n + 1) : i = n + 1 \/ i \in 1..n
      BY <1>1
    <3> QED  BY <1>2, <2>1, <2>3, <3>1
  <2>5. Len(r) - (n + 1) = l - n
    BY <1>1, <2>1
  <2>6. ExternalLane(r) = Append(ExternalLane(q), e)
    BY <1>2, <2>3, <2>4, SeqEqual
  <2>7. InternalLane(r) = InternalLane(q)
    <3>1. \A i \in 1..(l - n) : InternalLane(r)[i] = InternalLane(q)[i]
      BY <1>1, <2>1, <2>3, <2>5
    <3>2. Len(InternalLane(r)) = Len(InternalLane(q))
      BY <1>1, <2>3, <2>5
    <3> QED  BY <1>1, <2>3, <3>1, <3>2, SeqEqual
  <2> QED  BY <2>6, <2>7
<1>5. ASSUME Internal(e), Joins(q, l, e, r)
      PROVE  ExternalLane(r) = ExternalLane(q) /\ InternalLane(r) = Append(InternalLane(q), e)
  <2>1. Len(r) = l + 1 /\ (\A i \in 1..l : r[i] = q[i]) /\ r[l + 1] = e
    BY <1>5 DEF Joins
  <2>2. PartsAt(r, n)
    <3>1. n \in 0..Len(r) /\ n + 1 \in 1..(l + 1) /\ (n + 1 \in 1..l \/ n = l)
      BY <1>1, <2>1
    <3>2. \A i \in 1..n : i \in 1..l
      BY <1>1
    <3>3. n + 1 \in 1..l => n < l
      BY <1>1
    <3> QED  BY <1>0, <1>5, <2>1, <3>1, <3>2, <3>3 DEF PartsAt
  <2>3. /\ ExternalLane(r) \in Seq(S) /\ Len(ExternalLane(r)) = n
        /\ \A i \in 1..n : ExternalLane(r)[i] = r[i]
        /\ InternalLane(r) \in Seq(S) /\ Len(InternalLane(r)) = Len(r) - n
        /\ \A i \in 1..(Len(r) - n) : InternalLane(r)[i] = r[n + i]
    BY <2>2, LanesAre
  <2>4. Len(r) - n = l - n + 1
    BY <1>1, <2>1
  <2>5. ASSUME NEW i \in 1..(l - n + 1) PROVE InternalLane(r)[i] = Append(InternalLane(q), e)[i]
    <3>1. CASE i = l - n + 1
      <4>1. n + i = l + 1
        BY <1>1, <3>1
      <4>2. i \in 1..(Len(r) - n)
        BY <2>4
      <4>3. InternalLane(r)[i] = r[n + i]
        BY <2>3, <4>2
      <4> QED  BY <1>3, <2>1, <3>1, <4>1, <4>3
    <3>2. CASE i # l - n + 1
      <4>1. i \in 1..(l - n) /\ n + i \in 1..l
        BY <1>1, <3>2
      <4>2. i \in 1..(Len(r) - n)
        BY <2>4
      <4>3. InternalLane(r)[i] = r[n + i]
        BY <2>3, <4>2
      <4> QED  BY <1>3, <2>1, <4>1, <4>3
    <3> QED  BY <3>1, <3>2
  <2>6. InternalLane(r) = Append(InternalLane(q), e)
    BY <1>3, <2>3, <2>4, <2>5, SeqEqual
  <2>7. \A i \in 1..n : ExternalLane(r)[i] = ExternalLane(q)[i]
    <3>1. \A i \in 1..n : i \in 1..l
      BY <1>1
    <3> QED  BY <1>1, <2>1, <2>3, <3>1
  <2>8. ExternalLane(r) = ExternalLane(q)
    BY <1>1, <2>3, <2>7, SeqEqual
  <2> QED  BY <2>6, <2>8
<1> QED  BY <1>4, <1>5 DEF n

LEMMA Serves ==
    ASSUME NEW S, NEW q \in Seq(S), q # <<>>, Ordered(q)
    PROVE  \/ /\ ExternalLane(q) # <<>> /\ Head(ExternalLane(q)) = Head(q)
              /\ ExternalLane(Tail(q)) = Tail(ExternalLane(q))
                   /\ InternalLane(Tail(q)) = InternalLane(q)
           \/ /\ ExternalLane(q) = <<>> /\ InternalLane(q) # <<>>
                   /\ Head(InternalLane(q)) = Head(q)
              /\ ExternalLane(Tail(q)) = <<>> /\ InternalLane(Tail(q)) = Tail(InternalLane(q))
<1> DEFINE n == Externals(q)
           l == Len(q)
           t == Tail(q)
<1>0. PartsAt(q, n)
  BY ExternalsPart
<1> HIDE DEF n
<1>1. /\ n \in 0..l /\ l \in Nat /\ l > 0 /\ ExternalLane(q) \in Seq(S)
           /\ Len(ExternalLane(q)) = n
      /\ \A i \in 1..n : ExternalLane(q)[i] = q[i]
      /\ InternalLane(q) \in Seq(S) /\ Len(InternalLane(q)) = l - n
      /\ \A i \in 1..(l - n) : InternalLane(q)[i] = q[n + i]
  BY <1>0, LanesAre
<1>2. t \in Seq(S) /\ Len(t) = l - 1 /\ \A i \in 1..(l - 1) : t[i] = q[i + 1]
  OBVIOUS
<1> HIDE DEF t
<1>3. CASE n > 0
  <2> DEFINE x == ExternalLane(q)
  <2>1. x \in Seq(S) /\ Len(x) = n /\ (\A i \in 1..n : x[i] = q[i]) /\ x # <<>>
    BY <1>1, <1>3
  <2>2. Head(x) = x[1] /\ Head(q) = q[1] /\ 1 \in 1..n
    BY <1>1, <1>3, <2>1
  <2>3. Tail(x) \in Seq(S) /\ Len(Tail(x)) = n - 1
          /\ \A i \in 1..(n - 1) : Tail(x)[i] = x[i + 1]
    <3> HIDE DEF x
    <3> QED  BY <2>1
  <2>4. n - 1 \in 0..(l - 1) /\ n - 1 \in Nat
          /\ (\A i \in 1..(n - 1) : i + 1 \in 1..n /\ i \in 1..(l - 1))
        /\ (n - 1 < l - 1 => n < l /\ (n - 1) + 1 \in 1..(l - 1) /\ ((n - 1) + 1) + 1 = n + 1)
        /\ (l - 1) - (n - 1) = l - n
        /\ \A i \in 1..(l - n) : (n - 1) + i \in 1..(l - 1) /\ ((n - 1) + i) + 1 = n + i
    BY <1>1, <1>3
  <2>5. PartsAt(t, n - 1)
    BY <1>0, <1>2, <2>4 DEF PartsAt
  <2>6. /\ ExternalLane(t) \in Seq(S) /\ Len(ExternalLane(t)) = n - 1
        /\ \A i \in 1..(n - 1) : ExternalLane(t)[i] = t[i]
        /\ InternalLane(t) \in Seq(S) /\ Len(InternalLane(t)) = l - n
        /\ \A i \in 1..(l - n) : InternalLane(t)[i] = t[(n - 1) + i]
    <3>1. /\ ExternalLane(t) \in Seq(S) /\ Len(ExternalLane(t)) = n - 1
          /\ \A i \in 1..(n - 1) : ExternalLane(t)[i] = t[i]
          /\ InternalLane(t) \in Seq(S) /\ Len(InternalLane(t)) = Len(t) - (n - 1)
          /\ \A i \in 1..(Len(t) - (n - 1)) : InternalLane(t)[i] = t[(n - 1) + i]
      BY <1>2, <2>5, LanesAre
    <3> QED  BY <1>2, <2>4, <3>1
  <2>7. ExternalLane(t) = Tail(x)
    <3>1. ASSUME NEW i \in 1..(n - 1) PROVE ExternalLane(t)[i] = Tail(x)[i]
      <4>1. i + 1 \in 1..n /\ i \in 1..(l - 1)
        BY <2>4
      <4>2. Tail(x)[i] = x[i + 1] /\ ExternalLane(t)[i] = t[i]
        BY <2>3, <2>6
      <4>3. x[i + 1] = q[i + 1] /\ t[i] = q[i + 1]
        BY <1>2, <2>1, <4>1
      <4> QED  BY <4>2, <4>3
    <3> QED  BY <2>3, <2>6, <3>1, SeqEqual
  <2>8. InternalLane(t) = InternalLane(q)
    <3>1. ASSUME NEW i \in 1..(l - n) PROVE InternalLane(t)[i] = InternalLane(q)[i]
      <4>1. InternalLane(t)[i] = t[(n - 1) + i] /\ InternalLane(q)[i] = q[n + i]
        BY <1>1, <2>6
      <4>2. (n - 1) + i \in 1..(l - 1) /\ ((n - 1) + i) + 1 = n + i
        BY <2>4
      <4>3. t[(n - 1) + i] = q[((n - 1) + i) + 1]
        BY <1>2, <4>2
      <4> QED  BY <4>1, <4>2, <4>3
    <3> QED  BY <1>1, <2>6, <3>1, SeqEqual
  <2> QED  BY <2>1, <2>2, <2>7, <2>8 DEF t
<1>4. CASE n = 0
  <2> DEFINE x == InternalLane(q)
  <2>1. x \in Seq(S) /\ Len(x) = l /\ (\A i \in 1..l : x[i] = q[i]) /\ x # <<>>
          /\ ExternalLane(q) = <<>>
    BY <1>1, <1>4
  <2>2. Head(x) = x[1] /\ Head(q) = q[1] /\ 1 \in 1..l
    BY <1>1, <2>1
  <2>3. Tail(x) \in Seq(S) /\ Len(Tail(x)) = l - 1
          /\ \A i \in 1..(l - 1) : Tail(x)[i] = x[i + 1]
    <3> HIDE DEF x
    <3> QED  BY <2>1
  <2>4. Internal(q[1]) /\ 0 + 1 = 1
    BY <1>0, <1>1, <1>4 DEF PartsAt
  <2>5. PartsAt(t, 0)
    <3>1. 0 < l - 1 => 1 \in 1..(l - 1) /\ 1 + 1 \in 1..l /\ 1 < 1 + 1 /\ 0 + 1 = 1
      BY <1>1
    <3>2. 0 < l - 1 => Internal(t[0 + 1])
      BY <1>2, <2>2, <2>4, <3>1 DEF Ordered
    <3>3. 0 \in 0..Len(t)
      BY <1>1, <1>2
    <3> QED  BY <1>2, <3>2, <3>3 DEF PartsAt
  <2>6. /\ ExternalLane(t) \in Seq(S) /\ Len(ExternalLane(t)) = 0
        /\ InternalLane(t) \in Seq(S) /\ Len(InternalLane(t)) = l - 1
        /\ \A i \in 1..(l - 1) : InternalLane(t)[i] = t[i]
    <3>1. /\ ExternalLane(t) \in Seq(S) /\ Len(ExternalLane(t)) = 0
          /\ InternalLane(t) \in Seq(S) /\ Len(InternalLane(t)) = Len(t) - 0
          /\ \A i \in 1..(Len(t) - 0) : InternalLane(t)[i] = t[0 + i]
      <4>1. PICK z : z = 0
        OBVIOUS
      <4>2. t \in Seq(S) /\ PartsAt(t, z)
        BY <1>2, <2>5, <4>1
      <4>3. /\ ExternalLane(t) \in Seq(S) /\ Len(ExternalLane(t)) = z
            /\ InternalLane(t) \in Seq(S) /\ Len(InternalLane(t)) = Len(t) - z
            /\ \A i \in 1..(Len(t) - z) : InternalLane(t)[i] = t[z + i]
        BY <4>2, LanesAre
      <4> QED  BY <4>1, <4>3
    <3>2. (l - 1) - 0 = l - 1 /\ \A i \in 1..(l - 1) : 0 + i = i
      BY <1>1
    <3> QED  BY <1>2, <3>1, <3>2
  <2>7. InternalLane(t) = Tail(x)
    <3>1. \A i \in 1..(l - 1) : i + 1 \in 1..l
      BY <1>1
    <3>2. \A i \in 1..(l - 1) : InternalLane(t)[i] = Tail(x)[i]
      BY <1>2, <2>1, <2>3, <2>6, <3>1
    <3> QED  BY <2>3, <2>6, <3>2, SeqEqual
  <2> QED  BY <2>1, <2>2, <2>6, <2>7 DEF t
<1> QED  BY <1>1, <1>3, <1>4

LEMMA NoLanes == ExternalLane(<<>>) = <<>> /\ InternalLane(<<>>) = <<>>
<1>1. <<>> \in Seq({}) /\ Len(<<>>) = 0
  OBVIOUS
<1>2. ExternalLane(<<>>) \in Seq({}) /\ InternalLane(<<>>) \in Seq({})
  BY <1>1, ExternalsPart, LanesAre
<1> QED  BY <1>2

LEMMA LanesMapped ==
    /\ SubSeq(queue, 1, Externals(queue)) = ExternalLane(queue)
    /\ SubSeq(queue, Externals(queue) + 1, Len(queue)) = InternalLane(queue)
  BY DEF ExternalLane, InternalLane

LEMMA LanesMappedNext ==
    /\ SubSeq(queue', 1, Externals(queue')) = ExternalLane(queue')
    /\ SubSeq(queue', Externals(queue') + 1, Len(queue')) = InternalLane(queue')
  BY DEF ExternalLane, InternalLane

LEMMA LanesInit == Init => Lanes!Init
  BY NoLanes, LanesMapped DEF Init, Lanes!Init

LEMMA LanesStep == QueueInv /\ [Next]_vars => [Lanes!Next]_(Lanes!vars)
<1> SUFFICES ASSUME QueueInv, [Next]_vars PROVE Lanes!Next \/ UNCHANGED Lanes!vars
  OBVIOUS
<1> USE LanesMapped, LanesMappedNext
<1>0. queue \in Seq(pushed) /\ (queue = <<>> \/ waiters = <<>>) /\ Ordered(queue)
  BY DEF QueueInv, NoSleeperBesideWork
<1>1. ASSUME NEW e \in Event, Push(e) PROVE Lanes!Next
  <2>1. CASE waiters # <<>>
    <3>1. queue = <<>> /\ queue' = <<>> /\ delivered' = Append(delivered, e)
      BY <1>0, <1>1, <2>1 DEF Push, Resolve
    <3>2. Lanes!HandOver(e)
      BY <3>1, NoLanes DEF Lanes!HandOver
    <3> QED  BY <3>2 DEF Lanes!Next
  <2>2. CASE waiters = <<>>
    <3> DEFINE S == pushed \cup {e}
    <3>1. Enqueue(e) /\ delivered' = delivered /\ queue \in Seq(S) /\ e \in S
      BY <1>0, <1>1, <2>2 DEF Push
    <3>2. \/ ~Internal(e) /\ queue' \in Seq(S) /\ Joins(queue, Externals(queue), e, queue')
          \/ Internal(e) /\ queue' \in Seq(S) /\ Joins(queue, Len(queue), e, queue')
      <4> HIDE DEF S
      <4> QED  BY <3>1, Appends, JoinsItsLane DEF Enqueue
    <3> HIDE DEF S
    <3>3. /\ ~Internal(e) => ExternalLane(queue') = Append(ExternalLane(queue), e)
                             /\ InternalLane(queue') = InternalLane(queue)
          /\ Internal(e) => ExternalLane(queue') = ExternalLane(queue)
                            /\ InternalLane(queue') = Append(InternalLane(queue), e)
      BY <3>1, <3>2, Accepts
    <3>4. Lanes!Accept(e)
      BY <3>1, <3>3 DEF Lanes!Accept, Internal
    <3> QED  BY <3>4 DEF Lanes!Next
  <2> QED  BY <2>1, <2>2
<1>2. CASE queue # <<>> /\ queue' = Tail(queue) /\ delivered' = Append(delivered, Head(queue))
  <2>1. CASE /\ ExternalLane(queue) # <<>> /\ Head(ExternalLane(queue)) = Head(queue)
             /\ ExternalLane(Tail(queue)) = Tail(ExternalLane(queue))
             /\ InternalLane(Tail(queue)) = InternalLane(queue)
    <3>1. Lanes!ServeExternal
      BY <1>2, <2>1 DEF Lanes!ServeExternal
    <3> QED  BY <3>1 DEF Lanes!Next
  <2>2. CASE /\ ExternalLane(queue) = <<>> /\ InternalLane(queue) # <<>>
             /\ Head(InternalLane(queue)) = Head(queue)
             /\ ExternalLane(Tail(queue)) = <<>>
             /\ InternalLane(Tail(queue)) = Tail(InternalLane(queue))
    <3>1. Lanes!ServeInternal
      BY <1>2, <2>2 DEF Lanes!ServeInternal
    <3> QED  BY <3>1 DEF Lanes!Next
  <2> QED  BY <1>0, <1>2, <2>1, <2>2, Serves
<1>3. CASE UNCHANGED <<queue, delivered>>
  <2> QED  BY <1>3 DEF Lanes!vars
<1>4. CASE queue' = <<>> /\ UNCHANGED delivered
  <2>1. Lanes!Discard
    BY <1>4, NoLanes DEF Lanes!Discard
  <2> QED  BY <2>1 DEF Lanes!Next
<1>5. ASSUME NEW c \in Caller, Pop(c) PROVE Lanes!Next \/ UNCHANGED Lanes!vars
  BY <1>2, <1>3, <1>5 DEF Pop, Resolve
<1>6. CASE TryPop
  BY <1>2, <1>6 DEF TryPop
<1>7. CASE Clear
  BY <1>4, <1>7 DEF Clear
<1>8. CASE Close \/ UNCHANGED vars
  BY <1>3, <1>8 DEF Close, vars
<1> QED  BY <1>1, <1>5, <1>6, <1>7, <1>8 DEF Next


-----------------------------------------------------------------------------


-----------------------------------------------------------------------------
(* Recursion over an interval.                                              *)

(* What holds of the first number and of each when of the one before, holds *)
(* of all.                                                                  *)
LEMMA UpFrom ==
    ASSUME NEW a \in Nat, NEW b \in Nat, NEW T, a \in T,
           \A i \in (a + 1)..b : i - 1 \in T => i \in T
    PROVE  a..b \subseteq T
<1> DEFINE U == {i \in a..b : i \notin T}
<1>1. U = {}
  <2> SUFFICES ASSUME U # {} PROVE FALSE
    OBVIOUS
  <2>1. U \subseteq Nat
    OBVIOUS
  <2>2. PICK i \in U : \A k \in U : i <= k
    <3> HIDE DEF U
    <3> QED  BY <2>1, Least
  <2>3. i \in a..b /\ i \notin T /\ i # a
    OBVIOUS
  <2>4. i \in (a + 1)..b /\ i - 1 \in a..b /\ ~ (i <= i - 1)
    BY <2>3
  <2>5. i - 1 \in T
    BY <2>2, <2>4
  <2> QED  BY <2>3, <2>4, <2>5
<1> QED  BY <1>1

(* The values a recursion goes through.                                     *)
Steps(a, b, s, F, g) ==
    g[a] = s /\ \A i \in (a + 1)..b : g[i] = F[<<i, g[i - 1]>>]

LEMMA Recursion ==
    ASSUME NEW a \in Nat, NEW b \in Nat, a <= b, NEW S, NEW s \in S,
           NEW F \in [((a + 1)..b) \X S -> S]
    PROVE  \E g \in [a..b -> S] : Steps(a, b, s, F, g)
<1> DEFINE T == {n \in a..b : \E g \in [a..n -> S] : Steps(a, n, s, F, g)}
<1>1. a \in T
  <2> DEFINE g == [i \in a..a |-> s]
  <2>1. g \in [a..a -> S] /\ g[a] = s /\ (a + 1)..a = {}
    OBVIOUS
  <2> HIDE DEF g
  <2>2. Steps(a, a, s, F, g)
    BY <2>1 DEF Steps
  <2> QED  BY <2>1, <2>2
<1>2. ASSUME NEW n \in (a + 1)..b, n - 1 \in T PROVE n \in T
  <2>1. PICK g \in [a..(n - 1) -> S] : Steps(a, n - 1, s, F, g)
    BY <1>2
  <2>2. n \in Nat /\ n - 1 \in a..(n - 1) /\ g[n - 1] \in S
          /\ <<n, g[n - 1]>> \in ((a + 1)..b) \X S
    OBVIOUS
  <2> DEFINE last == F[<<n, g[n - 1]>>]
             h == [i \in a..n |-> IF i = n THEN last ELSE g[i]]
  <2>3. last \in S
    BY <2>2
  <2> HIDE DEF last
  <2>4. \A i \in a..n : i = n \/ i \in a..(n - 1)
    BY <2>2
  <2>5. h \in [a..n -> S] /\ h[n] = last /\ \A i \in a..(n - 1) : h[i] = g[i]
    BY <2>2, <2>3, <2>4
  <2> HIDE DEF h
  <2>6. h[a] = s
    BY <2>1, <2>2, <2>5 DEF Steps
  <2>7. ASSUME NEW i \in (a + 1)..n PROVE h[i] = F[<<i, h[i - 1]>>]
    <3>1. i - 1 \in a..(n - 1)
      BY <2>2
    <3>2. CASE i = n
      BY <2>5, <3>1, <3>2 DEF last
    <3>3. CASE i # n
      <4>1. i \in (a + 1)..(n - 1) /\ i \in a..(n - 1)
        BY <3>3, <2>2
      <4> QED  BY <2>1, <2>5, <3>1, <4>1 DEF Steps
    <3> QED  BY <3>2, <3>3
  <2>8. Steps(a, n, s, F, h)
    BY <2>6, <2>7 DEF Steps
  <2> QED  BY <2>5, <2>8
<1>3. b \in T
  <2> HIDE DEF T
  <2>1. a..b \subseteq T
    BY <1>1, <1>2, UpFrom
  <2> QED  BY <2>1
<1> QED  BY <1>3

-----------------------------------------------------------------------------
(* Deadlines and acts.                                                      *)
WaitsT == [Waits!Key -> 0..Waits!Forever]

(* Two maps bind alike from t on.                                           *)
BindAlike(w, v, t) == \A k \in Waits!Key : (w[k] > t \/ v[k] > t) => w[k] = v[k]

LEMMA WaitsTyped == LastInstant \in Nat /\ Waits!Forever \in Nat /\ Waits!NoWaits \in WaitsT
  BY PartsConstants DEF Waits!WaitsConstants, Waits!Forever, Waits!NoWaits, WaitsT

LEMMA LiveIs ==
    ASSUME NEW w \in WaitsT, NEW t \in Nat
    PROVE  Waits!Live(w, t) \in WaitsT /\ BindAlike(Waits!Live(w, t), w, t)
  BY WaitsTyped DEF WaitsT, Waits!Live, BindAlike

LEMMA LiveAlike ==
    ASSUME NEW w \in WaitsT, NEW v \in WaitsT, NEW t \in Nat
    PROVE  (Waits!Live(w, t) = Waits!Live(v, t)) <=> BindAlike(w, v, t)
<1>1. \A k \in Waits!Key : w[k] \in Nat /\ v[k] \in Nat
  BY WaitsTyped DEF WaitsT
<1>2. \A k \in Waits!Key : /\ Waits!Live(w, t)[k] = IF w[k] > t THEN w[k] ELSE 0
                           /\ Waits!Live(v, t)[k] = IF v[k] > t THEN v[k] ELSE 0
  BY DEF Waits!Live
<1>3. ASSUME Waits!Live(w, t) = Waits!Live(v, t) PROVE BindAlike(w, v, t)
  BY <1>1, <1>2, <1>3 DEF BindAlike
<1>4. ASSUME BindAlike(w, v, t) PROVE Waits!Live(w, t) = Waits!Live(v, t)
  <2>1. \A k \in Waits!Key : (IF w[k] > t THEN w[k] ELSE 0) = (IF v[k] > t THEN v[k] ELSE 0)
    BY <1>1, <1>4 DEF BindAlike
  <2> QED  BY <2>1 DEF Waits!Live
<1> QED  BY <1>3, <1>4

LEMMA AlikeGoes ==
    ASSUME NEW w \in WaitsT, NEW v \in WaitsT, NEW u \in WaitsT,
           NEW t \in Nat, BindAlike(w, v, t)
    PROVE  /\ BindAlike(v, w, t) /\ (BindAlike(v, u, t) => BindAlike(w, u, t))
           /\ \A later \in Nat : later >= t => BindAlike(w, v, later)
<1>1. \A k \in Waits!Key : w[k] \in Nat /\ v[k] \in Nat /\ u[k] \in Nat
  BY WaitsTyped DEF WaitsT
<1> QED  BY <1>1 DEF BindAlike

LEMMA Reduced ==
    ASSUME NEW w \in WaitsT, NEW act \in Waits!Act
    PROVE  /\ Waits!Reduce(w, act) \in WaitsT
           /\ Waits!Reduce(Waits!Reduce(w, act), act) = Waits!Reduce(w, act)
<1>1. \A k \in Waits!Key : w[k] \in 0..Waits!Forever
  BY DEF WaitsT
<1>2. act.until \in 0..Waits!Forever
  BY DEF Waits!Act
<1>3. Waits!Reduce(w, act) \in WaitsT
  BY <1>1, <1>2, WaitsTyped DEF Waits!Reduce, WaitsT
<1>4. ASSUME NEW k \in Waits!Key
      PROVE  Waits!Reduce(Waits!Reduce(w, act), act)[k] = Waits!Reduce(w, act)[k]
  BY <1>1, <1>2, WaitsTyped DEF Waits!Reduce
<1>5. DOMAIN Waits!Reduce(Waits!Reduce(w, act), act) = Waits!Key
        /\ DOMAIN Waits!Reduce(w, act) = Waits!Key
  BY DEF Waits!Reduce
<1>6. Waits!Reduce(Waits!Reduce(w, act), act) \in WaitsT
  BY <1>1, <1>2, <1>3, WaitsTyped DEF Waits!Reduce, WaitsT
<1> QED  BY <1>3, <1>4, <1>6 DEF WaitsT

LEMMA ReduceAlike ==
    ASSUME NEW w \in WaitsT, NEW v \in WaitsT, NEW t \in Nat,
           NEW act \in Waits!Act, BindAlike(w, v, t)
    PROVE  BindAlike(Waits!Reduce(w, act), Waits!Reduce(v, act), t)
<1>1. \A k \in Waits!Key : w[k] \in Nat /\ v[k] \in Nat
  BY WaitsTyped DEF WaitsT
<1>2. act.until \in Nat
  BY WaitsTyped DEF Waits!Act
<1> QED  BY <1>1, <1>2 DEF Waits!Reduce, BindAlike

-----------------------------------------------------------------------------
(* Acts one after the other.                                                *)
Course(w, acts, g) ==
    /\ g \in [0..Len(acts) -> WaitsT]
    /\ g[0] = w /\ \A i \in 1..Len(acts) : g[i] = Waits!Reduce(g[i - 1], acts[i])

LEMMA CourseOf ==
    ASSUME NEW w \in WaitsT, NEW acts \in Seq(Waits!Act)
    PROVE  \E g : Course(w, acts, g) /\ Waits!ReduceAll(w, acts) = g[Len(acts)]
<1> DEFINE n == Len(acts)
           D(g) == g = [i \in 0..n |-> IF i = 0 THEN w ELSE Waits!Reduce(g[i - 1], acts[i])]
           f == CHOOSE g : D(g)
           F == [p \in ((0 + 1)..n) \X WaitsT |-> Waits!Reduce(p[2], acts[p[1]])]
<1>0. n \in Nat /\ 0 <= n
  OBVIOUS
<1>1. F \in [((0 + 1)..n) \X WaitsT -> WaitsT]
  <2>1. ASSUME NEW p \in ((0 + 1)..n) \X WaitsT PROVE Waits!Reduce(p[2], acts[p[1]]) \in WaitsT
    <3>1. p[1] \in 1..n /\ p[2] \in WaitsT
      BY <1>0
    <3>2. acts[p[1]] \in Waits!Act
      BY <3>1
    <3> QED  BY <3>1, <3>2, Reduced
  <2> QED  BY <2>1
<1>2. PICK g \in [0..n -> WaitsT] : Steps(0, n, w, F, g)
  <2> HIDE DEF F, n
  <2> QED  BY <1>0, <1>1, Recursion
<1>3. Course(w, acts, g)
  <2>1. ASSUME NEW i \in 1..n PROVE g[i] = Waits!Reduce(g[i - 1], acts[i])
    <3>1. i \in (0 + 1)..n /\ i - 1 \in 0..n
      BY <1>0
    <3>2. <<i, g[i - 1]>> \in ((0 + 1)..n) \X WaitsT
      BY <3>1
    <3> QED  BY <1>2, <3>1, <3>2 DEF Steps
  <2> QED  BY <1>2, <2>1 DEF Course, Steps
<1>4. D(g)
  <2>1. g = [i \in 0..n |-> g[i]]
    BY <1>3 DEF Course
  <2>2. \A i \in 0..n : g[i] = IF i = 0 THEN w ELSE Waits!Reduce(g[i - 1], acts[i])
    BY <1>0, <1>3 DEF Course
  <2> QED  BY <2>1, <2>2
<1>5. D(f)
  <2> HIDE DEF D
  <2> QED  BY <1>4
<1>6. Waits!ReduceAll(w, acts) = f[n]
  BY DEF Waits!ReduceAll
<1>7. \A i \in 0..n : f[i] = g[i]
  <2> HIDE DEF f
  <2> DEFINE T == {i \in 0..n : f[i] = g[i]}
  <2>1. 0 \in T
    BY <1>0, <1>4, <1>5
  <2>2. ASSUME NEW i \in (0 + 1)..n, i - 1 \in T PROVE i \in T
    BY <1>0, <1>4, <1>5, <2>2
  <2>3. 0..n \subseteq T
    <3> HIDE DEF T, n
    <3> QED  BY <1>0, <2>1, <2>2, UpFrom
  <2> QED  BY <2>3
<1>8. f[n] = g[n]
  <2> HIDE DEF f
  <2> QED  BY <1>0, <1>7
<1> QED  BY <1>3, <1>6, <1>8

LEMMA ReducesAll ==
    ASSUME NEW w \in WaitsT, NEW acts \in Seq(Waits!Act)
    PROVE  Waits!ReduceAll(w, acts) \in WaitsT /\ (acts = <<>> => Waits!ReduceAll(w, acts) = w)
<1>1. PICK g : Course(w, acts, g) /\ Waits!ReduceAll(w, acts) = g[Len(acts)]
  BY CourseOf
<1>2. Len(acts) \in 0..Len(acts) /\ (acts = <<>> => Len(acts) = 0)
  OBVIOUS
<1> QED  BY <1>1, <1>2 DEF Course

(* One more act after the others.                                           *)
LEMMA ReducesLast ==
    ASSUME NEW w \in WaitsT, NEW acts \in Seq(Waits!Act), NEW act \in Waits!Act
    PROVE  Waits!ReduceAll(w, Append(acts, act)) = Waits!Reduce(Waits!ReduceAll(w, acts), act)
<1> DEFINE n == Len(acts)
           more == Append(acts, act)
<1>0. n \in Nat /\ more \in Seq(Waits!Act) /\ Len(more) = n + 1 /\ more[n + 1] = act
      /\ \A i \in 1..n : more[i] = acts[i]
  OBVIOUS
<1>1. PICK g : Course(w, acts, g) /\ Waits!ReduceAll(w, acts) = g[n]
  BY CourseOf
<1>2. PICK h : Course(w, more, h) /\ Waits!ReduceAll(w, more) = h[n + 1]
  BY <1>0, CourseOf
<1> HIDE DEF n, more
<1>3. n = Len(acts)
  BY DEF n
<1> DEFINE T == {i \in 0..n : g[i] = h[i]}
<1>4. 0 \in T
  BY <1>0, <1>1, <1>2 DEF Course
<1>5. ASSUME NEW i \in (0 + 1)..n, i - 1 \in T PROVE i \in T
  <2>1. i \in 1..n /\ i \in 1..(n + 1) /\ i - 1 \in 0..n
    BY <1>0
  <2> QED  BY <1>0, <1>1, <1>2, <1>3, <1>5, <2>1 DEF Course
<1>6. n \in T
  <2>1. 0..n \subseteq T
    <3> HIDE DEF T
    <3> QED  BY <1>0, <1>4, <1>5, UpFrom
  <2> QED  BY <1>0, <2>1
<1>7. h[n + 1] = Waits!Reduce(h[n], act)
  <2>1. n + 1 \in 1..Len(more) /\ (n + 1) - 1 = n
    BY <1>0
  <2> QED  BY <1>0, <1>2, <2>1 DEF Course
<1> QED  BY <1>1, <1>2, <1>6, <1>7 DEF more

(* The first act before the others.                                         *)
LEMMA ReducesFirst ==
    ASSUME NEW w \in WaitsT, NEW acts \in Seq(Waits!Act), acts # <<>>
    PROVE  Waits!ReduceAll(w, acts) = Waits!ReduceAll(Waits!Reduce(w, Head(acts)), Tail(acts))
<1> DEFINE n == Len(acts)
           rest == Tail(acts)
           first == Head(acts)
<1>0. n \in Nat /\ n > 0 /\ rest \in Seq(Waits!Act) /\ Len(rest) = n - 1 /\ first = acts[1]
        /\ first \in Waits!Act
      /\ \A i \in 1..(n - 1) : rest[i] = acts[i + 1]
  OBVIOUS
<1>1. PICK g : Course(w, acts, g) /\ Waits!ReduceAll(w, acts) = g[n]
  BY CourseOf
<1>2. Waits!Reduce(w, first) \in WaitsT
  BY <1>0, Reduced
<1>3. PICK h : Course(Waits!Reduce(w, first), rest, h)
             /\ Waits!ReduceAll(Waits!Reduce(w, first), rest) = h[n - 1]
  BY <1>0, <1>2, CourseOf
<1> HIDE DEF n, rest, first
<1>4. n = Len(acts) /\ n - 1 \in Nat
  BY <1>0 DEF n
<1> DEFINE T == {i \in 0..(n - 1) : h[i] = g[i + 1]}
<1>5. 0 \in T
  <2>1. g[1] = Waits!Reduce(g[0], acts[1]) /\ g[0] = w /\ h[0] = Waits!Reduce(w, first)
    <3>1. 1 \in 1..Len(acts) /\ 1 - 1 = 0
      BY <1>0, <1>4
    <3> QED  BY <1>1, <1>3, <3>1 DEF Course
  <2> QED  BY <1>0, <1>4, <2>1
<1>6. ASSUME NEW i \in (0 + 1)..(n - 1), i - 1 \in T PROVE i \in T
  <2>1. i \in 1..(n - 1) /\ i + 1 \in 1..n /\ i \in 0..(n - 1) /\ (i + 1) - 1 = i
          /\ (i - 1) + 1 = i
    BY <1>0
  <2>2. h[i] = Waits!Reduce(h[i - 1], rest[i])
    BY <1>0, <1>3, <2>1 DEF Course
  <2>3. g[i + 1] = Waits!Reduce(g[i], acts[i + 1])
    BY <1>1, <1>4, <2>1 DEF Course
  <2>4. h[i - 1] = g[i]
    BY <1>6, <2>1
  <2> QED  BY <1>0, <2>1, <2>2, <2>3, <2>4
<1>7. n - 1 \in T
  <2>1. 0..(n - 1) \subseteq T
    <3> HIDE DEF T
    <3> QED  BY <1>4, <1>5, <1>6, UpFrom
  <2> QED  BY <1>4, <2>1
<1> QED  BY <1>0, <1>1, <1>3, <1>7 DEF first, rest

(* What binds alike goes on so.                                             *)
LEMMA AllAlike ==
    ASSUME NEW w \in WaitsT, NEW v \in WaitsT, NEW t \in Nat,
           NEW acts \in Seq(Waits!Act), BindAlike(w, v, t)
    PROVE  BindAlike(Waits!ReduceAll(w, acts), Waits!ReduceAll(v, acts), t)
<1> DEFINE n == Len(acts)
<1>0. n \in Nat
  OBVIOUS
<1>1. PICK g : Course(w, acts, g) /\ Waits!ReduceAll(w, acts) = g[n]
  BY CourseOf
<1>2. PICK h : Course(v, acts, h) /\ Waits!ReduceAll(v, acts) = h[n]
  BY CourseOf
<1> DEFINE T == {i \in 0..n : BindAlike(g[i], h[i], t)}
<1>3. 0 \in T
  BY <1>1, <1>2 DEF Course
<1>4. ASSUME NEW i \in (0 + 1)..n, i - 1 \in T PROVE i \in T
  <2>1. i \in 1..n /\ i - 1 \in 0..n /\ acts[i] \in Waits!Act
    BY <1>0
  <2>2. g[i - 1] \in WaitsT /\ h[i - 1] \in WaitsT /\ BindAlike(g[i - 1], h[i - 1], t)
    BY <1>1, <1>2, <1>4, <2>1 DEF Course
  <2>3. g[i] = Waits!Reduce(g[i - 1], acts[i]) /\ h[i] = Waits!Reduce(h[i - 1], acts[i])
    BY <1>1, <1>2, <2>1 DEF Course
  <2> QED  BY <2>1, <2>2, <2>3, ReduceAlike
<1>5. n \in T
  <2>1. 0..n \subseteq T
    <3> HIDE DEF T, n
    <3> QED  BY <1>0, <1>3, <1>4, UpFrom
  <2> QED  BY <1>0, <2>1
<1> QED  BY <1>1, <1>2, <1>5

-----------------------------------------------------------------------------
(* Replay.                                                                  *)
RecordT == [type : {"entry"}, payload : Waits!Act, through : {0}]
             \cup [type : {"checkpoint"}, payload : WaitsT, through : Nat]
LogOK(L) ==
    L \in Seq(RecordT) /\ \A i \in 1..Len(L) : L[i].type = "checkpoint" => L[i].through < i

LatestIn(L, n, c) == Waits!IsLatest(c, {i \in 1..n : L[i].type = "checkpoint"})
Covered(L, c) == IF c = 0 THEN 0 ELSE L[c].through
Start(L, c) == IF c = 0 THEN Waits!NoWaits ELSE L[c].payload
Goes(w, r) == IF r.type = "entry" THEN Waits!Reduce(w, r.payload) ELSE w

(* The values a replay of the first n records goes through.                 *)
Travel(L, c, n, g) ==
    /\ g \in [Covered(L, c)..n -> WaitsT]
    /\ g[Covered(L, c)] = Start(L, c)
    /\ \A i \in (Covered(L, c) + 1)..n : g[i] = Goes(g[i - 1], L[i])

(* Replay of a given log.                                                   *)
ReplayBy(L, c, n) ==
    LET covered == IF c = 0 THEN 0 ELSE L[c].through
        upTo[i \in covered..n] ==
            IF i = covered THEN (IF c = 0 THEN Waits!NoWaits ELSE L[c].payload)
            ELSE IF L[i].type = "entry" THEN Waits!Reduce(upTo[i - 1], L[i].payload)
            ELSE upTo[i - 1]
    IN  upTo[n]
ReplayOn(L, n) == ReplayBy(L, CHOOSE c \in 0..n : LatestIn(L, n, c), n)

LEMMA ReplayIs == \A n : Waits!Replay(n) = ReplayOn(log, n)
  BY DEF Waits!Replay, Waits!ReplayFrom, ReplayOn, ReplayBy, LatestIn, Waits!IdsOf

LEMMA RecordsAre ==
    ASSUME NEW L, LogOK(L), NEW i \in 1..Len(L)
    PROVE  /\ L[i] \in RecordT /\ L[i].type \in {"entry", "checkpoint"}
           /\ L[i].type = "entry" => L[i].payload \in Waits!Act
           /\ L[i].type = "checkpoint" => L[i].payload \in WaitsT /\ L[i].through \in Nat
                /\ L[i].through < i
<1>1. L[i] \in RecordT
  BY DEF LogOK
<1> QED  BY <1>1 DEF LogOK, RecordT

LEMMA HasLatest ==
    ASSUME NEW L, NEW n \in Nat
    PROVE  \E c \in 0..n : LatestIn(L, n, c)
<1> DEFINE T == {m \in 0..n : \E c \in 0..m : LatestIn(L, m, c)}
<1>1. 0 \in T
  BY DEF LatestIn, Waits!IsLatest
<1>2. ASSUME NEW m \in (0 + 1)..n, m - 1 \in T PROVE m \in T
  <2>1. PICK c \in 0..(m - 1) : LatestIn(L, m - 1, c)
    BY <1>2
  <2>2. CASE L[m].type = "checkpoint"
    <3>1. LatestIn(L, m, m) /\ m \in 0..m
      BY <2>2 DEF LatestIn, Waits!IsLatest
    <3> QED  BY <3>1
  <2>3. CASE L[m].type # "checkpoint"
    <3>1. {i \in 1..m : L[i].type = "checkpoint"} = {i \in 1..(m - 1) : L[i].type = "checkpoint"}
      BY <2>3
    <3>2. LatestIn(L, m, c) /\ c \in 0..m
      BY <2>1, <3>1 DEF LatestIn, Waits!IsLatest
    <3> QED  BY <3>2
  <2> QED  BY <2>2, <2>3
<1>3. n \in T
  <2>1. 0..n \subseteq T
    <3> HIDE DEF T
    <3> QED  BY <1>1, <1>2, UpFrom
  <2> QED  BY <2>1
<1> QED  BY <1>3

LEMMA OneLatest ==
    ASSUME NEW L, NEW n \in Nat, NEW c \in 0..n,
           NEW d \in 0..n, LatestIn(L, n, c), LatestIn(L, n, d)
    PROVE  c = d
  BY DEF LatestIn, Waits!IsLatest

LEMMA Covers ==
    ASSUME NEW L, LogOK(L), NEW n \in 0..Len(L), NEW c \in 0..n, LatestIn(L, n, c)
    PROVE  /\ Covered(L, c) \in 0..n /\ Covered(L, c) <= n /\ Start(L, c) \in WaitsT
           /\ c # 0 => Covered(L, c) < c
<1>1. CASE c = 0
  BY <1>1, WaitsTyped DEF Covered, Start, LogOK
<1>2. CASE c # 0
  <2>1. c \in 1..Len(L) /\ L[c].type = "checkpoint"
    BY <1>2 DEF LatestIn, Waits!IsLatest, LogOK
  <2> QED  BY <1>2, <2>1, RecordsAre DEF Covered, Start
<1> QED  BY <1>1, <1>2

LEMMA Travels ==
    ASSUME NEW L, LogOK(L), NEW n \in 0..Len(L), NEW c \in 0..n, LatestIn(L, n, c)
    PROVE  \E g : Travel(L, c, n, g) /\ ReplayOn(L, n) = g[n]
<1> DEFINE a == Covered(L, c)
           s == Start(L, c)
           D(g) == g = [i \in a..n |-> IF i = a THEN s
                                       ELSE IF L[i].type = "entry" THEN Waits!Reduce(g[i - 1], L[i].payload)
                                       ELSE g[i - 1]]
           f == CHOOSE g : D(g)
           F == [p \in ((a + 1)..n) \X WaitsT |-> Goes(p[2], L[p[1]])]
<1>0. a \in Nat /\ n \in Nat /\ a <= n /\ s \in WaitsT /\ n <= Len(L) /\ Len(L) \in Nat
  BY Covers DEF LogOK
<1>l. (CHOOSE d \in 0..n : LatestIn(L, n, d)) = c
  BY <1>0, OneLatest
<1> HIDE DEF s
<1>1. F \in [((a + 1)..n) \X WaitsT -> WaitsT]
  <2>1. ASSUME NEW p \in ((a + 1)..n) \X WaitsT PROVE Goes(p[2], L[p[1]]) \in WaitsT
    <3>1. p[1] \in 1..Len(L) /\ p[2] \in WaitsT
      BY <1>0
    <3> QED  BY <3>1, RecordsAre, Reduced DEF Goes
  <2> QED  BY <2>1
<1>2. PICK g \in [a..n -> WaitsT] : Steps(a, n, s, F, g)
  <2> HIDE DEF F, a
  <2> QED  BY <1>0, <1>1, Recursion
<1>3. Travel(L, c, n, g)
  <2>1. ASSUME NEW i \in (a + 1)..n PROVE g[i] = Goes(g[i - 1], L[i])
    <3>1. i - 1 \in a..n
      BY <1>0
    <3>2. <<i, g[i - 1]>> \in ((a + 1)..n) \X WaitsT
      BY <3>1
    <3> QED  BY <1>2, <3>2 DEF Steps
  <2> QED  BY <1>2, <2>1 DEF Travel, Steps, s
<1>4. D(g)
  <2>1. g = [i \in a..n |-> g[i]]
    OBVIOUS
  <2>2. ASSUME NEW i \in a..n
        PROVE  g[i] = IF i = a THEN s ELSE IF L[i].type = "entry" THEN Waits!Reduce(g[i - 1], L[i].payload) ELSE g[i - 1]
    <3>1. i # a => i \in (a + 1)..n
      BY <1>0
    <3> QED  BY <3>1, <1>3 DEF Travel, Goes, s
  <2> QED  BY <2>1, <2>2
<1>5. D(f)
  <2> HIDE DEF D
  <2> QED  BY <1>4
<1>6. ReplayOn(L, n) = f[n]
  <2>1. ReplayOn(L, n) = ReplayBy(L, c, n)
    <3> HIDE DEF f, F, a, D
    <3> QED  BY <1>l DEF ReplayOn
  <2>2. ReplayBy(L, c, n) = f[n]
    BY DEF ReplayBy, Covered, Start, s
  <2> QED  BY <2>1, <2>2
<1>7. \A i \in a..n : f[i] = g[i]
  <2> HIDE DEF f
  <2> DEFINE T == {i \in a..n : f[i] = g[i]}
  <2>1. a \in T
    BY <1>0, <1>4, <1>5
  <2>2. ASSUME NEW i \in (a + 1)..n, i - 1 \in T PROVE i \in T
    <3>1. i \in a..n /\ i # a /\ f[i - 1] = g[i - 1]
      BY <1>0, <2>2
    <3>2. f[i] = IF L[i].type = "entry" THEN Waits!Reduce(f[i - 1], L[i].payload) ELSE f[i - 1]
      BY <1>5, <3>1
    <3>3. g[i] = IF L[i].type = "entry" THEN Waits!Reduce(g[i - 1], L[i].payload) ELSE g[i - 1]
      BY <1>4, <3>1
    <3> QED  BY <3>1, <3>2, <3>3
  <2>3. a..n \subseteq T
    <3> HIDE DEF T, a
    <3> QED  BY <1>0, <2>1, <2>2, UpFrom
  <2> QED  BY <2>3
<1>8. f[n] = g[n]
  <2> HIDE DEF f
  <2> QED  BY <1>0, <1>7
<1> QED  BY <1>3, <1>6, <1>8

LEMMA Replayed ==
    ASSUME NEW L, LogOK(L), NEW n \in 0..Len(L)
    PROVE  ReplayOn(L, n) \in WaitsT
<1>0. n \in Nat
  BY DEF LogOK
<1>1. PICK c \in 0..n : LatestIn(L, n, c)
  BY <1>0, HasLatest
<1>2. PICK g : Travel(L, c, n, g) /\ ReplayOn(L, n) = g[n]
  BY <1>1, Travels
<1>3. n \in Covered(L, c)..n
  BY <1>0, <1>1, Covers
<1> QED  BY <1>2, <1>3 DEF Travel

(* Logs that begin alike replay alike so far.                               *)
LEMMA TravelAlike ==
    ASSUME NEW L, NEW M, LogOK(L), LogOK(M), NEW n \in 0..Len(L), n <= Len(M),
           \A i \in 1..n : L[i] = M[i],
           NEW c \in 0..n, LatestIn(L, n, c), NEW m \in Nat, m >= n, NEW g,
           NEW h, Travel(L, c, n, g), Travel(M, c, m, h)
    PROVE  g[n] = h[n] /\ Covered(L, c) = Covered(M, c)
<1> DEFINE a == Covered(L, c)
           T == {i \in a..n : g[i] = h[i]}
<1>0. a \in 0..n /\ a \in Nat /\ n \in Nat
  BY Covers DEF LogOK
<1>1. a = Covered(M, c) /\ Start(L, c) = Start(M, c)
  BY <1>0 DEF Covered, Start
<1>2. a \in T
  BY <1>0, <1>1 DEF Travel
<1>3. ASSUME NEW i \in (a + 1)..n, i - 1 \in T PROVE i \in T
  <2>1. i \in 1..n /\ i \in a..n /\ i \in (a + 1)..m /\ L[i] = M[i]
    BY <1>0
  <2>2. g[i] = Goes(g[i - 1], L[i])
    BY DEF Travel
  <2>3. h[i] = Goes(h[i - 1], M[i])
    BY <1>1, <2>1 DEF Travel
  <2> QED  BY <1>3, <2>1, <2>2, <2>3
<1>4. n \in T
  <2>1. a..n \subseteq T
    <3> HIDE DEF T, a
    <3> QED  BY <1>0, <1>2, <1>3, UpFrom
  <2> QED  BY <1>0, <2>1
<1> QED  BY <1>1, <1>4

LEMMA ReplayPrefix ==
    ASSUME NEW L, NEW M, LogOK(L), LogOK(M),
           NEW n \in 0..Len(L), n <= Len(M), \A i \in 1..n : L[i] = M[i]
    PROVE  ReplayOn(L, n) = ReplayOn(M, n)
<1>0. n \in Nat /\ n \in 0..Len(M)
  BY DEF LogOK
<1>1. PICK c \in 0..n : LatestIn(L, n, c)
  BY <1>0, HasLatest
<1>2. LatestIn(M, n, c)
  <2>1. {i \in 1..n : L[i].type = "checkpoint"} = {i \in 1..n : M[i].type = "checkpoint"}
    OBVIOUS
  <2> QED  BY <1>1, <2>1 DEF LatestIn
<1>3. PICK g : Travel(L, c, n, g) /\ ReplayOn(L, n) = g[n]
  BY <1>1, Travels
<1>4. PICK h : Travel(M, c, n, h) /\ ReplayOn(M, n) = h[n]
  BY <1>0, <1>1, <1>2, Travels
<1> QED  BY <1>0, <1>1, <1>3, <1>4, TravelAlike

LEMMA OneMore ==
    ASSUME NEW L, LogOK(L), NEW r \in RecordT, r.type = "checkpoint" => r.through <= Len(L)
    PROVE  /\ LogOK(Append(L, r)) /\ Len(Append(L, r)) = Len(L) + 1 /\ Len(L) \in Nat
           /\ \A i \in 1..Len(L) : Append(L, r)[i] = L[i]
           /\ Append(L, r)[Len(L) + 1] = r
<1>1. /\ Append(L, r) \in Seq(RecordT) /\ Len(Append(L, r)) = Len(L) + 1 /\ Len(L) \in Nat
      /\ \A i \in 1..Len(L) : Append(L, r)[i] = L[i]
      /\ Append(L, r)[Len(L) + 1] = r
  BY DEF LogOK
<1>2. ASSUME NEW i \in 1..(Len(L) + 1), Append(L, r)[i].type = "checkpoint"
      PROVE  Append(L, r)[i].through < i
  <2>1. CASE i \in 1..Len(L)
    BY <1>1, <1>2, <2>1 DEF LogOK
  <2>2. CASE i \notin 1..Len(L)
    <3>1. i = Len(L) + 1 /\ r.type = "checkpoint"
      BY <1>1, <1>2, <2>2
    <3>2. r.through \in Nat
      BY <3>1 DEF RecordT
    <3> QED  BY <1>1, <3>1, <3>2
  <2> QED  BY <2>1, <2>2
<1> QED  BY <1>1, <1>2 DEF LogOK

(* An entry more is one act more.                                           *)
LEMMA ReplayEntry ==
    ASSUME NEW L, LogOK(L), NEW r \in RecordT, r.type = "entry"
    PROVE  ReplayOn(Append(L, r), Len(L) + 1) = Waits!Reduce(ReplayOn(L, Len(L)), r.payload)
<1> DEFINE n == Len(L)
           M == Append(L, r)
<1>0. n \in Nat /\ n \in 0..n /\ LogOK(M) /\ Len(M) = n + 1 /\ n + 1 \in 0..Len(M)
      /\ M[n + 1] = r /\ \A i \in 1..n : L[i] = M[i]
  <2>1. r.type # "checkpoint"
    OBVIOUS
  <2> QED  BY <2>1, OneMore
<1> HIDE DEF M
<1>1. PICK c \in 0..n : LatestIn(L, n, c)
  BY <1>0, HasLatest
<1>2. LatestIn(M, n + 1, c) /\ c \in 0..(n + 1)
  <2>1. {i \in 1..(n + 1) : M[i].type = "checkpoint"} = {i \in 1..n : L[i].type = "checkpoint"}
    BY <1>0
  <2>2. LatestIn(M, n + 1, c)
    <3> HIDE DEF n
    <3> QED  BY <1>1, <2>1 DEF LatestIn
  <2> QED  BY <1>0, <2>2
<1>3. PICK g : Travel(L, c, n, g) /\ ReplayOn(L, n) = g[n]
  BY <1>0, <1>1, Travels
<1>4. PICK h : Travel(M, c, n + 1, h) /\ ReplayOn(M, n + 1) = h[n + 1]
  BY <1>0, <1>2, Travels
<1>5. g[n] = h[n] /\ Covered(L, c) = Covered(M, c)
  <2>1. n + 1 \in Nat /\ n + 1 >= n /\ n <= Len(M)
    BY <1>0
  <2> QED  BY <1>0, <1>1, <1>3, <1>4, <2>1, TravelAlike
<1>6. h[n + 1] = Goes(h[n], r)
  <2>1. Covered(M, c) \in 0..n
    BY <1>0, <1>1, <1>5, Covers
  <2>2. n + 1 \in (Covered(M, c) + 1)..(n + 1) /\ (n + 1) - 1 = n
    BY <1>0, <2>1
  <2> QED  BY <1>0, <1>4, <2>2 DEF Travel
<1> QED  BY <1>3, <1>4, <1>5, <1>6 DEF M, Goes

(* A checkpoint past every entry is what the log comes to.                  *)
LEMMA ReplayCheckpoint ==
    ASSUME NEW L, LogOK(L), NEW r \in RecordT, r.type = "checkpoint", r.through <= Len(L),
           \A i \in 1..Len(L) : L[i].type = "entry" => i <= r.through
    PROVE  ReplayOn(Append(L, r), Len(L) + 1) = r.payload
<1> DEFINE n == Len(L)
           M == Append(L, r)
           a == r.through
<1>0. n \in Nat /\ LogOK(M) /\ Len(M) = n + 1 /\ n + 1 \in 0..Len(M)
      /\ M[n + 1] = r /\ (\A i \in 1..n : L[i] = M[i]) /\ a \in Nat /\ a <= n
  <2>1. r.through \in Nat
    BY DEF RecordT
  <2> QED  BY <2>1, OneMore
<1> HIDE DEF M
<1>1. LatestIn(M, n + 1, n + 1) /\ Covered(M, n + 1) = a /\ Start(M, n + 1) = r.payload
  BY <1>0 DEF LatestIn, Waits!IsLatest, Covered, Start
<1>2. PICK h : Travel(M, n + 1, n + 1, h) /\ ReplayOn(M, n + 1) = h[n + 1]
  <2>1. n + 1 \in 0..(n + 1)
    BY <1>0
  <2> QED  BY <1>0, <1>1, <2>1, Travels
<1> DEFINE T == {i \in a..(n + 1) : h[i] = r.payload}
<1>3. a \in T
  BY <1>0, <1>1, <1>2 DEF Travel
<1>4. ASSUME NEW i \in (a + 1)..(n + 1), i - 1 \in T PROVE i \in T
  <2>1. M[i].type # "entry"
    <3>1. i = n + 1 \/ i \in 1..n
      BY <1>0
    <3> QED  BY <1>0, <3>1
  <2>2. h[i] = Goes(h[i - 1], M[i])
    BY <1>1, <1>2 DEF Travel
  <2> QED  BY <1>0, <1>4, <2>1, <2>2 DEF Goes
<1>5. n + 1 \in T
  <2>1. a..(n + 1) \subseteq T
    <3> HIDE DEF T, a
    <3>1. n + 1 \in Nat /\ a \in Nat
      BY <1>0
    <3> QED  BY <1>3, <1>4, <3>1, UpFrom
  <2> QED  BY <1>0, <2>1
<1> QED  BY <1>2, <1>5 DEF M

-----------------------------------------------------------------------------
(* What every step keeps.                                                   *)
Held ==
    /\ now \in 0..LastInstant
    /\ durable \in WaitsT /\ view \in WaitsT /\ pending \in Seq(Waits!Act)
    /\ unreadable \in BOOLEAN
    /\ waived \subseteq Agent \X (Model \cup {EveryModel})
    /\ phase \in {"opening", "idle", "acting", "flushing"}

Journal ==
    /\ LogOK(log)
    /\ visible \in 0..Len(log) /\ stable \in 0..Len(log) /\ lastEntryId \in 0..visible
    /\ needsReconcile \in BOOLEAN /\ needsReopen \in BOOLEAN
    /\ ~needsReopen => visible = Len(log)

(* The process has read what the journal holds.                             *)
HasRead == phase # "opening" /\ ~unreadable

PastEntries ==
    HasRead /\ Waits!Writable => \A i \in 1..visible : log[i].type = "entry" => i <= lastEntryId

(* The view is the reduction with the unrecorded acts; the reduction is the *)
(* journal's, but for a write in doubt, which the journal has already.      *)
ViewFollows == HasRead => BindAlike(view, Waits!ReduceAll(durable, pending), now)
DurableFollows ==
    HasRead =>
        \/ BindAlike(durable, ReplayOn(log, visible), now)
        \/ /\ needsReconcile /\ pending # <<>>
           /\ BindAlike(Waits!Reduce(durable, Head(pending)), ReplayOn(log, visible), now)

WaitsInv == Held /\ Journal /\ PastEntries /\ ViewFollows /\ DurableFollows

LEMMA WaitsTypes == WaitsInv => Waits!TypeOK
<1> SUFFICES ASSUME WaitsInv PROVE Waits!TypeOK
  OBVIOUS
<1>1. ASSUME NEW i \in 1..Len(log)
      PROVE  IF log[i].type = "entry" THEN log[i].payload \in Waits!Act
             ELSE log[i].payload \in [Waits!Key -> 0..Waits!Forever] /\ log[i].through < i
  BY RecordsAre DEF WaitsInv, Journal, WaitsT
<1> QED  BY <1>1 DEF WaitsInv, Held, Waits!TypeOK, WaitsT

LEMMA HeadTail ==
    ASSUME NEW acts \in Seq(Waits!Act), acts # <<>>
    PROVE  Head(acts) \in Waits!Act /\ Tail(acts) \in Seq(Waits!Act)
  OBVIOUS

LEMMA InvBinds == WaitsInv => Waits!BindsTheHistory
<1> SUFFICES ASSUME WaitsInv, HasRead
             PROVE  Waits!Live(view, now) = Waits!Live(Waits!ReduceAll(Waits!Replay(visible), pending), now)
  BY DEF Waits!BindsTheHistory, HasRead
<1> DEFINE w == ReplayOn(log, visible)
<1>0. /\ now \in Nat /\ durable \in WaitsT /\ view \in WaitsT /\ pending \in Seq(Waits!Act)
           /\ w \in WaitsT
      /\ Waits!Replay(visible) = w
  BY Replayed, ReplayIs, WaitsTyped DEF WaitsInv, Held, Journal
<1> HIDE DEF w
<1>1. Waits!ReduceAll(w, pending) \in WaitsT /\ Waits!ReduceAll(durable, pending) \in WaitsT
  BY <1>0, ReducesAll
<1>2. BindAlike(view, Waits!ReduceAll(durable, pending), now)
  BY DEF WaitsInv, ViewFollows
<1>3. BindAlike(Waits!ReduceAll(durable, pending), Waits!ReduceAll(w, pending), now)
  <2>1. CASE BindAlike(durable, w, now)
    BY <1>0, <2>1, AllAlike
  <2>2. CASE /\ pending # <<>>
             /\ BindAlike(Waits!Reduce(durable, Head(pending)), w, now)
    <3> DEFINE a == Head(pending)
               d == Waits!Reduce(durable, a)
    <3>1. a \in Waits!Act /\ Tail(pending) \in Seq(Waits!Act) /\ d \in WaitsT
            /\ Waits!Reduce(d, a) = d
      BY <1>0, <2>2, HeadTail, Reduced
    <3>2. Waits!ReduceAll(durable, pending) = Waits!ReduceAll(d, Tail(pending))
      BY <1>0, <2>2, ReducesFirst
    <3>3. Waits!ReduceAll(d, pending) = Waits!ReduceAll(Waits!Reduce(d, a), Tail(pending))
      BY <1>0, <2>2, <3>1, ReducesFirst
    <3>4. Waits!ReduceAll(d, pending) = Waits!ReduceAll(durable, pending)
      BY <3>1, <3>2, <3>3
    <3>5. BindAlike(Waits!ReduceAll(d, pending), Waits!ReduceAll(w, pending), now)
      BY <1>0, <2>2, <3>1, AllAlike
    <3> QED  BY <3>4, <3>5
  <2> QED  BY <2>1, <2>2 DEF WaitsInv, DurableFollows, w
<1>4. BindAlike(view, Waits!ReduceAll(w, pending), now)
  BY <1>0, <1>1, <1>2, <1>3, AlikeGoes
<1> QED  BY <1>0, <1>1, <1>4, LiveAlike

LEMMA WaitsInit == Waits!Init => WaitsInv
<1> SUFFICES ASSUME Waits!Init PROVE WaitsInv
  OBVIOUS
<1>1. LogOK(log) /\ Len(log) = 0
  BY DEF Waits!Init, Waits!JournalInit, LogOK
<1>2. pending \in Seq(Waits!Act)
  BY DEF Waits!Init
<1>3. Held
  <2>1. now \in 0..LastInstant
    BY WaitsTyped DEF Waits!Init
  <2>2. durable \in WaitsT /\ view \in WaitsT
    BY WaitsTyped DEF Waits!Init
  <2>3. unreadable \in BOOLEAN /\ phase \in {"opening", "idle", "acting", "flushing"}
    BY DEF Waits!Init
  <2>4. waived \subseteq Agent \X (Model \cup {EveryModel})
    BY DEF Waits!Init
  <2> QED  BY <1>2, <2>1, <2>2, <2>3, <2>4 DEF Held
<1>4. Journal
  <2>1. visible = 0 /\ stable = 0 /\ lastEntryId = 0
    BY DEF Waits!Init, Waits!JournalInit
  <2>2. needsReconcile \in BOOLEAN /\ needsReopen \in BOOLEAN
    BY DEF Waits!Init, Waits!JournalInit
  <2> QED  BY <1>1, <2>1, <2>2 DEF Journal
<1>5. ~HasRead
  BY DEF Waits!Init, HasRead
<1> QED  BY <1>3, <1>4, <1>5 DEF WaitsInv, PastEntries, ViewFollows, DurableFollows

-----------------------------------------------------------------------------
(* Reading.                                                                 *)
LEMMA LoadPositions ==
    ASSUME WaitsInv, NEW c \in 0..visible, Waits!Load(c)
    PROVE  /\ lastEntryId' \in 0..visible
           /\ \A i \in 1..visible : log[i].type = "entry" => i <= lastEntryId'
<1>0. visible \in 0..Len(log) /\ LatestIn(log, visible, c) /\ visible \in Nat /\ LogOK(log)
  BY DEF WaitsInv, Journal, Waits!Load, LatestIn, Waits!IdsOf, LogOK
<1> DEFINE a == Covered(log, c)
<1>1. a \in 0..visible
  BY <1>0, Covers
<1>2. Waits!TailOf(c) = {i \in 1..visible : log[i].type = "entry" /\ i > a}
  BY DEF Waits!TailOf, Waits!IdsOf, Covered
<1>3. CASE Waits!TailOf(c) = {}
  <2>1. lastEntryId' = a
    BY <1>3 DEF Waits!Load, Waits!Position, Covered
  <2> QED  BY <1>0, <1>1, <1>2, <1>3, <2>1
<1>4. CASE Waits!TailOf(c) # {}
  <2>1. PICK last \in Waits!TailOf(c) : Waits!IsLatest(last, Waits!TailOf(c))
               /\ lastEntryId' = last
    BY <1>4 DEF Waits!Load, Waits!Position
  <2> HIDE DEF a
  <2>2. \A i \in Waits!TailOf(c) : i <= last
    BY <1>4, <2>1 DEF Waits!IsLatest
  <2>3. last \in 1..visible /\ last > a
    BY <1>2, <2>1
  <2> QED  BY <1>0, <1>1, <1>2, <2>1, <2>2, <2>3
<1> QED  BY <1>3, <1>4

LEMMA ReadsOK ==
    ASSUME WaitsInv, Waits!Reads, UNCHANGED now, phase' \in {"idle", "acting", "flushing"}
    PROVE  WaitsInv'
<1>1. PICK c \in 0..visible : Waits!Load(c)
  BY DEF Waits!Reads
<1>2. UNCHANGED <<log, visible, stable, needsReopen, pending>> /\ needsReconcile' = FALSE
  BY <1>1 DEF Waits!Reads, Waits!Load, Waits!store
<1>3. durable' = ReplayOn(log, visible) /\ view' = Waits!ReduceAll(durable', pending)
  BY ReplayIs DEF Waits!Reads, Waits!Rebuilt
<1>4. durable' \in WaitsT /\ view' \in WaitsT
  <2>1. ReplayOn(log, visible) \in WaitsT /\ pending \in Seq(Waits!Act)
    BY Replayed DEF WaitsInv, Journal, Held
  <2> QED  BY <1>3, <2>1, ReducesAll
<1>5. Held'
  BY <1>2, <1>4 DEF Waits!Reads, WaitsInv, Held
<1>6. Journal' /\ PastEntries'
  BY <1>1, <1>2, LoadPositions DEF WaitsInv, Journal, PastEntries
<1>7. ViewFollows' /\ DurableFollows'
  BY <1>2, <1>3 DEF ViewFollows, DurableFollows, BindAlike
<1> QED  BY <1>5, <1>6, <1>7 DEF WaitsInv

LEMMA CannotReadOK ==
    ASSUME WaitsInv, Waits!CannotRead, UNCHANGED now, phase' \in {"idle", "acting", "flushing"}
    PROVE  WaitsInv'
<1>1. UNCHANGED <<log, visible, stable, needsReopen>> /\ needsReconcile' \in BOOLEAN
      /\ lastEntryId' \in 0..visible
  <2>1. CASE UNCHANGED <<Waits!store, Waits!journal>>
    BY <2>1 DEF Waits!store, Waits!journal, Waits!position, WaitsInv, Journal
  <2>2. CASE \E c \in 0..visible : Waits!Load(c)
    BY <2>2, LoadPositions DEF Waits!Load, Waits!store
  <2> QED  BY <2>1, <2>2 DEF Waits!CannotRead
<1>2. ~HasRead'
  BY DEF Waits!CannotRead, HasRead
<1>3. Held'
  BY DEF Waits!CannotRead, WaitsInv, Held
<1>4. Journal'
  BY <1>1 DEF WaitsInv, Journal
<1> QED  BY <1>2, <1>3, <1>4 DEF WaitsInv, PastEntries, ViewFollows, DurableFollows

-----------------------------------------------------------------------------
(* Deciding.                                                                *)
LEMMA DecidesOK ==
    ASSUME WaitsInv, Waits!Decides, waived' \subseteq Agent \X (Model \cup {EveryModel}),
           (\E act \in Waits!Act : Waits!Apply(act)) \/ UNCHANGED <<pending, view>>
    PROVE  WaitsInv'
<1>1. UNCHANGED <<log, visible, stable, lastEntryId, needsReconcile, needsReopen, now, durable, unreadable>>
      /\ HasRead' = HasRead /\ phase' = "flushing"
  BY DEF Waits!Decides, Waits!store, Waits!journal, Waits!position, HasRead
<1>2. Journal' /\ PastEntries'
  BY <1>1 DEF WaitsInv, Journal, PastEntries, Waits!Writable
<1>3. CASE UNCHANGED <<pending, view>>
  <2>1. Held' /\ ViewFollows' /\ DurableFollows'
    BY <1>1, <1>3 DEF WaitsInv, Held, ViewFollows, DurableFollows
  <2> QED  BY <1>2, <2>1 DEF WaitsInv
<1>4. ASSUME NEW act \in Waits!Act, Waits!Apply(act) PROVE WaitsInv'
  <2>0. /\ now \in Nat /\ durable \in WaitsT /\ view \in WaitsT /\ pending \in Seq(Waits!Act)
        /\ Waits!ReduceAll(durable, pending) \in WaitsT
    BY WaitsTyped, ReducesAll DEF WaitsInv, Held
  <2>1. pending' = Append(pending, act) /\ view' = Waits!Reduce(view, act)
    BY <1>4 DEF Waits!Apply
  <2>2. pending' \in Seq(Waits!Act) /\ pending' # <<>>
          /\ (pending # <<>> => Head(pending') = Head(pending))
    BY <2>0, <2>1
  <2>3. view' \in WaitsT
    BY <2>0, <2>1, Reduced
  <2>4. Held'
    BY <1>1, <2>2, <2>3 DEF WaitsInv, Held
  <2>5. Waits!ReduceAll(durable, pending') = Waits!Reduce(Waits!ReduceAll(durable, pending), act)
    BY <2>0, <2>1, ReducesLast
  <2>6. ViewFollows'
    BY <1>1, <2>0, <2>1, <2>5, ReduceAlike DEF WaitsInv, ViewFollows
  <2>7. DurableFollows'
    BY <1>1, <2>2 DEF WaitsInv, DurableFollows
  <2> QED  BY <1>2, <2>4, <2>6, <2>7 DEF WaitsInv
<1> QED  BY <1>3, <1>4

LEMMA SetOK ==
    ASSUME WaitsInv, NEW a \in Agent, NEW m \in Model, NEW d \in Stated, Waits!Set(a, m, d)
    PROVE  WaitsInv'
<1> DEFINE until == Waits!WaitDeadline(d, now)
           act == [kind |-> "set", agent |-> a, model |-> m, until |-> until]
<1>1. d \in Nat /\ now \in Nat /\ LastInstant \in Nat
  BY PartsConstants, WaitsTyped DEF Waits!WaitsConstants, WaitsInv, Held
<1>2. until \in 0..Waits!Forever
  BY <1>1 DEF Waits!WaitDeadline, Waits!Forever
<1>3. act \in Waits!Act
  BY <1>2 DEF Waits!Act
<1>4. Waits!Decides /\ UNCHANGED waived /\ (Waits!Apply(act) \/ UNCHANGED <<pending, view>>)
  BY DEF Waits!Set
<1>5. waived' \subseteq Agent \X (Model \cup {EveryModel})
  BY <1>4 DEF WaitsInv, Held
<1> HIDE DEF act
<1> QED  BY <1>3, <1>4, <1>5, DecidesOK

LEMMA ReleaseOK ==
    ASSUME WaitsInv, NEW a \in Agent,
           NEW target \in Model \cup {EveryModel}, Waits!Release(a, target)
    PROVE  WaitsInv'
<1> DEFINE act == [kind |-> "released", agent |-> a, model |-> target, until |-> 0]
<1>1. act \in Waits!Act
  BY WaitsTyped DEF Waits!Act
<1>2. Waits!Decides /\ (waived' = waived \/ waived' = waived \cup {<<a, target>>})
      /\ (Waits!Apply(act) \/ UNCHANGED <<pending, view>>)
  BY DEF Waits!Release
<1>3. waived' \subseteq Agent \X (Model \cup {EveryModel})
  BY <1>2 DEF WaitsInv, Held
<1> HIDE DEF act
<1> QED  BY <1>1, <1>2, <1>3, DecidesOK

-----------------------------------------------------------------------------
(* Flushing.                                                                *)

(* An entry the journal took, one in doubt and one out of sight.            *)
LEMMA FlushAppendsOK ==
    ASSUME WaitsInv, Waits!FlushAppends
    PROVE  WaitsInv'
<1> DEFINE act == Head(pending)
           entry == Waits!EntryRecord(act)
<1>0. /\ now \in Nat /\ durable \in WaitsT /\ view \in WaitsT /\ pending \in Seq(Waits!Act)
           /\ pending # <<>>
      /\ LogOK(log) /\ Len(log) \in Nat /\ visible \in 0..Len(log) /\ stable \in 0..Len(log)
      /\ lastEntryId \in 0..visible
  BY WaitsTyped DEF WaitsInv, Held, Journal, LogOK, Waits!FlushAppends
<1>1. act \in Waits!Act /\ Tail(pending) \in Seq(Waits!Act)
  BY <1>0, HeadTail
<1>2. entry \in RecordT /\ entry.type = "entry" /\ entry.type # "checkpoint"
        /\ entry.payload = act
  BY <1>1 DEF Waits!EntryRecord, RecordT
<1>3. UNCHANGED <<now, view, unreadable, waived>> /\ phase = "flushing"
        /\ phase' \in {"flushing", "idle"}
      /\ HasRead' = HasRead
  BY DEF Waits!FlushAppends, HasRead, Waits!FlushGoesOn, Waits!FlushOver
<1>4. Waits!Writable /\ visible = Len(log)
  BY DEF Waits!FlushAppends, Waits!Write, Waits!WriteThrows, Waits!WriteFails, Waits!Writable,
         WaitsInv, Journal
<1> DEFINE more == Append(log, entry)
<1>5. /\ LogOK(more) /\ Len(more) = Len(log) + 1 /\ more[Len(log) + 1] = entry
      /\ \A i \in 1..Len(log) : more[i] = log[i]
  <2> HIDE DEF entry
  <2> QED  BY <1>0, <1>2, OneMore
<1>6. ReplayOn(more, Len(log) + 1) = Waits!Reduce(ReplayOn(log, visible), act)
  <2> HIDE DEF entry, act
  <2> QED  BY <1>0, <1>2, <1>4, ReplayEntry
<1>7. ReplayOn(log, visible) \in WaitsT
  BY <1>0, Replayed
<1>8. HasRead => BindAlike(durable, ReplayOn(log, visible), now)
  BY <1>4 DEF WaitsInv, DurableFollows, Waits!Writable
<1>9. HasRead
        => BindAlike(Waits!Reduce(durable, act), Waits!Reduce(ReplayOn(log, visible), act), now)
  BY <1>0, <1>1, <1>7, <1>8, ReduceAlike
<1> HIDE DEF more, entry, act
<1>10. CASE Waits!Write(entry, FALSE, TRUE) /\ pending' = Tail(pending)
              /\ durable' = Waits!Reduce(durable, act)
  <2>1. /\ log' = more /\ visible' = Len(log) + 1 /\ stable' = Len(log) + 1
             /\ lastEntryId' = Len(log) + 1
        /\ UNCHANGED <<needsReconcile, needsReopen>>
    BY <1>2, <1>5, <1>10 DEF Waits!Write, Waits!Syncs, Waits!Advance, more
  <2>2. Held'
    BY <1>0, <1>1, <1>3, <1>10, Reduced DEF WaitsInv, Held
  <2>3. Journal' /\ PastEntries'
    BY <1>0, <1>4, <1>5, <2>1 DEF WaitsInv, Journal, PastEntries
  <2>4. Waits!ReduceAll(durable', pending') = Waits!ReduceAll(durable, pending)
    BY <1>0, <1>10, ReducesFirst DEF act
  <2>5. ViewFollows'
    BY <1>3, <2>4 DEF WaitsInv, ViewFollows
  <2>6. DurableFollows'
    BY <1>3, <1>6, <1>9, <1>10, <2>1 DEF DurableFollows
  <2> QED  BY <2>2, <2>3, <2>5, <2>6 DEF WaitsInv
<1>11. CASE Waits!WriteThrows(entry, FALSE) /\ UNCHANGED <<pending, durable>>
  <2>1. /\ log' \in {log, more} /\ stable' = stable /\ needsReopen' = TRUE
        /\ UNCHANGED <<visible, lastEntryId, needsReconcile>>
    BY <1>11 DEF Waits!WriteThrows, Waits!Syncs, Waits!position, more
  <2>2. Held' /\ ViewFollows'
    BY <1>3, <1>11 DEF WaitsInv, Held, ViewFollows
  <2>3. Journal' /\ PastEntries'
    BY <1>0, <1>5, <2>1 DEF WaitsInv, Journal, PastEntries, Waits!Writable
  <2>4. ReplayOn(log', visible') = ReplayOn(log, visible)
    <3>1. ReplayOn(more, visible) = ReplayOn(log, visible)
      BY <1>0, <1>4, <1>5, ReplayPrefix
    <3> QED  BY <2>1, <3>1
  <2>5. DurableFollows'
    BY <1>3, <1>8, <1>11, <2>4 DEF DurableFollows
  <2> QED  BY <2>2, <2>3, <2>5 DEF WaitsInv
<1>12. CASE Waits!WriteFails(entry, FALSE, TRUE) /\ UNCHANGED <<pending, durable>>
  <2>1. /\ log' = more /\ visible' = Len(log) + 1 /\ stable' = stable /\ needsReconcile' = TRUE
        /\ lastEntryId' \in {lastEntryId, Len(log) + 1} /\ UNCHANGED needsReopen
    BY <1>2, <1>5, <1>12 DEF Waits!WriteFails, Waits!Syncs, Waits!Advance, Waits!position, more
  <2>2. Held' /\ ViewFollows'
    BY <1>3, <1>12 DEF WaitsInv, Held, ViewFollows
  <2>3. Journal' /\ PastEntries'
    BY <1>0, <1>5, <2>1 DEF WaitsInv, Journal, PastEntries, Waits!Writable
  <2>4. DurableFollows'
    BY <1>0, <1>3, <1>6, <1>9, <1>12, <2>1 DEF DurableFollows, act
  <2> QED  BY <2>2, <2>3, <2>4 DEF WaitsInv
<1> QED  BY <1>10, <1>11, <1>12 DEF Waits!FlushAppends, entry, act

LEMMA FlushCheckpointsOK ==
    ASSUME WaitsInv, Waits!FlushCheckpoints
    PROVE  WaitsInv'
<1> DEFINE kept == Waits!Live(durable, now)
           record == Waits!CheckpointRecord(kept)
           more == Append(log, record)
<1>0. /\ now \in Nat /\ durable \in WaitsT /\ pending = <<>>
      /\ LogOK(log) /\ Len(log) \in Nat /\ visible \in 0..Len(log) /\ stable \in 0..Len(log)
      /\ lastEntryId \in 0..visible
  BY WaitsTyped DEF WaitsInv, Held, Journal, LogOK, Waits!FlushCheckpoints
<1>1. kept \in WaitsT /\ BindAlike(kept, durable, now)
  BY <1>0, LiveIs
<1>2. record \in RecordT /\ record.type = "checkpoint" /\ record.type # "entry"
        /\ record.payload = kept
      /\ record.through = lastEntryId
  <2> HIDE DEF kept
  <2> QED  BY <1>0, <1>1 DEF Waits!CheckpointRecord, RecordT
<1>3. UNCHANGED <<now, durable, pending, view, unreadable, waived>> /\ phase = "flushing"
        /\ phase' = "idle"
      /\ HasRead' = HasRead /\ HasRead
  BY DEF Waits!FlushCheckpoints, HasRead, Waits!FlushOver, Waits!process, Waits!CheckpointsDue
<1>4. Waits!Writable /\ visible = Len(log)
  BY DEF Waits!FlushCheckpoints, Waits!Write, Waits!WriteThrows, Waits!WriteFails,
         Waits!Writable, WaitsInv, Journal
<1>5. \A i \in 1..Len(log) : log[i].type = "entry" => i <= lastEntryId
  BY <1>3, <1>4 DEF WaitsInv, PastEntries
<1> HIDE DEF kept, record
<1>6. /\ LogOK(more) /\ Len(more) = Len(log) + 1 /\ more[Len(log) + 1] = record
      /\ \A i \in 1..Len(log) : more[i] = log[i]
  BY <1>0, <1>2, OneMore
<1>7. ReplayOn(more, Len(log) + 1) = kept
  <2>1. record.through <= Len(log) /\ \A i \in 1..Len(log) : log[i].type = "entry"
          => i <= record.through
    BY <1>0, <1>2, <1>5
  <2> QED  BY <1>0, <1>2, <2>1, ReplayCheckpoint
<1>8. BindAlike(durable, kept, now)
  BY <1>0, <1>1, AlikeGoes
<1>9. BindAlike(durable, ReplayOn(log, visible), now)
  BY <1>3, <1>4 DEF WaitsInv, DurableFollows, Waits!Writable
<1> HIDE DEF more
<1>10. Held' /\ ViewFollows'
  BY <1>3 DEF WaitsInv, Held, ViewFollows
<1>11. CASE Waits!Write(record, FALSE, TRUE) \/ Waits!WriteFails(record, FALSE, TRUE)
  <2>1. /\ log' = more /\ visible' = Len(log) + 1 /\ stable' \in {stable, Len(log) + 1}
        /\ lastEntryId' = lastEntryId /\ needsReconcile' \in BOOLEAN /\ UNCHANGED needsReopen
    <3>1. CASE Waits!Write(record, FALSE, TRUE)
      BY <1>2, <1>6, <3>1 DEF Waits!Write, Waits!Syncs, Waits!Advance, more, WaitsInv, Journal
    <3>2. CASE Waits!WriteFails(record, FALSE, TRUE)
      BY <1>2, <1>6, <3>2 DEF Waits!WriteFails, Waits!Syncs, Waits!Advance, Waits!position, more
    <3> QED  BY <1>11, <3>1, <3>2
  <2>2. Journal'
    BY <1>0, <1>4, <1>6, <2>1 DEF WaitsInv, Journal
  <2>3. PastEntries'
    BY <1>0, <1>2, <1>5, <1>6, <2>1 DEF PastEntries
  <2>4. DurableFollows'
    BY <1>3, <1>7, <1>8, <2>1 DEF DurableFollows
  <2> QED  BY <1>10, <2>2, <2>3, <2>4 DEF WaitsInv
<1>12. CASE Waits!WriteThrows(record, FALSE)
  <2>1. /\ log' \in {log, more} /\ stable' = stable /\ needsReopen' = TRUE
        /\ UNCHANGED <<visible, lastEntryId, needsReconcile>>
    BY <1>12 DEF Waits!WriteThrows, Waits!Syncs, Waits!position, more
  <2>2. Journal' /\ PastEntries'
    BY <1>0, <1>6, <2>1 DEF WaitsInv, Journal, PastEntries, Waits!Writable
  <2>3. ReplayOn(log', visible') = ReplayOn(log, visible)
    <3>1. ReplayOn(more, visible) = ReplayOn(log, visible)
      BY <1>0, <1>4, <1>6, ReplayPrefix
    <3> QED  BY <2>1, <3>1
  <2>4. DurableFollows'
    BY <1>3, <1>9, <2>3 DEF DurableFollows
  <2> QED  BY <1>10, <2>2, <2>4 DEF WaitsInv
<1> QED  BY <1>11, <1>12 DEF Waits!FlushCheckpoints, record, kept

-----------------------------------------------------------------------------
(* The clock, and the process's end.                                        *)
LEMMA WaitsTickOK ==
    ASSUME WaitsInv, Waits!Tick
    PROVE  WaitsInv'
<1>0. /\ now \in Nat /\ now' \in Nat /\ now' >= now /\ now' \in 0..LastInstant
      /\ durable \in WaitsT /\ view \in WaitsT /\ pending \in Seq(Waits!Act)
  BY WaitsTyped DEF WaitsInv, Held, Waits!Tick
<1>1. /\ UNCHANGED <<log, visible, stable, lastEntryId, needsReconcile, needsReopen>>
      /\ UNCHANGED <<durable, pending, view, unreadable, waived, phase>> /\ HasRead' = HasRead
  BY DEF Waits!Tick, Waits!store, Waits!journal, Waits!position, Waits!process, HasRead
<1>2. Held' /\ Journal' /\ PastEntries'
  BY <1>0, <1>1 DEF WaitsInv, Held, Journal, PastEntries, Waits!Writable
<1>3. /\ Waits!ReduceAll(durable, pending) \in WaitsT /\ ReplayOn(log, visible) \in WaitsT
      /\ pending # <<>> => Waits!Reduce(durable, Head(pending)) \in WaitsT
  BY <1>0, ReducesAll, Replayed, HeadTail, Reduced DEF WaitsInv, Journal
<1>4. ViewFollows'
  BY <1>0, <1>1, <1>3, AlikeGoes DEF WaitsInv, ViewFollows
<1>5. DurableFollows'
  BY <1>0, <1>1, <1>3, AlikeGoes DEF WaitsInv, DurableFollows
<1> QED  BY <1>2, <1>4, <1>5 DEF WaitsInv

LEMMA RestartsOK ==
    ASSUME WaitsInv, Waits!Restarts
    PROVE  WaitsInv'
<1>0. LogOK(log) /\ Len(log) \in Nat /\ stable \in 0..Len(log)
  BY DEF WaitsInv, Journal, LogOK
<1>1. PICK kept \in stable..Len(log) : log' = SubSeq(log, 1, kept)
  BY DEF Waits!Restarts, Waits!StoreReopens
<1>2. kept \in 0..Len(log) /\ stable <= kept
  BY <1>0, <1>1
<1>3. log' \in Seq(RecordT) /\ Len(log') = kept /\ \A i \in 1..kept : log'[i] = log[i]
  BY <1>0, <1>1, <1>2 DEF LogOK
<1>4. LogOK(log')
  BY <1>0, <1>2, <1>3 DEF LogOK
<1>5. visible' = kept /\ stable' = stable /\ lastEntryId' = 0
      /\ needsReconcile' \in BOOLEAN /\ needsReopen' \in BOOLEAN
  BY <1>3 DEF Waits!Restarts, Waits!StoreReopens, Waits!JournalOpens
<1>6. Journal'
  BY <1>0, <1>2, <1>3, <1>4, <1>5 DEF Journal
<1>7. ~HasRead'
  BY DEF Waits!Restarts, HasRead
<1>8. Held'
  <2>1. now' \in 0..LastInstant
    BY DEF Waits!Restarts, WaitsInv, Held
  <2>2. durable' \in WaitsT /\ view' \in WaitsT
    BY WaitsTyped DEF Waits!Restarts
  <2>3. pending' \in Seq(Waits!Act)
    BY DEF Waits!Restarts
  <2>4. unreadable' \in BOOLEAN /\ phase' \in {"opening", "idle", "acting", "flushing"}
    BY DEF Waits!Restarts
  <2>5. waived' \subseteq Agent \X (Model \cup {EveryModel})
    BY DEF Waits!Restarts
  <2> QED  BY <2>1, <2>2, <2>3, <2>4, <2>5 DEF Held
<1> QED  BY <1>6, <1>7, <1>8 DEF WaitsInv, PastEntries, ViewFollows, DurableFollows

LEMMA WaitsStep == WaitsInv /\ [Waits!Next]_(Waits!vars) => WaitsInv'
<1> SUFFICES ASSUME WaitsInv, [Waits!Next]_(Waits!vars) PROVE WaitsInv'
  OBVIOUS
<1>1. CASE Waits!Opens \/ Waits!ReadsAgain \/ Waits!Reconciles \/ Waits!FlushReconciles
  <2>1. UNCHANGED now /\ phase' \in {"idle", "acting", "flushing"}
          /\ (Waits!Reads \/ Waits!CannotRead)
    BY <1>1
       DEF Waits!Opens, Waits!ReadsAgain, Waits!Reconciles, Waits!FlushReconciles,
           Waits!FlushGoesOn, Waits!FlushOver
  <2> QED  BY <2>1, ReadsOK, CannotReadOK
<1>2. CASE \E a \in Agent, m \in Model, d \in Stated : Waits!Set(a, m, d)
  BY <1>2, SetOK
<1>3. CASE \E a \in Agent, target \in Model \cup {EveryModel} : Waits!Release(a, target)
  BY <1>3, ReleaseOK
<1>4. CASE Waits!OffersAgain
  <2>1. Waits!Decides /\ UNCHANGED <<pending, view>>
          /\ waived' \subseteq Agent \X (Model \cup {EveryModel})
    BY <1>4 DEF Waits!OffersAgain, WaitsInv, Held
  <2> QED  BY <2>1, DecidesOK
<1>5. CASE Waits!FlushStops
  <2>1. UNCHANGED <<log, visible, stable, lastEntryId, needsReconcile, needsReopen, now>>
        /\ UNCHANGED <<durable, pending, view, unreadable, waived>> /\ phase' = "idle"
             /\ HasRead' = HasRead
    BY <1>5
       DEF Waits!FlushStops, Waits!FlushOver, Waits!store, Waits!journal, Waits!position,
           Waits!process, HasRead
  <2> QED  BY <2>1
              DEF WaitsInv, Held, Journal, PastEntries, Waits!Writable, ViewFollows,
                  DurableFollows
<1>6. CASE UNCHANGED Waits!vars
  BY <1>6
     DEF Waits!vars, Waits!store, Waits!journal, Waits!position, Waits!process, WaitsInv, Held,
         Journal, PastEntries, Waits!Writable, ViewFollows, DurableFollows, HasRead
<1> QED  BY <1>1, <1>2, <1>3, <1>4, <1>5, <1>6, FlushAppendsOK, FlushCheckpointsOK, WaitsTickOK,
            RestartsOK DEF Waits!Next

-----------------------------------------------------------------------------
(* Of one call: what the emitter keeps of it, who heard what of it.         *)
Sent == {<<>>, <<"opening">>, <<"opening", "terminal">>}
Opened(c) == calls[c].opened

Heard(c) == \A o \in Observer : heard[o][c] \in Sent

(* Nothing is known of a call not made.                                     *)
Unmade(c) ==
    c \notin made =>
        /\ calls[c] = Calls!NoCall /\ c \notin running \cup results \cup scriptWaiters
        /\ \A o \in Observer : heard[o][c] = <<>> /\ <<o, c>> \notin steady

(* A call awaits its result or the handling of it, and a script that waits  *)
(* for it made it.                                                          *)
Whose(c) == ~(c \in running /\ c \in results) /\ (c \in scriptWaiters => c \in Script)

(* A call that was opened goes on, and whoever was told so on the transport *)
(* it has still heard that and no more.                                     *)
OpenedTo(c) ==
    /\ Opened(c) \in BOOLEAN
    /\ Opened(c) =>
          /\ Calls!Ongoing(c)
          /\ DOMAIN calls[c].openedTo \subseteq Observer
          /\ \A o \in DOMAIN calls[c].openedTo :
                /\ calls[c].openedTo[o] \in Nat /\ calls[c].openedTo[o] <= epoch[o]
                /\ calls[c].openedTo[o] = epoch[o] => heard[o][c] = <<"opening">>

(* Who could observe the call ever since is owed the terminal, or had it.   *)
Steady(c) ==
    \A o \in Observer : <<o, c>> \in steady =>
        IF Calls!Ongoing(c) THEN Opened(c)
          /\ o \in Calls!Owed(c) ELSE heard[o][c] = <<"opening", "terminal">>

CallOK(c) == Heard(c) /\ Unmade(c) /\ Whose(c) /\ OpenedTo(c) /\ Steady(c)

Typed ==
    /\ DOMAIN calls = Call /\ DOMAIN heard = Observer /\ epoch \in [Observer -> Nat]
         /\ DOMAIN allowed = Observer
    /\ steady \subseteq Observer \X Call

CallsInv == Typed /\ \A c \in Call : CallOK(c)

(* What is appended to what an observer heard.                              *)
LEMMA Pairs ==
    ASSUME NEW x, NEW y
    PROVE  /\ <<x>> \o <<y>> = <<x, y>>
           /\ <<x>> \o <<>> = <<x>> /\ <<>> \o <<x>> = <<x>>
           /\ <<x, y>> \o <<>> = <<x, y>> /\ <<>> \o <<x, y>> = <<x, y>>
<1>1. <<x>> \o <<y>> = <<x, y>>
  <2> DEFINE s == <<x>> \o <<y>>
             t == <<x, y>>
  <2>1. s \in Seq({x, y}) /\ Len(s) = 2
    OBVIOUS
  <2>2. t \in Seq({x, y}) /\ Len(t) = 2
    OBVIOUS
  <2>3. s[1] = x /\ s[2] = y
    OBVIOUS
  <2>4. \A i \in 1..2 : s[i] = t[i]
    BY <2>3
  <2> HIDE DEF s, t
  <2>5. s = t
    BY <2>1, <2>2, <2>4, SeqEqual
  <2> QED  BY <2>5 DEF s, t
<1>2. <<x>> \o <<>> = <<x>>
  OBVIOUS
<1>3. <<>> \o <<x>> = <<x>>
  OBVIOUS
<1>4. <<x, y>> \o <<>> = <<x, y>>
  OBVIOUS
<1>5. <<>> \o <<x, y>> = <<x, y>>
  OBVIOUS
<1> QED  BY <1>1, <1>2, <1>3, <1>4, <1>5

LEMMA Lengths == {<<>>, <<"opening">>, <<"opening", "terminal">>} \subseteq Sent
  BY DEF Sent

LEMMA HeardJoins ==
    /\ \A s \in Sent : s \o <<>> = s
    /\ <<"opening">> \o <<"terminal">> = <<"opening", "terminal">>
    /\ <<>> \o <<"opening">> = <<"opening">>
    /\ <<>> \o <<"opening", "terminal">> = <<"opening", "terminal">>
<1>1. <<>> \o <<>> = <<>>
  OBVIOUS
<1> QED  BY <1>1, Pairs, Zenon DEF Sent

LEMMA InvGivesTerminal == CallsInv => Calls!OneTerminal
<1> USE DEF CallOK, Heard, Unmade, Whose, OpenedTo, Steady, Opened
<1> SUFFICES ASSUME CallsInv PROVE Calls!OneTerminal
  OBVIOUS
<1>1. \A o \in Observer, c \in Call : heard[o][c] \in {<<>>, <<"opening">>, <<"opening", "terminal">>}
  BY Zenon DEF CallsInv, Sent
<1>2. ASSUME NEW x \in steady
      PROVE  Len(heard[x[1]][x[2]]) = IF Calls!Ongoing(x[2]) THEN 1 ELSE 2
  <2>1. PICK o \in Observer, c \in Call : x = <<o, c>>
    BY DEF CallsInv, Typed
  <2>2. IF Calls!Ongoing(c) THEN heard[o][c] = <<"opening">> ELSE heard[o][c] = <<"opening", "terminal">>
    BY <2>1 DEF CallsInv, Calls!Owed
  <2>3. x[1] = o /\ x[2] = c
    BY <2>1
  <2>4. Len(<<"opening">>) = 1 /\ Len(<<"opening", "terminal">>) = 2
    OBVIOUS
  <2> QED  BY <2>2, <2>3, <2>4
<1>3. \A c \in Call : Calls!Tracked(c) /\ calls[c].opened => Calls!Ongoing(c)
  BY DEF CallsInv
<1> QED  BY <1>1, <1>2, <1>3 DEF Calls!OneTerminal

LEMMA CallsInvInit == Calls!Init => CallsInv
<1> USE DEF CallOK, Heard, Unmade, Whose, OpenedTo, Steady, Opened
<1> SUFFICES ASSUME Calls!Init PROVE CallsInv
  OBVIOUS
<1>1. Typed
  BY DEF Calls!Init, Typed
<1>2. ASSUME NEW c \in Call PROVE CallOK(c)
  <2>1. \A o \in Observer : heard[o][c] = <<>> /\ <<o, c>> \notin steady
    BY DEF Calls!Init
  <2>2. calls[c] = Calls!NoCall /\ calls[c].opened = FALSE
    BY DEF Calls!Init, Calls!NoCall
  <2> QED  BY <2>1, <2>2, Lengths DEF Calls!Init
<1> QED  BY <1>1, <1>2 DEF CallsInv

(* A call none of whose places changes.                                     *)
SameCall(c) ==
    /\ calls'[c] = calls[c] /\ \A o \in Observer : heard'[o][c] = heard[o][c]
    /\ (c \in made)' = (c \in made) /\ (c \in running)' = (c \in running)
    /\ (c \in results)' = (c \in results) /\ (c \in scriptWaiters)' = (c \in scriptWaiters)
    /\ c \notin Script => (StreamOf[c] \in live)' = (StreamOf[c] \in live)
    /\ \A o \in Observer : (<<o, c>> \in steady)' = (<<o, c>> \in steady)

LEMMA SameCallOK ==
    ASSUME NEW c \in Call, CallOK(c), SameCall(c), UNCHANGED Calls!servers
    PROVE  CallOK(c)'
<1> USE DEF CallOK, Heard, Unmade, Whose, OpenedTo, Steady, Opened
<1>1. Calls!Ongoing(c)' = Calls!Ongoing(c)
  BY DEF SameCall, Calls!Ongoing
<1>2. Calls!Owed(c)' = Calls!Owed(c)
  BY DEF SameCall, Calls!Owed, Calls!servers
<1> QED  BY <1>1, <1>2 DEF SameCall, Calls!servers, Calls!Tracked

(* What telling observers of one call leaves alone.                        *)
LEMMA AddsTo ==
    ASSUME NEW c \in Call, NEW told, NEW what, heard' = Calls!Adds(told, c, what)
    PROVE  DOMAIN heard' = Observer /\ \A o \in Observer :
              /\ \A d \in Call \ {c} : heard'[o][d] = heard[o][d]
              /\ o \in told => heard'[o][c] = heard[o][c] \o what
              /\ o \notin told => heard'[o][c] = heard[o][c]
  BY DEF Calls!Adds

LEMMA AddsToOne ==
    ASSUME NEW c \in Call, NEW told, NEW what, heard' = Calls!Adds(told, c, what), NEW o \in Observer
    PROVE  heard'[o][c] = IF o \in told THEN heard[o][c] \o what ELSE heard[o][c]
  BY DEF Calls!Adds

(* A call just made, opened to some, refused, or thrown by its tool.        *)
LEMMA NewCall ==
    ASSUME CallsInv, NEW c \in Call, c \notin made, NEW t,
           made' = made \cup {c}, UNCHANGED Calls!servers,
           DOMAIN calls' = Call, DOMAIN heard' = Observer, steady' \subseteq Observer \X Call,
           \A d \in Call \ {c} : SameCall(d),
           ~(c \in running' /\ c \in results'), (c \in scriptWaiters' => c \in Script),
           \/ /\ \A o \in Observer : heard'[o][c] \in Sent /\ <<o, c>> \notin steady'
              /\ calls'[c] \in {Calls!NoCall, Calls!Unopened(t)}
           \/ /\ Calls!Ongoing(c)'
              /\ \E told \in SUBSET Calls!Sees(t) :
                    /\ calls'[c] = [opened |-> TRUE, tool |-> t, openedTo |-> [o \in told |-> epoch[o]]]
                    /\ \A o \in Observer : o \in told => heard'[o][c] = <<"opening">>
                    /\ \A o \in Observer : o \notin told => heard'[o][c] = <<>>
                    /\ \A o \in Observer : <<o, c>> \in steady' => o \in told
    PROVE  CallsInv'
<1> USE DEF CallOK, Heard, Unmade, Whose, OpenedTo, Steady, Opened
<1>0. c \in made' /\ epoch' = epoch /\ allowed' = allowed
  BY DEF Calls!servers
<1>1. Typed'
  BY DEF CallsInv, Typed, Calls!servers
<1>2. ASSUME NEW d \in Call, d # c PROVE CallOK(d)'
  BY <1>2, SameCallOK DEF CallsInv
<1>3. CallOK(c)'
  <2>1. CASE /\ \A o \in Observer : heard'[o][c] \in Sent /\ <<o, c>> \notin steady'
             /\ calls'[c] \in {Calls!NoCall, Calls!Unopened(t)}
    <3>1. [opened |-> FALSE].opened = FALSE /\ [opened |-> FALSE, tool |-> t].opened = FALSE
      OBVIOUS
    <3>2. calls'[c].opened = FALSE
      BY <2>1, <3>1 DEF Calls!NoCall, Calls!Unopened
    <3>3. OpenedTo(c)' /\ Steady(c)'
      BY <2>1, <3>2
    <3>4. Heard(c)'
      BY <2>1
    <3>5. Unmade(c)' /\ Whose(c)'
      BY <1>0
    <3> QED  BY <3>3, <3>4, <3>5
  <2>2. CASE /\ Calls!Ongoing(c)'
             /\ \E told \in SUBSET Calls!Sees(t) :
                   /\ calls'[c] = [opened |-> TRUE, tool |-> t, openedTo |-> [o \in told |-> epoch[o]]]
                   /\ \A o \in Observer : o \in told => heard'[o][c] = <<"opening">>
                   /\ \A o \in Observer : o \notin told => heard'[o][c] = <<>>
                   /\ \A o \in Observer : <<o, c>> \in steady' => o \in told
    <3>1. PICK told \in SUBSET Calls!Sees(t) :
             /\ calls'[c] = [opened |-> TRUE, tool |-> t, openedTo |-> [o \in told |-> epoch[o]]]
             /\ \A o \in Observer : o \in told => heard'[o][c] = <<"opening">>
             /\ \A o \in Observer : o \notin told => heard'[o][c] = <<>>
             /\ \A o \in Observer : <<o, c>> \in steady' => o \in told
      BY <2>2
    <3>2. told \subseteq Observer /\ \A o \in told : t \in allowed'[o]
      BY <1>0 DEF Calls!Sees
    <3>3. calls'[c].opened = TRUE /\ calls'[c].tool = t
            /\ calls'[c].openedTo = [o \in told |-> epoch[o]]
      BY <3>1
    <3>4. \A o \in told : epoch[o] \in Nat /\ epoch[o] <= epoch[o]
      BY <3>2 DEF CallsInv, Typed
    <3>5. OpenedTo(c)'
      BY <1>0, <2>2, <3>1, <3>2, <3>3, <3>4
    <3>6. Steady(c)'
      BY <1>0, <2>2, <3>1, <3>2, <3>3 DEF Calls!Owed
    <3>7. Heard(c)'
      BY <3>1 DEF Sent
    <3>8. Unmade(c)' /\ Whose(c)'
      BY <1>0
    <3> QED  BY <3>5, <3>6, <3>7, <3>8
  <2> QED  BY <2>1, <2>2
<1> QED  BY <1>1, <1>2, <1>3 DEF CallsInv


(* Some calls end: those that were opened are told of, and no others.       *)
LEMMA EndsCalls ==
    ASSUME CallsInv, NEW ended, Calls!Terminate(ended),
           UNCHANGED <<made, running, Calls!servers>>, results'
             \subseteq results, scriptWaiters' \subseteq scriptWaiters,
           \A d \in Call : d \in ended => ~Calls!Ongoing(d)',
           \A d \in Call : d \notin ended => (Opened(d) => Calls!Ongoing(d)')
             /\ (Calls!Ongoing(d)' => Calls!Ongoing(d))
    PROVE  CallsInv'
<1> USE DEF CallOK, Heard, Unmade, Whose, OpenedTo, Steady, Opened
<1> DEFINE owing == {x \in Observer \X ended : Opened(x[2]) /\ x[1] \in Calls!Owed(x[2])}
<1>0. PICK sent \in SUBSET owing :
         /\ calls' = [c \in Call |-> IF c \in ended THEN Calls!NoCall ELSE calls[c]]
         /\ heard' = [o \in Observer |-> [c \in Call |->
                heard[o][c] \o IF <<o, c>> \in sent THEN <<"terminal">> ELSE <<>>]]
         /\ steady' = steady \ (owing \ sent)
  BY DEF Calls!Terminate
<1>1. \A d \in Call : calls'[d] = IF d \in ended THEN Calls!NoCall ELSE calls[d]
  BY <1>0
<1>2. \A o \in Observer, d \in Call :
         heard'[o][d] = heard[o][d] \o IF <<o, d>> \in sent THEN <<"terminal">> ELSE <<>>
  BY <1>0
<1>3. Typed'
  BY <1>0 DEF CallsInv, Typed, Calls!servers
<1>6. \A o \in Observer, d \in Call :
         <<o, d>> \in owing <=> d \in ended /\ Opened(d) /\ o \in Calls!Owed(d)
  OBVIOUS
<1>7. \A o \in Observer, d \in Call :
         <<o, d>> \in sent => d \in ended /\ Opened(d) /\ o \in Calls!Owed(d)
  BY <1>6
<1>8. \A o \in Observer, d \in Call :
         <<o, d>> \in steady' <=> <<o, d>> \in steady /\ (<<o, d>> \in owing => <<o, d>> \in sent)
  BY <1>0
<1> HIDE DEF owing
<1>4. ASSUME NEW d \in Call, d \notin ended PROVE CallOK(d)'
  <2>1. CallOK(d)
    BY DEF CallsInv
  <2>2. calls'[d] = calls[d]
    BY <1>1, <1>4
  <2>3. \A o \in Observer : heard'[o][d] = heard[o][d]
    BY <1>2, <1>4, <1>7, <2>1, HeardJoins
  <2>4. Calls!Owed(d)' = Calls!Owed(d)
    BY <2>2 DEF Calls!Owed, Calls!servers
  <2>5. Heard(d)' /\ Unmade(d)' /\ Whose(d)'
    BY <1>8, <2>1, <2>2, <2>3
  <2>6. OpenedTo(d)'
    BY <1>4, <2>1, <2>2, <2>3 DEF Calls!servers
  <2>7. Steady(d)'
    BY <1>4, <1>8, <2>1, <2>2, <2>3, <2>4
  <2> QED  BY <2>5, <2>6, <2>7
<1>5. ASSUME NEW d \in Call, d \in ended PROVE CallOK(d)'
  <2>1. CallOK(d)
    BY DEF CallsInv
  <2>2. calls'[d] = Calls!NoCall /\ Opened(d)' = FALSE
    BY <1>1, <1>5 DEF Calls!NoCall
  <2>3. \A o \in Observer : Opened(d) /\ o \in Calls!Owed(d) => heard[o][d] = <<"opening">>
    BY <2>1 DEF Calls!Owed
  <2>4. \A o \in Observer : heard'[o][d] = IF <<o, d>> \in sent
                                           THEN <<"opening", "terminal">> ELSE heard[o][d]
    BY <1>2, <1>7, <2>1, <2>3, HeardJoins
  <2>5. Unmade(d)'
    <3>1. d \notin made => ~Opened(d)
      BY <2>1 DEF Calls!NoCall
    <3> QED  BY <1>7, <1>8, <2>1, <2>2, <2>4, <3>1
  <2>6. Heard(d)' /\ Whose(d)' /\ OpenedTo(d)'
    BY <2>1, <2>2, <2>4, Lengths
  <2>7. Steady(d)'
    BY <1>5, <1>6, <1>8, <2>1, <2>4
  <2> QED  BY <2>5, <2>6, <2>7
<1> QED  BY <1>3, <1>4, <1>5 DEF CallsInv

(* What runs, and who asked for it, but for one call.                       *)
SameWork(d) ==
    /\ (d \in made)' = (d \in made) /\ (d \in running)' = (d \in running)
    /\ (d \in results)' = (d \in results) /\ (d \in scriptWaiters)' = (d \in scriptWaiters)
    /\ d \notin Script => (StreamOf[d] \in live)' = (StreamOf[d] \in live)

LEMMA OpensOK ==
    ASSUME CallsInv, NEW c \in Call, c \notin made, NEW t, NEW told \in SUBSET Calls!Sees(t),
           Calls!Opens(c, t, told), made' = made \cup {c}, UNCHANGED Calls!servers,
           Calls!Ongoing(c)', ~(c \in running' /\ c \in results'), c \in scriptWaiters'
             => c \in Script,
           \A d \in Call \ {c} : SameWork(d)
    PROVE  CallsInv'
<1>1. calls[c] = Calls!NoCall /\ \A o \in Observer : heard[o][c] = <<>>
        /\ <<o, c>> \notin steady
  BY DEF CallsInv, CallOK, Unmade
<1>2. DOMAIN calls' = Call /\ \A d \in Call \ {c} : calls'[d] = calls[d]
  BY DEF Calls!Opens, CallsInv, Typed
<1>3. heard' = Calls!Adds(told, c, <<"opening">>) /\ DOMAIN heard' = Observer
  BY AddsTo DEF Calls!Opens
<1>4. \A o \in Observer : heard'[o][c] = IF o \in told THEN <<"opening">> ELSE <<>>
  <2>1. \A o \in Observer : /\ o \in told => heard'[o][c] = heard[o][c] \o <<"opening">>
                            /\ o \notin told => heard'[o][c] = heard[o][c]
    <3>1. heard' = Calls!Adds(told, c, <<"opening">>)
      BY <1>3
    <3> QED  BY <3>1 DEF Calls!Adds
  <2> QED  BY <1>1, <2>1, HeardJoins
<1>5. \A d \in Call \ {c} : SameCall(d)
  <2>1. \A o \in Observer, d \in Call \ {c} : heard'[o][d] = heard[o][d]
    BY <1>3, AddsTo
  <2>2. \A o \in Observer, d \in Call \ {c} : (<<o, d>> \in steady)' = (<<o, d>> \in steady)
    BY DEF Calls!Opens
  <2> QED  BY <1>2, <2>1, <2>2 DEF SameWork, SameCall
<1>6. steady' \subseteq Observer \X Call /\ \A o \in Observer : <<o, c>> \in steady'
        => o \in told
  BY <1>1 DEF Calls!Opens, Calls!Sees, CallsInv, Typed
<1>7. CASE told = {}
  <2>1. calls'[c] = Calls!NoCall
    BY <1>1, <1>7 DEF Calls!Opens
  <2>2. \A o \in Observer : heard'[o][c] \in Sent /\ <<o, c>> \notin steady'
    BY <1>4, <1>6, <1>7, Lengths
  <2> QED  BY <1>2, <1>3, <1>5, <1>6, <2>1, <2>2, NewCall
<1>8. CASE told # {}
  <2>1. calls'[c] = [opened |-> TRUE, tool |-> t, openedTo |-> [o \in told |-> epoch[o]]]
    BY <1>8 DEF Calls!Opens, CallsInv, Typed
  <2>2. \A o \in Observer : o \in told => heard'[o][c] = <<"opening">>
    BY <1>4
  <2>3. \A o \in Observer : o \notin told => heard'[o][c] = <<>>
    BY <1>4
  <2> QED  BY <1>2, <1>3, <1>5, <1>6, <2>1, <2>2, <2>3, NewCall
<1> QED  BY <1>7, <1>8

(* Nobody is told of the call.                                              *)
LEMMA UntoldOK ==
    ASSUME CallsInv, NEW c \in Call, c \notin made, NEW t,
           calls' = calls
             \/ calls' = [calls EXCEPT ![c] = Calls!Unopened(t)], UNCHANGED <<heard, steady, Calls!servers>>,
           made' = made \cup {c}, ~(c \in running' /\ c \in results'), c \in scriptWaiters'
             => c \in Script,
           \A d \in Call \ {c} : SameWork(d)
    PROVE  CallsInv'
<1>1. calls[c] = Calls!NoCall /\ \A o \in Observer : heard[o][c] = <<>>
        /\ <<o, c>> \notin steady
  BY DEF CallsInv, CallOK, Unmade
<1>2. /\ DOMAIN calls' = Call /\ calls'[c] \in {Calls!NoCall, Calls!Unopened(t)}
      /\ \A d \in Call \ {c} : calls'[d] = calls[d]
  BY <1>1 DEF CallsInv, Typed
<1>3. \A d \in Call \ {c} : SameCall(d)
  BY <1>2 DEF SameWork, SameCall
<1>4. \A o \in Observer : heard'[o][c] \in Sent /\ <<o, c>> \notin steady'
  BY <1>1, Lengths
<1>5. steady' \subseteq Observer \X Call /\ DOMAIN heard' = Observer
  BY DEF CallsInv, Typed
<1> QED  BY <1>2, <1>3, <1>4, <1>5, NewCall

LEMMA DispatchOK == ASSUME CallsInv, NEW c \in Call, NEW t, Calls!Dispatch(c, t) PROVE CallsInv'
<1>1. c \notin made /\ CallOK(c) /\ made' = made \cup {c}
        /\ UNCHANGED <<scriptWaiters, live, Calls!servers>>
  BY DEF Calls!Dispatch, CallsInv
<1>2. c \notin running \cup results \cup scriptWaiters /\ c \notin Script
        /\ StreamOf[c] \in live
  BY <1>1 DEF Calls!Dispatch, CallOK, Unmade
<1>3. CASE Calls!Runs(c, t) /\ Calls!AnyObserver
  <2>1. PICK told \in SUBSET Calls!Sees(t) : Calls!Opens(c, t, told)
    BY <1>3 DEF Calls!Runs
  <2>2. Calls!Ongoing(c)' /\ ~(c \in running' /\ c \in results') /\ c \notin scriptWaiters'
    BY <1>1, <1>2, <1>3 DEF Calls!Ongoing, Calls!Runs
  <2>3. \A d \in Call \ {c} : SameWork(d)
    BY <1>1, <1>3 DEF Calls!Runs, SameWork
  <2> QED  BY <1>1, <2>1, <2>2, <2>3, OpensOK
<1>4. CASE Calls!Runs(c, t) /\ ~Calls!AnyObserver
  <2>1. \A d \in Call \ {c} : SameWork(d)
    BY <1>1, <1>4 DEF Calls!Runs, SameWork
  <2> QED  BY <1>1, <1>2, <1>4, <2>1, UntoldOK DEF Calls!Runs, Calls!emitter
<1>5. CASE ~Calls!Runs(c, t)
  <2>1. /\ calls' = calls \/ calls' = [calls EXCEPT ![c] = Calls!Unopened(t)]
        /\ UNCHANGED <<heard, steady, running>> /\ results' \in {results, results \cup {c}}
    BY <1>5 DEF Calls!Dispatch, Calls!Refused, Calls!emitter
  <2>2. \A d \in Call \ {c} : SameWork(d)
    BY <1>1, <2>1 DEF SameWork
  <2> QED  BY <1>1, <1>2, <2>1, <2>2, UntoldOK
<1> QED  BY <1>3, <1>4, <1>5

LEMMA DispatchScriptOK ==
    ASSUME CallsInv, NEW c \in Call, NEW t, Calls!DispatchScript(c, t)
    PROVE  CallsInv'
<1> USE DEF CallOK, Heard, Unmade, Whose, OpenedTo, Steady, Opened
<1>1. c \in Script \ made /\ CallOK(c) /\ made' = made \cup {c}
        /\ UNCHANGED <<live, Calls!servers>>
  BY DEF Calls!DispatchScript, CallsInv
<1>2. calls[c] = Calls!NoCall /\ c \notin running \cup results \cup scriptWaiters
  BY <1>1
<1>3. \A o \in Observer : heard[o][c] = <<>> /\ <<o, c>> \notin steady
  BY <1>1
<1>4. CASE Calls!Runs(c, t) /\ scriptWaiters' = scriptWaiters \cup {c} /\ Calls!AnyObserver
  <2>1. PICK told \in SUBSET Calls!Sees(t) : Calls!Opens(c, t, told)
    BY <1>4 DEF Calls!Runs
  <2>2. Calls!Ongoing(c)' /\ ~(c \in running' /\ c \in results')
    BY <1>1, <1>2, <1>4 DEF Calls!Ongoing, Calls!Runs
  <2>3. \A d \in Call \ {c} : SameWork(d)
    BY <1>1, <1>4 DEF Calls!Runs, SameWork
  <2> QED  BY <1>1, <1>2, <1>3, <2>1, <2>2, <2>3, OpensOK
<1>5. CASE ((Calls!Runs(c, t) /\ ~Calls!AnyObserver) \/ Calls!Refused(c))
             /\ scriptWaiters' = scriptWaiters \cup {c}
  <2>1. UNCHANGED Calls!emitter /\ ~(c \in running' /\ c \in results')
          /\ \A d \in Call \ {c} : SameWork(d)
    BY <1>1, <1>2, <1>5 DEF Calls!Runs, Calls!Refused, SameWork
  <2> QED  BY <1>1, <1>2, <1>3, <2>1, UntoldOK DEF Calls!emitter
<1>6. CASE Calls!ScriptThrows(c, t)
  <2>1. PICK told \in SUBSET Calls!Sees(t), sent \in SUBSET Observer :
           heard' = [o \in Observer |-> [d \in Call |-> heard[o][d] \o
                       IF d # c \/ o \notin told THEN <<>>
                       ELSE IF o \in sent THEN <<"opening", "terminal">> ELSE <<"opening">>]]
    BY <1>6 DEF Calls!ScriptThrows, Calls!Sees
  <2>2. \A o \in Observer : heard'[o][c] \in Sent
    <3>1. \A o \in Observer :
             heard'[o][c] = heard[o][c] \o
                IF o \notin told THEN <<>>
                ELSE IF o \in sent THEN <<"opening", "terminal">> ELSE <<"opening">>
      BY <2>1
    <3> QED  BY <1>3, <3>1, HeardJoins, Lengths
  <2>3. \A o \in Observer, d \in Call \ {c} : heard'[o][d] = heard[o][d]
    <3>1. \A o \in Observer, d \in Call \ {c} : heard'[o][d] = heard[o][d] \o <<>>
      BY <2>1
    <3> QED  BY <3>1, HeardJoins DEF CallsInv
  <2>4. \A d \in Call \ {c} : SameCall(d)
    BY <1>1, <1>6, <2>3 DEF Calls!ScriptThrows, SameCall
  <2>5. /\ calls' = calls /\ steady' = steady /\ ~(c \in running' /\ c \in results')
        /\ DOMAIN heard' = Observer
    BY <1>2, <1>6, <2>1 DEF Calls!ScriptThrows
  <2> QED  BY <1>1, <1>2, <1>3, <2>2, <2>4, <2>5, NewCall DEF CallsInv, Typed
<1> QED  BY <1>4, <1>5, <1>6 DEF Calls!DispatchScript


LEMMA ReturnsOK == ASSUME CallsInv, NEW c \in Call, Calls!Returns(c) PROVE CallsInv'
<1> USE DEF CallOK, Heard, Unmade, Whose, OpenedTo, Steady, Opened
<1>1. UNCHANGED <<calls, heard, steady, made, scriptWaiters, live, epoch, allowed>>
  BY DEF Calls!Returns, Calls!emitter, Calls!servers
<1>2. ASSUME NEW d \in Call PROVE CallOK(d)'
  <2>1. CallOK(d) /\ CallOK(c)
    BY DEF CallsInv
  <2>2. Calls!Ongoing(d)' = Calls!Ongoing(d) /\ Calls!Owed(d)' = Calls!Owed(d)
    BY <1>1 DEF Calls!Returns, Calls!Ongoing, Calls!Owed
  <2>3. Unmade(d)' /\ Whose(d)'
    BY <1>1, <2>1 DEF Calls!Returns
  <2>4. Heard(d)' /\ OpenedTo(d)' /\ Steady(d)'
    BY <1>1, <2>1, <2>2
  <2> QED  BY <2>3, <2>4
<1> QED  BY <1>1, <1>2 DEF CallsInv, Typed

(* A call's result is handled, or its script's patience ends.               *)
LEMMA ResultEnds ==
    ASSUME CallsInv, NEW c \in Call, Calls!HandleResult(c) \/ Calls!SafetyFires(c)
    PROVE  CallsInv'
<1>1. UNCHANGED <<made, running, Calls!servers, live>> /\ Calls!Terminate({c})
  BY DEF Calls!HandleResult, Calls!SafetyFires
<1>2. results' \in {results, results \ {c}} /\ scriptWaiters' = scriptWaiters \ {c}
  BY DEF Calls!HandleResult, Calls!SafetyFires
<1>3. ~Calls!Ongoing(c)'
  <2>1. ~(c \in running /\ c \in results) /\ (c \in scriptWaiters => c \in Script)
    BY DEF CallsInv, CallOK, Whose
  <2>2. CASE Calls!HandleResult(c)
    BY <1>1, <2>1, <2>2 DEF Calls!HandleResult, Calls!Ongoing
  <2>3. CASE Calls!SafetyFires(c)
    BY <2>1, <2>3 DEF Calls!SafetyFires, Calls!Ongoing
  <2> QED  BY <2>2, <2>3
<1>4. \A d \in Call : d \notin {c} => (Opened(d) => Calls!Ongoing(d)')
        /\ (Calls!Ongoing(d)' => Calls!Ongoing(d))
  <2>1. ASSUME NEW d \in Call, d # c PROVE Calls!Ongoing(d)' = Calls!Ongoing(d)
    BY <1>1, <1>2, <2>1 DEF Calls!Ongoing
  <2> QED  BY <2>1 DEF CallsInv, CallOK, OpenedTo
<1> QED  BY <1>1, <1>2, <1>3, <1>4, EndsCalls

LEMMA StreamEndsOK == ASSUME CallsInv, NEW s, Calls!StreamEnds(s) PROVE CallsInv'
<1>1. UNCHANGED <<made, running, results, scriptWaiters, Calls!servers>> /\ live' = live \ {s}
        /\ Calls!Terminate(Calls!OfStream(s))
  BY DEF Calls!StreamEnds
<1>2. \A d \in Calls!OfStream(s) : ~Calls!Ongoing(d)'
  BY <1>1 DEF Calls!OfStream, Calls!Ongoing
<1>3. \A d \in Call : Calls!Ongoing(d)' => Calls!Ongoing(d)
  BY <1>1 DEF Calls!Ongoing
<1>4. ASSUME NEW d \in Call, d \notin Calls!OfStream(s), Opened(d) PROVE Calls!Ongoing(d)'
  <2>1. Calls!Ongoing(d)
    BY <1>4 DEF CallsInv, CallOK, OpenedTo
  <2>2. Calls!Tracked(d)
    BY <1>4 DEF Calls!Tracked, Calls!NoCall, Opened
  <2>3. d \in Script \/ StreamOf[d] # s
    BY <1>4, <2>2 DEF Calls!OfStream
  <2> QED  BY <1>1, <2>1, <2>3 DEF Calls!Ongoing
<1> QED  BY <1>1, <1>2, <1>3, <1>4, EndsCalls

LEMMA TransportEndsOK == ASSUME CallsInv, NEW o \in Observer, Calls!TransportEnds(o)
                         PROVE  CallsInv'
<1> USE DEF CallOK, Heard, Unmade, Whose, OpenedTo, Steady, Opened
<1>1. UNCHANGED <<calls, made, running, results, scriptWaiters, live>>
  BY DEF Calls!TransportEnds
<1>2. /\ epoch' = [epoch EXCEPT ![o] = @ + 1] /\ allowed' = [allowed EXCEPT ![o] = {}]
      /\ steady' = {x \in steady : x[1] # o}
  BY DEF Calls!TransportEnds
<1>3. Typed'
  BY <1>1, <1>2 DEF CallsInv, Typed, Calls!TransportEnds
<1>4. \A p \in Observer : p # o => epoch'[p] = epoch[p] /\ allowed'[p] = allowed[p]
  BY <1>2 DEF CallsInv, Typed
<1>5. epoch'[o] = epoch[o] + 1 /\ \A p \in Observer : epoch[p] \in Nat
  BY <1>2 DEF CallsInv, Typed
<1>6. \A p \in Observer, d \in Call : heard'[p][d] = IF p = o THEN <<>> ELSE heard[p][d]
  BY DEF Calls!TransportEnds, CallsInv, Typed
<1>7. ASSUME NEW d \in Call PROVE CallOK(d)'
  <2>1. CallOK(d)
    BY DEF CallsInv
  <2>2. Calls!Ongoing(d)' = Calls!Ongoing(d)
    BY <1>1 DEF Calls!Ongoing
  <2>3. Heard(d)' /\ Whose(d)'
    BY <1>1, <1>6, <2>1, Lengths
  <2>4. Unmade(d)'
    BY <1>1, <1>2, <1>6, <2>1
  <2>5. OpenedTo(d)'
    BY <1>1, <1>4, <1>5, <1>6, <2>1, <2>2
  <2>6. Steady(d)'
    <3>1. ASSUME NEW p \in Observer, <<p, d>> \in steady'
          PROVE  p # o /\ <<p, d>> \in steady
      BY <1>2, <3>1
    <3>2. \A p \in Observer : p # o /\ p \in Calls!Owed(d) => p \in Calls!Owed(d)'
      BY <1>1, <1>4 DEF Calls!Owed
    <3> QED  BY <1>1, <1>6, <2>1, <2>2, <3>1, <3>2
  <2> QED  BY <2>3, <2>4, <2>5, <2>6
<1> QED  BY <1>3, <1>7 DEF CallsInv

LEMMA GrantsOK ==
    ASSUME CallsInv, NEW o \in Observer, NEW tools, Calls!Grants(o, tools)
    PROVE  CallsInv'
<1> USE DEF CallOK, Heard, Unmade, Whose, OpenedTo, Steady, Opened
<1>1. UNCHANGED <<calls, made, running, results, scriptWaiters, live, epoch, heard>>
  BY DEF Calls!Grants
<1>2. allowed' = [allowed EXCEPT ![o] = tools]
  BY DEF Calls!Grants
<1>3. steady' = {x \in steady : x[1] = o /\ Calls!Tracked(x[2]) => calls[x[2]].tool \in tools}
  BY DEF Calls!Grants
<1>4. Typed'
  BY <1>1, <1>2, <1>3 DEF CallsInv, Typed
<1>5. allowed'[o] = tools /\ \A p \in Observer : p # o => allowed'[p] = allowed[p]
  BY <1>2 DEF CallsInv, Typed
<1>6. ASSUME NEW d \in Call PROVE CallOK(d)'
  <2>1. CallOK(d)
    BY DEF CallsInv
  <2>2. Calls!Ongoing(d)' = Calls!Ongoing(d)
    BY <1>1 DEF Calls!Ongoing
  <2>3. Heard(d)' /\ Whose(d)' /\ OpenedTo(d)'
    BY <1>1, <2>1, <2>2
  <2>4. Unmade(d)'
    BY <1>1, <1>3, <2>1
  <2>5. ASSUME NEW p \in Observer, <<p, d>> \in steady', Calls!Ongoing(d)'
        PROVE  Opened(d)' /\ p \in Calls!Owed(d)'
    <3>1. <<p, d>> \in steady /\ Opened(d) /\ p \in Calls!Owed(d)
      BY <1>3, <2>1, <2>2, <2>5
    <3>2. p = o => calls[d].tool \in tools
      <4>1. Calls!Tracked(d)
        BY <3>1 DEF Calls!Tracked, Calls!NoCall
      <4> QED  BY <1>3, <2>5, <4>1
    <3> QED  BY <1>1, <1>5, <3>1, <3>2 DEF Calls!Owed
  <2>6. Steady(d)'
    BY <1>1, <1>3, <2>1, <2>2, <2>5
  <2> QED  BY <2>3, <2>4, <2>6
<1> QED  BY <1>4, <1>6 DEF CallsInv

LEMMA CallsInvStep == CallsInv /\ [Calls!Next]_(Calls!vars) => CallsInv'
<1> SUFFICES ASSUME CallsInv, [Calls!Next]_(Calls!vars) PROVE CallsInv'
  OBVIOUS
<1>1. ASSUME NEW c \in Call, NEW t \in Tool, Calls!Dispatch(c, t) \/ Calls!DispatchScript(c, t)
      PROVE  CallsInv'
  BY <1>1, DispatchOK, DispatchScriptOK
<1>2. ASSUME NEW c \in Call, Calls!Returns(c) \/ Calls!HandleResult(c) \/ Calls!SafetyFires(c)
      PROVE  CallsInv'
  BY <1>2, ReturnsOK, ResultEnds
<1>3. ASSUME NEW s \in Stream, Calls!StreamEnds(s) PROVE CallsInv'
  BY <1>3, StreamEndsOK
<1>4. ASSUME NEW o \in Observer, Calls!TransportEnds(o)
               \/ \E tools \in SUBSET Tool : Calls!Grants(o, tools)
      PROVE  CallsInv'
  BY <1>4, TransportEndsOK, GrantsOK
<1>5. CASE UNCHANGED Calls!vars
  <2>1. \A c \in Call : SameCall(c)
    BY <1>5 DEF SameCall, Calls!vars
  <2>2. UNCHANGED Calls!servers
    BY <1>5 DEF Calls!vars, Calls!servers
  <2>3. \A c \in Call : CallOK(c)'
    BY <2>1, <2>2, SameCallOK DEF CallsInv
  <2> QED  BY <1>5, <2>3 DEF CallsInv, Typed, Calls!vars
<1> QED  BY <1>1, <1>2, <1>3, <1>4, <1>5 DEF Calls!Next


(* Where calls are: the emitter knows none that was not made.               *)
CallsPlaced ==
    /\ running \cup results \cup scriptWaiters \subseteq made
    /\ made \subseteq Call /\ scriptWaiters \subseteq Script /\ live \subseteq Stream
    /\ epoch \in [Observer -> 1..MaxEpochs] /\ allowed \in [Observer -> SUBSET Tool]

LEMMA CallsTyped == CallsInv /\ CallsPlaced => Calls!TypeOK
<1> SUFFICES ASSUME CallsInv, CallsPlaced PROVE Calls!TypeOK
  OBVIOUS
<1>1. ASSUME NEW c \in Call, Calls!Tracked(c) PROVE c \in made
  BY <1>1 DEF Calls!Tracked, CallsInv, CallOK, Unmade
<1>2. steady \subseteq Observer \X Call
  BY DEF CallsInv, Typed
<1> QED  BY <1>1, <1>2 DEF CallsPlaced, Calls!TypeOK

LEMMA CallsPlacedInit == Calls!Init => CallsPlaced
<1>1. 1 \in 1..MaxEpochs
  BY PartsConstants DEF Calls!LifecycleConstants
<1> QED  BY <1>1 DEF Calls!Init, CallsPlaced

LEMMA CallsPlacedStep == CallsPlaced /\ [Calls!Next]_(Calls!vars) => CallsPlaced'
<1> SUFFICES ASSUME CallsPlaced, [Calls!Next]_(Calls!vars) PROVE CallsPlaced'
  OBVIOUS
<1> USE DEF CallsPlaced
<1>1. ASSUME NEW c \in Call, NEW t \in Tool, Calls!Dispatch(c, t) \/ Calls!DispatchScript(c, t)
      PROVE  CallsPlaced'
  BY <1>1
     DEF Calls!Dispatch, Calls!DispatchScript, Calls!Runs, Calls!Refused, Calls!ScriptThrows,
         Calls!servers
<1>2. ASSUME NEW c \in Call, Calls!Returns(c) \/ Calls!HandleResult(c) \/ Calls!SafetyFires(c)
      PROVE  CallsPlaced'
  BY <1>2 DEF Calls!Returns, Calls!HandleResult, Calls!SafetyFires, Calls!servers
<1>3. ASSUME NEW s \in Stream, Calls!StreamEnds(s) PROVE CallsPlaced'
  BY <1>3 DEF Calls!StreamEnds, Calls!servers
<1>4. ASSUME NEW o \in Observer, Calls!TransportEnds(o) PROVE CallsPlaced'
  <2>1. epoch[o] + 1 \in 1..MaxEpochs
    BY <1>4, PartsConstants DEF Calls!TransportEnds, Calls!LifecycleConstants
  <2> QED  BY <1>4, <2>1 DEF Calls!TransportEnds
<1>5. ASSUME NEW o \in Observer, NEW tools \in SUBSET Tool, Calls!Grants(o, tools)
      PROVE  CallsPlaced'
  BY <1>5 DEF Calls!Grants
<1>6. CASE UNCHANGED Calls!vars
  BY <1>6 DEF Calls!vars
<1> QED  BY <1>1, <1>2, <1>3, <1>4, <1>5, <1>6 DEF Calls!Next

-----------------------------------------------------------------------------
(* A reminder's times, one for its retry after its own; what was not given  *)
(* out is not there; and what is over is before its reminder's next time.   *)
RemT == [fireAt : Beat!Time \cup {Beat!Never}, every : Every \cup {Beat!Never}, retryAt : Int]
GoodReminder(rem) ==
    /\ rem \in RemT
    /\ rem # Beat!NoReminder => /\ rem.fireAt \in Beat!Time
                                /\ rem.retryAt # Beat!Never => rem.retryAt >= rem.fireAt
Good(rems) == rems \in [Reminder -> RemT] /\ \A r \in Reminder : GoodReminder(rems[r])
Given(rems) == \A r \in Reminder : rems[r] # Beat!NoReminder => r \in used
Ahead(rems) ==
    \A o \in over : rems[o[1]] # Beat!NoReminder => o[2] < rems[o[1]].fireAt

(* What the process holds while it runs, and the file when it does not.     *)
Firing ==
    /\ firing => started
    /\ due # {} => firing
    /\ \A r \in due : state.reminders[r] # Beat!NoReminder /\ state.reminders[r].fireAt <= clock
OverIsPast == Ahead(IF started THEN state.reminders ELSE file.reminders)

BeatInv ==
    /\ Beat!TypeOK
    /\ Good(state.reminders) /\ Good(file.reminders)
    /\ Given(state.reminders) /\ Given(file.reminders)
    /\ \A o \in over : o[1] \in used
    /\ Firing /\ OverIsPast
    /\ alarm # Beat!NoTimer => alarm.due \in Nat
    /\ Beat!RemindersFire

LEMMA Nones == Beat!NoReminder \in RemT /\ Beat!NoTimer \in [due : Int, rings : Int]
        /\ Beat!NoReminders \in [Reminder -> RemT]
  BY DEF Beat!NoReminder, Beat!NoTimer, Beat!NoReminders, RemT, Beat!Never

LEMMA DueIsNat ==
    ASSUME LastTime \in Nat, NEW rem, GoodReminder(rem), rem # Beat!NoReminder
    PROVE  Beat!DueAt(rem) \in Nat /\ rem.fireAt \in Nat /\ rem.fireAt <= Beat!DueAt(rem)
  BY DEF GoodReminder, Beat!DueAt, RemT, Beat!Time, Beat!Never

(* The timer is set no later than any reminder asks.                        *)
LEMMA Armed ==
    ASSUME Beat!TypeOK, notBefore' \in Nat, NEW s, Good(s.reminders)
    PROVE  /\ Beat!ArmedReminders(s) \in [due : Int, rings : Int]
           /\ Beat!ArmedReminders(s) # Beat!NoTimer => Beat!ArmedReminders(s).due \in Nat
           /\ \A r \in Reminder : s.reminders[r] # Beat!NoReminder =>
                 /\ Beat!ArmedReminders(s) # Beat!NoTimer
                 /\ Beat!ArmedReminders(s).due <= Beat!Larger(Beat!DueAt(s.reminders[r]), notBefore')
<1> DEFINE at(r) == Beat!DueAt(s.reminders[r])
<1>0. LastTime \in Nat /\ MaxTimeout \in Nat /\ clock \in Nat
  BY PartsConstants DEF Beat!HeartbeatConstants, Beat!TypeOK, Beat!Time
<1>1. \A r \in Beat!Outstanding(s) : at(r) \in Nat
  <2>1. ASSUME NEW r \in Beat!Outstanding(s) PROVE at(r) \in Nat
    <3>1. r \in Reminder /\ s.reminders[r] # Beat!NoReminder
      BY DEF Beat!Outstanding
    <3>2. GoodReminder(s.reminders[r])
      BY <3>1 DEF Good
    <3> QED  BY <1>0, <3>1, <3>2, DueIsNat
  <2> QED  BY <2>1
<1>2. CASE Beat!Outstanding(s) = {}
  <2>1. Beat!ArmedReminders(s) = Beat!NoTimer
    BY <1>2 DEF Beat!ArmedReminders
  <2> QED  BY <1>2, <2>1, Nones DEF Beat!Outstanding
<1>3. CASE Beat!Outstanding(s) # {}
  <2>1. \E r \in Beat!Outstanding(s) : \A q \in Beat!Outstanding(s) : at(r) <= at(q)
    <3> DEFINE T == {at(r) : r \in Beat!Outstanding(s)}
    <3>1. T # {} /\ T \subseteq Nat
      BY <1>1, <1>3
    <3>2. PICK n \in T : \A k \in T : n <= k
      <4> HIDE DEF T
      <4> QED  BY <3>1, Least
    <3> QED  BY <3>2
  <2> DEFINE first == CHOOSE r \in Beat!Outstanding(s) : \A q \in Beat!Outstanding(s) : at(r) <= at(q)
  <2>2. first \in Beat!Outstanding(s) /\ \A q \in Beat!Outstanding(s) : at(first) <= at(q)
    BY <2>1
  <2>3. Beat!ArmedReminders(s) = Beat!CallAt(Beat!Larger(at(first), notBefore'))
    BY <1>3 DEF Beat!ArmedReminders
  <2> HIDE DEF first, at
  <2>4. Beat!Larger(at(first), notBefore') \in Nat
    BY <1>1, <2>2 DEF Beat!Larger
  <2>5. \A q \in Beat!Outstanding(s) : Beat!Larger(at(first), notBefore') <= Beat!Larger(at(q), notBefore')
    BY <1>1, <2>2 DEF Beat!Larger
  <2>6. \A x \in Nat : Beat!CallAt(x) \in [due : Int, rings : Int] /\ Beat!CallAt(x).due = x
          /\ Beat!CallAt(x) # Beat!NoTimer
    BY <1>0 DEF Beat!CallAt, Beat!Larger, Beat!NoTimer, Beat!Never
  <2> QED  BY <2>3, <2>4, <2>5, <2>6 DEF Beat!Outstanding, at
<1> QED  BY <1>2, <1>3


LEMMA Constants ==
    /\ \A i \in Interval : i \in Nat /\ i > 0
    /\ \A e \in Every : e \in Nat /\ e > 0
    /\ Grace \in Nat /\ Retry \in Nat /\ MaxTimeout \in Nat /\ LastTime \in Nat
         /\ MaxFaults \in Nat
    /\ Beat!Never = -1
  BY PartsConstants DEF Beat!HeartbeatConstants, Beat!Never

LEMMA DefaultsTyped == Beat!Defaults \in Beat!Settings
<1>1. \E i \in Interval : \A j \in Interval : i <= j
  <2>1. Interval \subseteq Nat /\ Interval # {}
    BY PartsConstants DEF Beat!HeartbeatConstants
  <2> QED  BY <2>1, Least
<1>2. (CHOOSE i \in Interval : \A j \in Interval : i <= j) \in Interval
  BY <1>1
<1> QED  BY <1>2, Constants DEF Beat!Defaults, Beat!Settings, Beat!NoReminders, Beat!NoReminder

LEMMA BeatInit == Beat!Init => BeatInv
<1> SUFFICES ASSUME Beat!Init PROVE BeatInv
  OBVIOUS
<1>1. Beat!TypeOK
  <2>1. clock \in Beat!Time /\ notBefore \in Nat /\ faults \in 0..MaxFaults
    BY Constants DEF Beat!Init, Beat!Time
  <2>2. state \in Beat!Settings /\ file \in Beat!Settings
          /\ Beat!NoTimer \in [due : Int, rings : Int]
    BY DefaultsTyped, Nones DEF Beat!Init
  <2> QED  BY <2>1, <2>2 DEF Beat!Init, Beat!TypeOK
<1>2. Good(Beat!NoReminders) /\ Given(Beat!NoReminders)
  BY Nones DEF Good, GoodReminder, Given, Beat!NoReminders
<1>3. Beat!Defaults.reminders = Beat!NoReminders
  BY DEF Beat!Defaults
<1>4. Firing /\ OverIsPast
  BY DEF Beat!Init, Firing, OverIsPast, Ahead
<1>5. Beat!RemindersFire
  BY DEF Beat!Init, Beat!RemindersFire, Beat!Kept, Beat!Timely
<1> QED  BY <1>1, <1>2, <1>3, <1>4, <1>5 DEF BeatInv, Beat!Init

(* A step that leaves the reminders, and what is over, alone.               *)
LEMMA NoneChange ==
    ASSUME BeatInv, Beat!TypeOK', state'.reminders = state.reminders, clock <= clock',
           UNCHANGED <<started, notBefore, unsaveable, firing, due, Beat!history>>,
           file'.reminders = file.reminders
             \/ (started /\ ~unsaveable /\ file'.reminders = state.reminders),
           alarm' = alarm
             \/ (alarm # Beat!NoTimer /\ alarm' # Beat!NoTimer /\ alarm'.due = alarm.due)
    PROVE  BeatInv'
<1>1. UNCHANGED <<used, owed, over, untimely>>
  BY DEF Beat!history
<1>2. Good(state.reminders)' /\ Good(file.reminders)' /\ Given(state.reminders)'
        /\ Given(file.reminders)'
  BY <1>1 DEF BeatInv, Good, GoodReminder, Given
<1>3. Firing' /\ OverIsPast'
  <2>1. clock \in Nat /\ clock' \in Nat /\ \A r \in due : state.reminders[r].fireAt \in Nat
    BY Constants, DueIsNat DEF BeatInv, Beat!TypeOK, Firing, Good, Beat!Time
  <2> QED  BY <1>1, <2>1 DEF BeatInv, Firing, OverIsPast, Ahead
<1>4. Beat!Kept'
  BY <1>1 DEF BeatInv, Beat!RemindersFire, Beat!Kept
<1>5. Beat!Timely'
  BY <1>1 DEF BeatInv, Beat!RemindersFire, Beat!Timely
<1> QED  BY <1>1, <1>2, <1>3, <1>4, <1>5 DEF BeatInv, Beat!RemindersFire


(* What a call that saves may do to the file.                               *)
LEMMA Saved ==
    ASSUME Beat!TypeOK, Beat!Save, state' \in Beat!Settings
    PROVE  /\ file' \in Beat!Settings /\ faults' \in 0..MaxFaults
           /\ file' = file \/ (~unsaveable' /\ file' = state')
  BY Constants DEF Beat!Save, Beat!Writes, Beat!Faulty, Beat!TypeOK

LEMMA RingsAt ==
    ASSUME Beat!TypeOK, NEW x \in Int
    PROVE  /\ Beat!CallAt(x) \in [due : Int, rings : Int] /\ Beat!CallAt(x).due = x
           /\ x # Beat!Never => Beat!CallAt(x) # Beat!NoTimer
  BY Constants DEF Beat!CallAt, Beat!Larger, Beat!TypeOK, Beat!Time, Beat!NoTimer

LEMMA TickArmed ==
    ASSUME Beat!TypeOK, notBefore' \in Nat, NEW s \in Beat!Settings
    PROVE  Beat!ArmedTick(s) \in [due : Int, rings : Int]
<1>1. Beat!Larger(s.next, notBefore') \in Int
  BY DEF Beat!Larger, Beat!Settings
<1> QED  BY <1>1, RingsAt, Nones DEF Beat!ArmedTick

LEMMA ConfigureOK ==
    ASSUME BeatInv, NEW paused \in BOOLEAN,
           NEW every \in Interval, Beat!Configure(paused, every)
    PROVE  BeatInv'
<1>1. /\ state' = [state EXCEPT !.paused = paused, !.every = every,
                              !.next = IF paused THEN Beat!Never ELSE clock + every]
      /\ UNCHANGED <<clock, started, notBefore, unsaveable, firing, due, alarm, Beat!history>>
      /\ started /\ Beat!Save /\ tick' = Beat!ArmedTick(state')
  BY DEF Beat!Configure, Beat!Changes, Beat!AtRest
<1>2. state' \in Beat!Settings /\ state'.reminders = state.reminders
  <2>1. clock \in Int /\ every \in Int /\ Beat!Never \in Int
    BY Constants DEF BeatInv, Beat!TypeOK, Beat!Time
  <2>2. state \in Beat!Settings
    BY DEF BeatInv, Beat!TypeOK
  <2>3. (IF paused THEN Beat!Never ELSE clock + every) \in Int
    BY <2>1
  <2> DEFINE next == IF paused THEN Beat!Never ELSE clock + every
  <2>4. state' = [state EXCEPT !.paused = paused, !.every = every, !.next = next]
          /\ next \in Int
    BY <1>1, <2>3
  <2> HIDE DEF next
  <2> QED  BY <2>2, <2>4 DEF Beat!Settings
<1>3. Beat!TypeOK'
  BY <1>1, <1>2, Saved, TickArmed DEF BeatInv, Beat!TypeOK, Beat!history
<1>4. file'.reminders = file.reminders
        \/ (started /\ ~unsaveable /\ file'.reminders = state.reminders)
  BY <1>1, <1>2, Saved DEF BeatInv
<1> QED  BY <1>1, <1>2, <1>3, <1>4, NoneChange DEF BeatInv, Beat!TypeOK, Beat!Time

LEMMA WaitsOnOK == ASSUME BeatInv, Beat!TickWaitsOn \/ Beat!AlarmWaitsOn PROVE BeatInv'
<1>1. UNCHANGED <<state, file, faults, Beat!history, clock, started, notBefore, unsaveable, firing, due>>
  BY DEF Beat!TickWaitsOn, Beat!AlarmWaitsOn, Beat!Changes
<1>2. tick.due \in Int /\ alarm.due \in Int /\ (alarm # Beat!NoTimer => alarm.due \in Nat)
  BY DEF BeatInv, Beat!TypeOK
<1>3. /\ tick' = tick \/ tick' = Beat!CallAt(tick.due)
      /\ alarm' = alarm \/ (alarm # Beat!NoTimer /\ alarm' = Beat!CallAt(alarm.due))
  BY DEF Beat!TickWaitsOn, Beat!AlarmWaitsOn, Beat!Rings
<1>4. Beat!TypeOK'
  BY <1>1, <1>2, <1>3, RingsAt DEF BeatInv, Beat!TypeOK, Beat!history
<1>5. alarm' = alarm
        \/ (alarm # Beat!NoTimer /\ alarm' # Beat!NoTimer /\ alarm'.due = alarm.due)
  BY <1>2, <1>3, RingsAt, Constants DEF BeatInv
<1> QED  BY <1>1, <1>4, <1>5, NoneChange DEF BeatInv, Beat!TypeOK, Beat!Time

LEMMA TickDueOK == ASSUME BeatInv, Beat!TickDue PROVE BeatInv'
<1>1. /\ UNCHANGED <<clock, started, notBefore, unsaveable, firing, due, alarm, Beat!history>>
      /\ started /\ tick' = Beat!ArmedTick(state')
      /\ \E t \in Int : state' = [state EXCEPT !.next = t]
  <2>1. clock + state.every \in Int /\ clock + Retry \in Int
    <3>1. clock \in Int /\ state.every \in Interval
      BY Constants DEF BeatInv, Beat!TypeOK, Beat!Time, Beat!Settings
    <3> QED  BY <3>1, Constants
  <2> QED  BY <2>1 DEF Beat!TickDue, Beat!Changes, Beat!Rings, Beat!AtRest
<1>2. state' \in Beat!Settings /\ state'.reminders = state.reminders
  BY <1>1 DEF BeatInv, Beat!TypeOK, Beat!Settings
<1>3. /\ file' \in Beat!Settings /\ faults' \in 0..MaxFaults
      /\ file' = file \/ (~unsaveable' /\ file' = state')
  <2>1. CASE Beat!Save
    BY <1>2, <2>1, Saved DEF BeatInv
  <2>2. CASE Beat!Faulty /\ file' = IF unsaveable THEN file ELSE state'
    BY <1>1, <1>2, <2>2, Constants DEF BeatInv, Beat!TypeOK, Beat!Faulty
  <2> QED  BY <2>1, <2>2 DEF Beat!TickDue
<1>4. Beat!TypeOK'
  BY <1>1, <1>2, <1>3, TickArmed DEF BeatInv, Beat!TypeOK, Beat!history
<1>5. file'.reminders = file.reminders
        \/ (started /\ ~unsaveable /\ file'.reminders = state.reminders)
  BY <1>1, <1>2, <1>3
<1> QED  BY <1>1, <1>2, <1>4, <1>5, NoneChange DEF BeatInv, Beat!TypeOK, Beat!Time

LEMMA PassesOK == ASSUME BeatInv, Beat!Passes PROVE BeatInv'
<1>1. clock' = clock + 1 /\ clock < LastTime /\ UNCHANGED <<started, notBefore, state, unsaveable, tick, alarm,
                                                      firing, due, file, faults, Beat!history>>
  BY DEF Beat!Passes
<1>2. clock' \in Beat!Time /\ clock <= clock'
  BY <1>1, Constants DEF BeatInv, Beat!TypeOK, Beat!Time
<1>3. Beat!TypeOK'
  BY <1>1, <1>2 DEF BeatInv, Beat!TypeOK, Beat!history
<1> QED  BY <1>1, <1>2, <1>3, NoneChange

LEMMA AlarmDueOK == ASSUME BeatInv, Beat!AlarmDue PROVE BeatInv'
<1>1. /\ firing' = TRUE /\ started /\ alarm' = Beat!NoTimer
      /\ due' = {r \in Beat!Outstanding(state) : Beat!DueAt(state.reminders[r]) <= clock}
      /\ UNCHANGED <<clock, started, notBefore, state, unsaveable, tick, file, faults,
                     used, owed, over, untimely>>
  BY DEF Beat!AlarmDue, Beat!Rings, Beat!AtRest, Beat!history
<1>2. Beat!TypeOK'
  BY <1>1, Nones DEF BeatInv, Beat!TypeOK, Beat!Outstanding
<1>3. Good(state.reminders)' /\ Good(file.reminders)' /\ Given(state.reminders)'
        /\ Given(file.reminders)'
  BY <1>1 DEF BeatInv, Good, GoodReminder, Given
<1>4. Firing'
  <2>1. ASSUME NEW r \in due'
        PROVE  state.reminders[r] # Beat!NoReminder /\ state.reminders[r].fireAt <= clock
    <3>1. r \in Reminder /\ state.reminders[r] # Beat!NoReminder
            /\ Beat!DueAt(state.reminders[r]) <= clock
      BY <1>1, <2>1 DEF Beat!Outstanding
    <3>2. GoodReminder(state.reminders[r])
      BY <3>1 DEF BeatInv, Good
    <3>3. Beat!DueAt(state.reminders[r]) \in Nat
            /\ state.reminders[r].fireAt <= Beat!DueAt(state.reminders[r])
      BY <3>1, <3>2, DueIsNat, Constants
    <3>4. state.reminders[r].fireAt \in Nat /\ clock \in Nat
      BY <3>1, <3>2, DueIsNat, Constants DEF BeatInv, Beat!TypeOK, Beat!Time
    <3> QED  BY <3>1, <3>3, <3>4
  <2> QED  BY <1>1, <2>1 DEF Firing
<1>5. OverIsPast' /\ Beat!Kept' /\ Beat!Timely'
  BY <1>1 DEF BeatInv, OverIsPast, Ahead, Beat!RemindersFire, Beat!Kept, Beat!Timely
<1> QED  BY <1>1, <1>2, <1>3, <1>4, <1>5 DEF BeatInv, Beat!RemindersFire


(* After a change of the reminders the file is what it was or what they are, *)
(* the timer is set anew, and whoever is owed is kept.                       *)
LEMMA Rearmed ==
    ASSUME Beat!TypeOK, Beat!RemindersFire, file' = file
             \/ file' = state', Good(state'.reminders),
           notBefore' \in Nat, alarm' = Beat!ArmedReminders(state'), untimely' = untimely,
           \A r \in owed' : r \in Reminder /\ (r \in owed \/ file' = state'),
           \A r \in owed' : ~unsaveable' => state'.reminders[r] # Beat!NoReminder,
           \A r \in owed' : file' = state' => state'.reminders[r] # Beat!NoReminder
    PROVE  Beat!RemindersFire' /\ alarm' \in [due : Int, rings : Int]
             /\ (alarm' # Beat!NoTimer => alarm'.due \in Nat)
<1>1. /\ alarm' \in [due : Int, rings : Int]
      /\ alarm' # Beat!NoTimer => alarm'.due \in Nat
      /\ \A r \in Reminder : state'.reminders[r] # Beat!NoReminder =>
            /\ alarm' # Beat!NoTimer
            /\ alarm'.due <= Beat!Larger(Beat!DueAt(state'.reminders[r]), notBefore')
  BY Armed
<1>2. \A r \in owed' : file'.reminders[r] # Beat!NoReminder
  BY DEF Beat!RemindersFire, Beat!Kept
<1>3. Beat!Timely'
  BY DEF Beat!RemindersFire, Beat!Timely
<1> QED  BY <1>1, <1>2, <1>3 DEF Beat!RemindersFire, Beat!Kept

LEMMA AddReminderOK ==
    ASSUME BeatInv, NEW r \in Reminder, NEW first \in Beat!Time,
           NEW every \in Every \cup {Beat!Never},
           Beat!AddReminder(r, first, every)
    PROVE  BeatInv'
<1> DEFINE rem == [fireAt |-> first, every |-> every, retryAt |-> Beat!Never]
<1>1. /\ r \notin used /\ started /\ ~firing /\ state' = [state EXCEPT !.reminders[r] = rem]
      /\ UNCHANGED <<clock, started, notBefore, unsaveable, firing, due, tick, over, untimely>>
      /\ Beat!Save /\ alarm' = Beat!ArmedReminders(state') /\ used' = used \cup {r}
      /\ owed' = IF file' = state' THEN owed \cup {r} ELSE owed
  BY DEF Beat!AddReminder, Beat!AtRest, Beat!Changes
<1>2. Beat!TypeOK /\ Good(state.reminders) /\ Good(file.reminders) /\ Given(state.reminders)
        /\ Given(file.reminders)
  BY DEF BeatInv
<1>3. GoodReminder(rem) /\ rem \in RemT /\ rem # Beat!NoReminder
  BY Constants DEF GoodReminder, RemT, Beat!NoReminder, Beat!Time
<1> HIDE DEF rem
<1>4. /\ state' \in Beat!Settings /\ state'.reminders[r] = rem
      /\ \A q \in Reminder \ {r} : state'.reminders[q] = state.reminders[q]
  <2>1. state \in Beat!Settings /\ state' = [state EXCEPT !.reminders[r] = rem]
    BY <1>1, <1>2 DEF Beat!TypeOK
  <2> QED  BY <1>3, <2>1 DEF Beat!Settings, RemT
<1>5. Good(state'.reminders)
  BY <1>2, <1>3, <1>4 DEF Good, Beat!Settings, RemT
<1>6. file' \in Beat!Settings /\ faults' \in 0..MaxFaults
        /\ (file' = file \/ (~unsaveable' /\ file' = state'))
  BY <1>1, <1>2, <1>4, Saved
<1>7. Beat!RemindersFire' /\ alarm' \in [due : Int, rings : Int]
        /\ (alarm' # Beat!NoTimer => alarm'.due \in Nat)
  <2>1. \A q \in owed : q \in used /\ q # r /\ q \in Reminder
    BY <1>1, <1>2 DEF Beat!TypeOK
  <2>2. \A q \in owed : ~unsaveable => state.reminders[q] # Beat!NoReminder
    BY <1>1 DEF BeatInv, Beat!RemindersFire, Beat!Kept
  <2>3. \A q \in owed' : q \in Reminder /\ (q \in owed \/ file' = state')
    BY <1>1, <2>1
  <2>4. \A q \in owed' : ~unsaveable' => state'.reminders[q] # Beat!NoReminder
    BY <1>1, <1>3, <1>4, <2>1, <2>2
  <2>5. file' = state' => ~unsaveable'
    <3>1. file.reminders[r] = Beat!NoReminder
      BY <1>1, <1>2 DEF Given
    <3>2. file' = file => file' # state'
      BY <1>3, <1>4, <3>1
    <3> QED  BY <1>6, <3>2
  <2> QED  BY <1>1, <1>2, <1>5, <1>6, <2>3, <2>4, <2>5, Rearmed DEF BeatInv, Beat!TypeOK
<1>8. Beat!TypeOK'
  BY <1>1, <1>2, <1>4, <1>6, <1>7 DEF Beat!TypeOK
<1>9. Good(file'.reminders) /\ Given(state.reminders)' /\ Given(file.reminders)'
  <2>1. Given(state.reminders)'
    BY <1>1, <1>2, <1>4 DEF Given
  <2> QED  BY <1>1, <1>2, <1>5, <1>6, <2>1 DEF Given
<1>10. Firing'
  BY <1>1 DEF BeatInv, Firing
<1>11. OverIsPast'
  <2>1. \A o \in over : o[1] \in Reminder /\ o[1] # r
    BY <1>1, <1>2 DEF BeatInv, Beat!TypeOK
  <2> QED  BY <1>1, <1>4, <2>1 DEF BeatInv, OverIsPast, Ahead
<1>12. \A o \in over' : o[1] \in used'
  BY <1>1 DEF BeatInv
<1>13. (Good(state.reminders) /\ Good(file.reminders))'
  BY <1>5, <1>9
<1> QED  BY <1>7, <1>8, <1>9, <1>10, <1>11, <1>12, <1>13 DEF BeatInv


LEMMA CancelReminderOK == ASSUME BeatInv, NEW r \in Reminder, Beat!CancelReminder(r)
                          PROVE  BeatInv'
<1>1. /\ started /\ ~firing /\ r \in Beat!Outstanding(state)
      /\ state' = [state EXCEPT !.reminders[r] = Beat!NoReminder]
      /\ UNCHANGED <<clock, started, notBefore, unsaveable, firing, due, tick, used, untimely>>
      /\ Beat!Save /\ alarm' = Beat!ArmedReminders(state')
      /\ owed' = owed \ {r} /\ over' = over \cup ({r} \X Beat!Time)
  BY DEF Beat!CancelReminder, Beat!AtRest, Beat!Changes
<1>2. Beat!TypeOK /\ Good(state.reminders) /\ Good(file.reminders) /\ Given(state.reminders)
        /\ Given(file.reminders)
  BY DEF BeatInv
<1>3. GoodReminder(Beat!NoReminder) /\ Beat!NoReminder \in RemT /\ r \in used
  BY <1>1, <1>2, Nones DEF GoodReminder, Given, Beat!Outstanding
<1>4. /\ state' \in Beat!Settings /\ state'.reminders[r] = Beat!NoReminder
      /\ \A q \in Reminder \ {r} : state'.reminders[q] = state.reminders[q]
  <2>1. state \in Beat!Settings /\ state' = [state EXCEPT !.reminders[r] = Beat!NoReminder]
    BY <1>1, <1>2 DEF Beat!TypeOK
  <2> QED  BY <1>3, <2>1 DEF Beat!Settings, RemT
<1>5. Good(state'.reminders)
  BY <1>2, <1>3, <1>4 DEF Good, Beat!Settings, RemT
<1>6. file' \in Beat!Settings /\ faults' \in 0..MaxFaults
        /\ (file' = file \/ (~unsaveable' /\ file' = state'))
  BY <1>1, <1>2, <1>4, Saved
<1>7. Beat!RemindersFire' /\ alarm' \in [due : Int, rings : Int]
        /\ (alarm' # Beat!NoTimer => alarm'.due \in Nat)
  <2>1. \A q \in owed' : q \in Reminder /\ q \in owed /\ q # r
    BY <1>1, <1>2 DEF Beat!TypeOK
  <2>2. \A q \in owed : ~unsaveable => state.reminders[q] # Beat!NoReminder
    BY <1>1 DEF BeatInv, Beat!RemindersFire, Beat!Kept
  <2>3. \A q \in owed' : ~unsaveable' => state'.reminders[q] # Beat!NoReminder
    BY <1>1, <1>4, <2>1, <2>2
  <2>4. \A q \in owed' : file' = state' => state'.reminders[q] # Beat!NoReminder
    <3>1. \A q \in owed : file.reminders[q] # Beat!NoReminder
      BY DEF BeatInv, Beat!RemindersFire, Beat!Kept
    <3> QED  BY <1>6, <2>1, <2>3, <3>1
  <2> QED  BY <1>1, <1>2, <1>5, <1>6, <2>1, <2>3, <2>4, Rearmed DEF BeatInv, Beat!TypeOK
<1>8. Beat!TypeOK'
  BY <1>1, <1>2, <1>4, <1>6, <1>7 DEF Beat!TypeOK
<1>9. Good(file'.reminders) /\ Given(state.reminders)' /\ Given(file.reminders)'
  <2>1. Given(state.reminders)'
    BY <1>1, <1>2, <1>4 DEF Given
  <2> QED  BY <1>1, <1>2, <1>5, <1>6, <2>1 DEF Given
<1>10. Firing'
  BY <1>1 DEF BeatInv, Firing
<1>11. OverIsPast'
  <2>1. \A o \in over' : o[1] \in Reminder /\ (o[1] # r => o \in over)
    BY <1>1, <1>2 DEF Beat!TypeOK
  <2> QED  BY <1>1, <1>4, <2>1 DEF BeatInv, OverIsPast, Ahead
<1>12. \A o \in over' : o[1] \in used'
  BY <1>1, <1>3 DEF BeatInv
<1>13. (Good(state.reminders) /\ Good(file.reminders))'
  BY <1>5, <1>9
<1> QED  BY <1>7, <1>8, <1>9, <1>10, <1>11, <1>12, <1>13 DEF BeatInv

LEMMA FiringEndsOK == ASSUME BeatInv, Beat!FiringEnds PROVE BeatInv'
<1>1. /\ firing /\ due = {} /\ firing' = FALSE /\ Beat!Save
           /\ alarm' = Beat!ArmedReminders(state')
      /\ UNCHANGED <<clock, started, notBefore, state, unsaveable, tick, due, used, owed, over, untimely>>
  BY DEF Beat!FiringEnds, Beat!history
<1>2. Beat!TypeOK /\ Good(state.reminders) /\ Good(file.reminders) /\ Given(state.reminders)
        /\ Given(file.reminders)
  BY DEF BeatInv
<1>3. file' \in Beat!Settings /\ faults' \in 0..MaxFaults
        /\ (file' = file \/ (~unsaveable' /\ file' = state'))
  BY <1>1, <1>2, Saved DEF Beat!TypeOK
<1>4. started
  BY <1>1 DEF BeatInv, Firing
<1>5. Beat!RemindersFire' /\ alarm' \in [due : Int, rings : Int]
        /\ (alarm' # Beat!NoTimer => alarm'.due \in Nat)
  <2>1. \A q \in owed' : q \in Reminder /\ q \in owed
    BY <1>1, <1>2 DEF Beat!TypeOK
  <2>2. \A q \in owed' : ~unsaveable' => state'.reminders[q] # Beat!NoReminder
    BY <1>1, <1>4 DEF BeatInv, Beat!RemindersFire, Beat!Kept
  <2>3. \A q \in owed' : file' = state' => state'.reminders[q] # Beat!NoReminder
    <3>1. \A q \in owed : file.reminders[q] # Beat!NoReminder
      BY DEF BeatInv, Beat!RemindersFire, Beat!Kept
    <3> QED  BY <1>3, <2>1, <2>2, <3>1
  <2> QED  BY <1>1, <1>2, <1>3, <2>1, <2>2, <2>3, Rearmed DEF BeatInv, Beat!TypeOK
<1>6. Beat!TypeOK'
  BY <1>1, <1>2, <1>3, <1>5 DEF Beat!TypeOK
<1>7. (Good(state.reminders) /\ Good(file.reminders) /\ Given(state.reminders)
        /\ Given(file.reminders))'
  BY <1>1, <1>2, <1>3 DEF Given
<1>8. Firing' /\ OverIsPast'
  BY <1>1, <1>4 DEF BeatInv, Firing, OverIsPast, Ahead
<1> QED  BY <1>1, <1>5, <1>6, <1>7, <1>8 DEF BeatInv

(* A reminder's next time comes after the one it was delivered for.         *)
LEMMA NextIsLater ==
    ASSUME clock \in Beat!Time, NEW rem, GoodReminder(rem), rem # Beat!NoReminder
    PROVE  /\ GoodReminder(Beat!AfterFire(rem))
           /\ Beat!AfterFire(rem) # Beat!NoReminder => Beat!AfterFire(rem).fireAt > rem.fireAt
<1> DEFINE kept == rem.fireAt + rem.every
           next == IF kept <= clock THEN clock + rem.every ELSE kept
<1>1. rem.fireAt \in Nat /\ clock \in Nat /\ rem \in RemT
  BY Constants DEF GoodReminder, Beat!Time
<1>2. CASE rem.every = Beat!Never \/ ~Beat!CanHoldTime(next)
  <2>1. Beat!AfterFire(rem) = Beat!NoReminder
    BY <1>2 DEF Beat!AfterFire
  <2> QED  BY <2>1, Nones DEF GoodReminder
<1>3. CASE rem.every # Beat!Never /\ Beat!CanHoldTime(next)
  <2>1. rem.every \in Nat /\ rem.every > 0
    BY <1>1, <1>3, Constants DEF RemT
  <2>2. next \in Beat!Time /\ next > rem.fireAt
    BY <1>1, <1>3, <2>1, Constants DEF Beat!CanHoldTime, Beat!Time
  <2>3. Beat!AfterFire(rem) = [rem EXCEPT !.fireAt = next, !.retryAt = Beat!Never]
    BY <1>3 DEF Beat!AfterFire
  <2> HIDE DEF next
  <2> DEFINE after == Beat!AfterFire(rem)
  <2>4. after = [rem EXCEPT !.fireAt = next, !.retryAt = Beat!Never]
    BY <2>3
  <2> HIDE DEF after
  <2>5. after \in RemT /\ after.fireAt = next /\ after.retryAt = Beat!Never
    <3>1. Beat!Never \in Int /\ next \in Beat!Time \cup {Beat!Never}
            /\ rem.every \in Every \cup {Beat!Never}
      BY <1>1, <2>2, Constants DEF RemT
    <3>2. after = [fireAt |-> next, every |-> rem.every, retryAt |-> Beat!Never]
      BY <1>1, <2>4 DEF RemT
    <3> QED  BY <3>1, <3>2 DEF RemT
  <2> QED  BY <1>1, <2>2, <2>5 DEF GoodReminder, after
<1> QED  BY <1>2, <1>3

LEMMA FireFirstOK == ASSUME BeatInv, NEW r \in Reminder, Beat!FireFirst(r) PROVE BeatInv'
<1> DEFINE rem == state.reminders[r]
           left == state'.reminders[r]
<1>1. /\ r \in due /\ due' = due \ {r}
      /\ Beat!Delivers(r) \/ Beat!DeliveryThrows(r)
      /\ UNCHANGED <<clock, started, notBefore, unsaveable, tick, alarm, firing, file, used>>
  BY DEF Beat!FireFirst, Beat!First, Beat!Delivers, Beat!DeliveryThrows, Beat!history
<1>2. Beat!TypeOK /\ Good(state.reminders) /\ Good(file.reminders) /\ Given(state.reminders)
        /\ Given(file.reminders)
  BY DEF BeatInv
<1>3. /\ firing /\ started /\ rem # Beat!NoReminder /\ rem.fireAt <= clock /\ GoodReminder(rem)
           /\ r \in used
      /\ rem.fireAt \in Nat /\ clock \in Nat /\ rem \in RemT
  <2>1. clock \in Nat
    BY <1>2, Constants DEF Beat!TypeOK, Beat!Time
  <2>2. /\ firing /\ started /\ rem # Beat!NoReminder /\ rem.fireAt <= clock
    BY <1>1 DEF BeatInv, Firing
  <2>3. GoodReminder(rem) /\ r \in used
    BY <1>2, <2>2 DEF Good, Given
  <2> QED  BY <2>1, <2>2, <2>3, DueIsNat, Constants DEF GoodReminder
<1>4. /\ state' \in Beat!Settings /\ GoodReminder(left)
      /\ \A q \in Reminder \ {r} : state'.reminders[q] = state.reminders[q]
      /\ left # Beat!NoReminder => left.fireAt >= rem.fireAt
      /\ left # Beat!NoReminder /\ Beat!Delivers(r) => left.fireAt > rem.fireAt
      /\ ~Beat!Delivers(r) => left # Beat!NoReminder
  <2>1. CASE Beat!Delivers(r)
    <3>1. state' = [state EXCEPT !.reminders[r] = Beat!AfterFire(rem)]
      BY <2>1 DEF Beat!Delivers
    <3>2. GoodReminder(Beat!AfterFire(rem))
            /\ (Beat!AfterFire(rem) # Beat!NoReminder
                 => Beat!AfterFire(rem).fireAt > rem.fireAt)
      BY <1>2, <1>3, NextIsLater DEF Beat!TypeOK
    <3>3. Beat!AfterFire(rem) \in RemT /\ state \in Beat!Settings
      BY <1>2, <3>2 DEF GoodReminder, Beat!TypeOK
    <3>4. /\ state' \in Beat!Settings /\ left = Beat!AfterFire(rem)
          /\ \A q \in Reminder \ {r} : state'.reminders[q] = state.reminders[q]
      BY <3>1, <3>3 DEF Beat!Settings, RemT
    <3>5. Beat!AfterFire(rem) # Beat!NoReminder => Beat!AfterFire(rem).fireAt \in Nat
      BY <3>2, DueIsNat, Constants
    <3> QED  BY <1>3, <2>1, <3>2, <3>4, <3>5
  <2>2. CASE Beat!DeliveryThrows(r) /\ ~Beat!Delivers(r)
    <3>1. state' = [state EXCEPT !.reminders[r].retryAt = clock + Retry]
            /\ state \in Beat!Settings
      BY <1>2, <2>2 DEF Beat!DeliveryThrows, Beat!TypeOK
    <3>2. clock + Retry \in Int /\ clock + Retry >= rem.fireAt
      BY <1>3, Constants
    <3>3. left = [rem EXCEPT !.retryAt = clock + Retry]
      BY <3>1 DEF Beat!Settings
    <3>4. left \in RemT /\ left.fireAt = rem.fireAt /\ left.retryAt = clock + Retry
      BY <1>3, <3>2, <3>3 DEF RemT
    <3>5. state' \in Beat!Settings
            /\ \A q \in Reminder \ {r} : state'.reminders[q] = state.reminders[q]
      BY <3>1, <3>2 DEF Beat!Settings, RemT
    <3>6. left # Beat!NoReminder
      BY <1>3, <3>4 DEF Beat!NoReminder, Beat!Never
    <3> QED  BY <1>3, <2>2, <3>2, <3>4, <3>5, <3>6 DEF GoodReminder
  <2> QED  BY <1>1, <2>1, <2>2
<1>5. Good(state'.reminders)
  <2>1. \A q \in Reminder : GoodReminder(state'.reminders[q])
    BY <1>2, <1>4 DEF Good
  <2>2. state'.reminders \in [Reminder -> RemT]
    BY <1>4 DEF Beat!Settings, RemT
  <2> QED  BY <2>1, <2>2 DEF Good
<1>6. /\ owed' \subseteq owed /\ (r \in owed' => left # Beat!NoReminder)
      /\ over' \subseteq over \cup {<<r, rem.fireAt>>} /\ over \subseteq over'
      /\ (over' # over => Beat!Delivers(r)) /\ faults' \in 0..MaxFaults
  <2>1. CASE Beat!Delivers(r)
    <3>1. left = Beat!AfterFire(rem)
      BY <1>2, <1>3, <2>1 DEF Beat!Delivers, Beat!TypeOK, Beat!Settings
    <3> QED  BY <1>2, <2>1, <3>1 DEF Beat!Delivers, Beat!TypeOK
  <2>2. CASE Beat!DeliveryThrows(r) /\ ~Beat!Delivers(r)
    BY <1>2, <1>4, <2>2, Constants
       DEF Beat!DeliveryThrows, Beat!Faulty, Beat!history, Beat!TypeOK
  <2> QED  BY <1>1, <2>1, <2>2
<1>7. untimely' = untimely
  <2>1. CASE Beat!Delivers(r)
    <3>1. <<r, rem.fireAt>> \notin over
      BY <1>3 DEF BeatInv, OverIsPast, Ahead
    <3> QED  BY <1>3, <2>1, <3>1 DEF Beat!Delivers
  <2>2. CASE Beat!DeliveryThrows(r)
    BY <2>2 DEF Beat!DeliveryThrows, Beat!history
  <2> QED  BY <1>1, <2>1, <2>2
<1>8. rem.fireAt \in Beat!Time
  BY <1>3 DEF GoodReminder
<1>9. Beat!TypeOK'
  <2>1. over' \subseteq Reminder \X Beat!Time
    BY <1>2, <1>6, <1>8 DEF Beat!TypeOK
  <2> QED  BY <1>1, <1>2, <1>4, <1>6, <1>7, <2>1 DEF Beat!TypeOK
<1>10. (Good(state.reminders) /\ Good(file.reminders))' /\ Given(state.reminders)'
         /\ Given(file.reminders)'
  <2>1. Given(state.reminders)' /\ Given(file.reminders)'
    BY <1>1, <1>2, <1>3, <1>4 DEF Given
  <2> QED  BY <1>1, <1>2, <1>5, <2>1
<1>11. Firing'
  <2>1. \A q \in due' : q \in due /\ q # r /\ q \in Reminder
    <3>1. due \subseteq Reminder /\ due' = due \ {r}
      BY <1>1, <1>2 DEF Beat!TypeOK
    <3> QED  BY <3>1
  <2>2. \A q \in due' : state'.reminders[q] # Beat!NoReminder
          /\ state'.reminders[q].fireAt <= clock'
    BY <1>1, <1>4, <2>1 DEF BeatInv, Firing
  <2> QED  BY <1>1, <1>3, <2>2 DEF BeatInv, Firing
<1>12. OverIsPast'
  <2>1. ASSUME NEW o \in over', state'.reminders[o[1]] # Beat!NoReminder
        PROVE  o[2] < state'.reminders[o[1]].fireAt
    <3>1. CASE o \in over /\ o[1] # r
      BY <1>2, <1>3, <1>4, <2>1, <3>1 DEF BeatInv, OverIsPast, Ahead, Beat!TypeOK
    <3>2. CASE o \in over /\ o[1] = r
      <4>1. o[2] < rem.fireAt /\ o[2] \in Nat
        BY <1>2, <1>3, <3>2, Constants DEF BeatInv, OverIsPast, Ahead, Beat!TypeOK, Beat!Time
      <4>2. left.fireAt >= rem.fireAt /\ left.fireAt \in Nat
        BY <1>4, <2>1, <3>2, DueIsNat, Constants
      <4> QED  BY <1>3, <3>2, <4>1, <4>2
    <3>3. CASE o \notin over
      <4>1. Beat!Delivers(r) /\ o = <<r, rem.fireAt>>
        BY <1>6, <2>1, <3>3
      <4> QED  BY <1>4, <2>1, <4>1
    <3> QED  BY <3>1, <3>2, <3>3
  <2> QED  BY <1>1, <1>3, <2>1 DEF OverIsPast, Ahead
<1>13. Beat!Kept'
  BY <1>1, <1>3, <1>4, <1>6, <1>2 DEF BeatInv, Beat!RemindersFire, Beat!Kept, Beat!TypeOK
<1>14. \A o \in over' : o[1] \in used'
  BY <1>1, <1>3, <1>6 DEF BeatInv
<1> QED  BY <1>1, <1>7, <1>9, <1>10, <1>11, <1>12, <1>13, <1>14
         DEF BeatInv, Beat!RemindersFire, Beat!Timely

LEMMA StartOK == ASSUME BeatInv, Beat!Start PROVE BeatInv'
<1>1. /\ ~started /\ started' = TRUE /\ notBefore' = clock + Grace
      /\ tick' = Beat!ArmedTick(state') /\ alarm' = Beat!ArmedReminders(state')
      /\ UNCHANGED <<clock, firing, due, used, owed, over, untimely>>
  BY DEF Beat!Start, Beat!history
<1>2. Beat!TypeOK /\ Good(state.reminders) /\ Good(file.reminders) /\ Given(state.reminders)
        /\ Given(file.reminders)
  BY DEF BeatInv
<1>3. clock \in Nat /\ notBefore' \in Nat
  BY <1>1, <1>2, Constants DEF Beat!TypeOK, Beat!Time
<1>4. ASSUME NEW s \in Beat!Settings, Beat!Loads(s)
      PROVE  state' \in Beat!Settings /\ state'.reminders = s.reminders
  <2> DEFINE next == IF s.paused THEN Beat!Never ELSE IF s.next = Beat!Never THEN clock + s.every ELSE s.next
  <2>1. s.every \in Int /\ s.next \in Int
    BY Constants DEF Beat!Settings
  <2>2. next \in Int /\ state' = [s EXCEPT !.next = next]
    BY <1>3, <1>4, <2>1, Constants DEF Beat!Loads
  <2> HIDE DEF next
  <2> QED  BY <2>2 DEF Beat!Settings
<1>5. CASE Beat!Read
  <2>1. Beat!Loads(file) /\ unsaveable' = FALSE /\ Beat!Save
    BY <1>5 DEF Beat!Read
  <2>2. state' \in Beat!Settings /\ state'.reminders = file.reminders
    BY <1>2, <1>4, <2>1 DEF Beat!TypeOK
  <2>3. file' \in Beat!Settings /\ faults' \in 0..MaxFaults /\ (file' = file \/ file' = state')
    BY <1>2, <2>1, <2>2, Saved
  <2>4. Beat!RemindersFire' /\ alarm' \in [due : Int, rings : Int]
          /\ (alarm' # Beat!NoTimer => alarm'.due \in Nat)
    <3>1. \A q \in owed' : q \in Reminder /\ q \in owed /\ state'.reminders[q] # Beat!NoReminder
      BY <1>1, <1>2, <2>2 DEF Beat!TypeOK, BeatInv, Beat!RemindersFire, Beat!Kept
    <3> QED  BY <1>1, <1>2, <1>3, <2>2, <2>3, <3>1, Rearmed DEF BeatInv
  <2>5. Beat!TypeOK'
    BY <1>1, <1>2, <1>3, <2>1, <2>2, <2>3, <2>4, TickArmed DEF Beat!TypeOK
  <2>6. (Good(state.reminders) /\ Good(file.reminders))' /\ Given(state.reminders)'
          /\ Given(file.reminders)'
    BY <1>1, <1>2, <2>2, <2>3 DEF Given
  <2>7. Firing' /\ OverIsPast'
    BY <1>1, <2>2 DEF BeatInv, Firing, OverIsPast, Ahead
  <2> QED  BY <1>1, <2>4, <2>5, <2>6, <2>7 DEF BeatInv
<1>6. CASE Beat!Unread
  <2>1. Beat!Loads(Beat!Defaults) /\ unsaveable' = TRUE /\ Beat!Faulty /\ file' = file
    BY <1>6 DEF Beat!Unread
  <2>2. state' \in Beat!Settings /\ state'.reminders = Beat!NoReminders
    BY <1>4, <2>1, DefaultsTyped DEF Beat!Defaults
  <2>3. faults' \in 0..MaxFaults
    BY <1>2, <2>1, Constants DEF Beat!Faulty, Beat!TypeOK
  <2>4. Good(Beat!NoReminders) /\ \A q \in Reminder : Beat!NoReminders[q] = Beat!NoReminder
    BY Nones DEF Good, GoodReminder, Beat!NoReminders
  <2>5. /\ alarm' \in [due : Int, rings : Int] /\ (alarm' # Beat!NoTimer => alarm'.due \in Nat)
    BY <1>1, <1>2, <1>3, <2>2, <2>4, Armed
  <2>6. Beat!RemindersFire'
    BY <1>1, <2>1 DEF BeatInv, Beat!RemindersFire, Beat!Kept, Beat!Timely
  <2>7. Beat!TypeOK'
    BY <1>1, <1>2, <1>3, <2>1, <2>2, <2>3, <2>5, TickArmed DEF Beat!TypeOK
  <2>8. (Good(state.reminders) /\ Good(file.reminders))' /\ Given(state.reminders)'
          /\ Given(file.reminders)'
    BY <1>1, <1>2, <2>1, <2>2, <2>4 DEF Given
  <2>9. Firing' /\ OverIsPast'
    BY <1>1, <1>2, <2>2, <2>4 DEF BeatInv, Firing, OverIsPast, Ahead, Beat!TypeOK
  <2> QED  BY <1>1, <2>5, <2>6, <2>7, <2>8, <2>9 DEF BeatInv
<1> QED  BY <1>5, <1>6 DEF Beat!Start

LEMMA EndsOK == ASSUME BeatInv, Beat!Stop \/ Beat!Crash PROVE BeatInv'
<1>1. /\ started' = FALSE /\ firing' = FALSE /\ due' = {} /\ tick' = Beat!NoTimer
           /\ alarm' = Beat!NoTimer
      /\ over' = over \ Beat!Forgotten
      /\ UNCHANGED <<clock, notBefore, state, unsaveable, file, used, owed, untimely>>
  BY DEF Beat!Stop, Beat!Crash, Beat!Ends
<1>2. faults' \in 0..MaxFaults
  BY Constants DEF Beat!Stop, Beat!Crash, Beat!Faulty, BeatInv, Beat!TypeOK
<1>3. Beat!TypeOK'
  BY <1>1, <1>2, Nones DEF BeatInv, Beat!TypeOK
<1>4. (Good(state.reminders) /\ Good(file.reminders))' /\ Given(state.reminders)'
        /\ Given(file.reminders)'
  BY <1>1 DEF BeatInv, Given
<1>5. Firing' /\ Beat!RemindersFire'
  BY <1>1 DEF BeatInv, Firing, Beat!RemindersFire, Beat!Kept, Beat!Timely
<1>6. OverIsPast'
  <2>1. ASSUME NEW o \in over', file.reminders[o[1]] # Beat!NoReminder
        PROVE  o[2] < file.reminders[o[1]].fireAt
    <3>1. o \in over /\ ~(file.reminders[o[1]].fireAt <= o[2])
      BY <1>1, <2>1 DEF Beat!Forgotten
    <3>2. o[1] \in Reminder /\ o[2] \in Nat /\ file.reminders[o[1]].fireAt \in Nat
      BY <2>1, <3>1, DueIsNat, Constants DEF BeatInv, Beat!TypeOK, Good, Beat!Time
    <3> QED  BY <3>1, <3>2
  <2> QED  BY <1>1, <2>1 DEF OverIsPast, Ahead
<1>7. \A o \in over' : o[1] \in used'
  BY <1>1 DEF BeatInv
<1> QED  BY <1>1, <1>3, <1>4, <1>5, <1>6, <1>7 DEF BeatInv

LEMMA BeatStep == BeatInv /\ [Beat!Next]_(Beat!vars) => BeatInv'
<1> SUFFICES ASSUME BeatInv, [Beat!Next]_(Beat!vars) PROVE BeatInv'
  OBVIOUS
<1>1. CASE Beat!Start \/ Beat!Stop \/ Beat!Crash \/ Beat!Passes
  BY <1>1, StartOK, EndsOK, PassesOK
<1>2. ASSUME NEW r \in Reminder,
             \/ \E first \in Beat!Time, every \in Every \cup {Beat!Never} : Beat!AddReminder(r, first, every)
             \/ Beat!CancelReminder(r) \/ Beat!FireFirst(r)
      PROVE  BeatInv'
  BY <1>2, AddReminderOK, CancelReminderOK, FireFirstOK
<1>3. ASSUME NEW paused \in BOOLEAN, NEW every \in Interval, Beat!Configure(paused, every)
      PROVE  BeatInv'
  BY <1>3, ConfigureOK
<1>4. CASE Beat!TickWaitsOn \/ Beat!AlarmWaitsOn \/ Beat!TickDue \/ Beat!AlarmDue
             \/ Beat!FiringEnds
  BY <1>4, WaitsOnOK, TickDueOK, AlarmDueOK, FiringEndsOK
<1>5. CASE UNCHANGED Beat!vars
  <2>1. UNCHANGED <<started, notBefore, unsaveable, firing, due, Beat!history, clock, state, file, alarm, tick, faults>>
    BY <1>5 DEF Beat!vars
  <2>2. clock \in Nat
    BY Constants DEF BeatInv, Beat!TypeOK, Beat!Time
  <2>3. Beat!TypeOK'
    BY <2>1 DEF BeatInv, Beat!TypeOK, Beat!history
  <2> QED  BY <2>1, <2>2, <2>3, NoneChange
<1> QED  BY <1>1, <1>2, <1>3, <1>4, <1>5 DEF Beat!Next

-----------------------------------------------------------------------------
(* What the waits promise (StatedWaits).                                    *)

(* What the waits promise: acts that may still be lost, each once.          *)
Acts == Seq(Waits!Act)
Repeats(s, a) == s # <<>> /\ s[Len(s)] = a

LEMMA OnceOf ==
    ASSUME NEW s \in Acts
    PROVE  \E g \in [0..Len(s) -> Acts] :
             /\ Waits!Once(s) = g[Len(s)] /\ g[0] = <<>>
             /\ \A i \in 1..Len(s) :
                  g[i] = IF i > 1 /\ s[i - 1] = s[i] THEN g[i - 1] ELSE Append(g[i - 1], s[i])
<1> DEFINE n == Len(s)
           D(g) == g = [i \in 0..n |-> IF i = 0 THEN <<>>
                                       ELSE IF i > 1 /\ s[i - 1] = s[i] THEN g[i - 1]
                                       ELSE Append(g[i - 1], s[i])]
           f == CHOOSE g : D(g)
           F == [p \in ((0 + 1)..n) \X Acts |-> IF p[1] > 1 /\ s[p[1] - 1] = s[p[1]] THEN p[2]
                                                ELSE Append(p[2], s[p[1]])]
<1>0. n \in Nat /\ 0 <= n
  BY DEF Acts
<1>1. F \in [((0 + 1)..n) \X Acts -> Acts]
  <2>1. ASSUME NEW p \in ((0 + 1)..n) \X Acts
        PROVE  (IF p[1] > 1
                 /\ s[p[1] - 1] = s[p[1]] THEN p[2] ELSE Append(p[2], s[p[1]])) \in Acts
    <3>1. p[1] \in 1..n /\ p[2] \in Acts
      BY <1>0
    <3>2. s[p[1]] \in Waits!Act
      BY <3>1 DEF Acts
    <3> QED  BY <3>1, <3>2 DEF Acts
  <2> QED  BY <2>1
<1>2. <<>> \in Acts
  BY DEF Acts
<1>3. PICK g \in [0..n -> Acts] : Steps(0, n, <<>>, F, g)
  <2> HIDE DEF F, n, Acts
  <2> QED  BY <1>0, <1>1, <1>2, Recursion
<1>4. g[0] = <<>>
  BY <1>3 DEF Steps
<1>5. ASSUME NEW i \in 1..n
      PROVE  g[i] = IF i > 1 /\ s[i - 1] = s[i] THEN g[i - 1] ELSE Append(g[i - 1], s[i])
  <2>1. i \in (0 + 1)..n /\ i - 1 \in 0..n
    BY <1>0
  <2>2. <<i, g[i - 1]>> \in ((0 + 1)..n) \X Acts
    BY <2>1
  <2>3. g[i] = F[<<i, g[i - 1]>>]
    BY <1>3, <2>1 DEF Steps
  <2> QED  BY <2>2, <2>3
<1>6. D(g)
  <2>1. g = [i \in 0..n |-> g[i]]
    OBVIOUS
  <2>2. ASSUME NEW i \in 0..n
        PROVE  g[i] = IF i = 0 THEN <<>> ELSE IF i > 1
                 /\ s[i - 1] = s[i] THEN g[i - 1] ELSE Append(g[i - 1], s[i])
    <3>1. i = 0 \/ i \in 1..n
      BY <1>0
    <3> QED  BY <1>4, <1>5, <3>1
  <2> QED  BY <2>1, <2>2
<1>7. D(f)
  <2> HIDE DEF D
  <2> QED  BY <1>6
<1>8. Waits!Once(s) = f[n]
  BY DEF Waits!Once
<1>9. \A i \in 0..n : f[i] = g[i]
  <2> HIDE DEF f
  <2> DEFINE T == {i \in 0..n : f[i] = g[i]}
  <2>1. 0 \in T
    BY <1>0, <1>6, <1>7
  <2>2. ASSUME NEW i \in (0 + 1)..n, i - 1 \in T PROVE i \in T
    <3>1. i \in 0..n /\ i # 0 /\ f[i - 1] = g[i - 1]
      BY <1>0, <2>2
    <3>2. f[i] = IF i > 1 /\ s[i - 1] = s[i] THEN f[i - 1] ELSE Append(f[i - 1], s[i])
      BY <1>7, <3>1
    <3>3. g[i] = IF i > 1 /\ s[i - 1] = s[i] THEN g[i - 1] ELSE Append(g[i - 1], s[i])
      BY <1>6, <3>1
    <3> QED  BY <3>1, <3>2, <3>3
  <2>3. 0..n \subseteq T
    <3> HIDE DEF T, n
    <3> QED  BY <1>0, <2>1, <2>2, UpFrom
  <2> QED  BY <2>3
<1>10. f[n] = g[n]
  <2> HIDE DEF f
  <2> QED  BY <1>0, <1>9
<1> HIDE DEF f, D, F
<1> QED  BY <1>3, <1>4, <1>5, <1>8, <1>10

LEMMA OnceIs == ASSUME NEW s \in Acts
                PROVE  Waits!Once(s) \in Acts /\ (s = <<>> => Waits!Once(s) = <<>>)
<1>1. PICK g \in [0..Len(s) -> Acts] : Waits!Once(s) = g[Len(s)] /\ g[0] = <<>>
  BY OnceOf
<1>2. Len(s) \in 0..Len(s) /\ (s = <<>> => Len(s) = 0)
  BY DEF Acts
<1> QED  BY <1>1, <1>2

(* An act more is one more, unless it is the last one again.                *)
LEMMA OnceMore ==
    ASSUME NEW s \in Acts, NEW a \in Waits!Act
    PROVE  Waits!Once(Append(s, a)) = IF Repeats(s, a) THEN Waits!Once(s) ELSE Append(Waits!Once(s), a)
<1> DEFINE n == Len(s)
           m == Append(s, a)
<1>0. n \in Nat /\ m \in Acts /\ Len(m) = n + 1 /\ m[n + 1] = a /\ \A i \in 1..n : m[i] = s[i]
  BY DEF Acts
<1>1. PICK g \in [0..n -> Acts] :
             /\ Waits!Once(s) = g[n] /\ g[0] = <<>>
             /\ \A i \in 1..n : g[i] = IF i > 1
                  /\ s[i - 1] = s[i] THEN g[i - 1] ELSE Append(g[i - 1], s[i])
  BY OnceOf
<1>2. PICK h \in [0..(n + 1) -> Acts] :
             /\ Waits!Once(m) = h[n + 1] /\ h[0] = <<>>
             /\ \A i \in 1..(n + 1) : h[i] = IF i > 1
                  /\ m[i - 1] = m[i] THEN h[i - 1] ELSE Append(h[i - 1], m[i])
  <2> HIDE DEF m, n
  <2> QED  BY <1>0, OnceOf
<1> HIDE DEF m, n
<1> DEFINE T == {i \in 0..n : g[i] = h[i]}
<1>3. 0 \in T
  BY <1>0, <1>1, <1>2
<1>4. ASSUME NEW i \in (0 + 1)..n, i - 1 \in T PROVE i \in T
  <2>1. i \in 1..n /\ i \in 1..(n + 1) /\ g[i - 1] = h[i - 1] /\ m[i] = s[i]
          /\ (i > 1 => m[i - 1] = s[i - 1])
    BY <1>0, <1>4
  <2>2. g[i] = IF i > 1 /\ s[i - 1] = s[i] THEN g[i - 1] ELSE Append(g[i - 1], s[i])
    BY <1>1, <2>1
  <2>3. h[i] = IF i > 1 /\ m[i - 1] = m[i] THEN h[i - 1] ELSE Append(h[i - 1], m[i])
    BY <1>2, <2>1
  <2>4. g[i] = h[i]
    BY <2>1, <2>2, <2>3
  <2> QED  BY <1>0, <2>4
<1>5. g[n] = h[n]
  <2>1. 0..n \subseteq T
    <3> HIDE DEF T
    <3> QED  BY <1>0, <1>3, <1>4, UpFrom
  <2> QED  BY <1>0, <2>1
<1>6. h[n + 1] = IF n + 1 > 1 /\ m[n] = a THEN h[n] ELSE Append(h[n], a)
  <2>1. n + 1 \in 1..(n + 1) /\ (n + 1) - 1 = n
    BY <1>0
  <2>2. h[n + 1] = IF n + 1 > 1
          /\ m[(n + 1) - 1] = m[n + 1] THEN h[(n + 1) - 1] ELSE Append(h[(n + 1) - 1], m[n + 1])
    BY <1>2, <2>1
  <2> QED  BY <1>0, <2>1, <2>2
<1>7. (n + 1 > 1 /\ m[n] = a) <=> Repeats(s, a)
  <2>1. s # <<>> <=> n > 0
    BY <1>0 DEF n, Acts
  <2> QED  BY <1>0, <2>1 DEF Repeats, n
<1> QED  BY <1>1, <1>2, <1>5, <1>6, <1>7 DEF m
(* What holds of no acts and of acts and one more, holds of all.            *)
LEMMA ByOneMore ==
    ASSUME NEW T, <<>> \in T, \A s \in Acts, a \in Waits!Act : s \in T => Append(s, a) \in T
    PROVE  Acts \subseteq T
<1> SUFFICES ASSUME NEW s \in Acts PROVE s \in T
  OBVIOUS
<1> DEFINE n == Len(s)
           U == {i \in 0..n : SubSeq(s, 1, i) \in T}
<1>0. n \in Nat /\ SubSeq(s, 1, 0) = <<>> /\ SubSeq(s, 1, n) = s
  BY DEF Acts
<1>1. 0 \in U
  <2>1. 0 \in 0..n
    BY <1>0
  <2>2. SubSeq(s, 1, 0) \in T
    <3>1. SubSeq(s, 1, 0) = <<>>
      BY <1>0
    <3> QED  BY <3>1, Zenon
  <2> QED  BY <2>1, <2>2
<1>2. ASSUME NEW i \in (0 + 1)..n, i - 1 \in U PROVE i \in U
  <2>1. SubSeq(s, 1, i - 1) \in Acts /\ s[i] \in Waits!Act /\ i \in 0..n
    BY <1>0 DEF Acts
  <2>2. SubSeq(s, 1, i) = Append(SubSeq(s, 1, i - 1), s[i])
    <3> DEFINE p == SubSeq(s, 1, i - 1)
               q == SubSeq(s, 1, i)
    <3>1. /\ p \in Acts /\ Len(p) = i - 1 /\ \A j \in 1..(i - 1) : p[j] = s[j]
          /\ q \in Acts /\ Len(q) = i /\ \A j \in 1..i : q[j] = s[j]
      BY <1>0 DEF Acts
    <3> HIDE DEF p, q
    <3>2. /\ Append(p, s[i]) \in Acts /\ Len(Append(p, s[i])) = i
          /\ \A j \in 1..i : Append(p, s[i])[j] = q[j]
      BY <2>1, <3>1 DEF Acts
    <3> QED  BY <3>1, <3>2 DEF Acts, p, q
  <2>3. SubSeq(s, 1, i - 1) \in T
    BY <1>2
  <2>4. SubSeq(s, 1, i) \in T
    BY <2>1, <2>2, <2>3
  <2> QED  BY <2>1, <2>4
<1>3. n \in U
  <2>1. 0..n \subseteq U
    <3> HIDE DEF U, n
    <3> QED  BY <1>0, <1>1, <1>2, UpFrom
  <2> QED  BY <1>0, <2>1
<1> QED  BY <1>0, <1>3

(* The last of them is offered last.                                        *)
LEMMA OnceLast ==
    ASSUME NEW s \in Acts, s # <<>>
    PROVE  Waits!Once(s) # <<>> /\ Waits!Once(s)[Len(Waits!Once(s))] = s[Len(s)]
<1> DEFINE T == {t \in Acts : t # <<>> => Waits!Once(t) # <<>>
                                /\ Waits!Once(t)[Len(Waits!Once(t))] = t[Len(t)]}
<1>1. <<>> \in T
  BY DEF Acts
<1>2. ASSUME NEW t \in Acts, NEW a \in Waits!Act, t \in T PROVE Append(t, a) \in T
  <2>1. /\ Append(t, a) \in Acts /\ Append(t, a)[Len(Append(t, a))] = a
        /\ Waits!Once(t) \in Acts
    BY OnceIs DEF Acts
  <2>2. CASE Repeats(t, a)
    BY <1>2, <2>1, <2>2, OnceMore DEF Repeats
  <2>3. CASE ~Repeats(t, a)
    <3>1. Waits!Once(Append(t, a)) = Append(Waits!Once(t), a)
      BY <2>3, OnceMore
    <3>2. /\ Append(Waits!Once(t), a) # <<>>
          /\ Append(Waits!Once(t), a)[Len(Append(Waits!Once(t), a))] = a
      BY <2>1 DEF Acts
    <3> QED  BY <2>1, <3>1, <3>2
  <2> QED  BY <2>2, <2>3
<1>3. Acts \subseteq T
  <2> HIDE DEF T
  <2> QED  BY <1>1, <1>2, ByOneMore
<1> QED  BY <1>3

(* Sequences put together.                                                  *)
LEMMA Joined ==
    ASSUME NEW s \in Acts, NEW t \in Acts, NEW a \in Waits!Act
    PROVE  /\ s \o t \in Acts /\ s \o <<>> = s /\ <<>> \o s = s
           /\ s \o Append(t, a) = Append(s \o t, a) /\ Append(t, a) \in Acts
                /\ Append(t, a) # <<>>
           /\ Append(s, a) \o t = s \o (<<a>> \o t) /\ <<a>> \in Acts /\ Append(<<>>, a) = <<a>>
           /\ t # <<>> => Repeats(s \o t, a) <=> Repeats(t, a)
<1>1. /\ s \o t \in Acts /\ s \o <<>> = s /\ <<>> \o s = s
      /\ Append(t, a) \in Acts /\ Append(t, a) # <<>>
      /\ <<a>> \in Acts /\ Append(<<>>, a) = <<a>> /\ <<a>> \o t \in Acts
           /\ Append(s, a) \in Acts
  BY DEF Acts
<1>2. s \o Append(t, a) = Append(s \o t, a)
  BY DEF Acts
<1>3. Append(s, a) \o t = s \o (<<a>> \o t)
  BY DEF Acts
<1>4. ASSUME t # <<>> PROVE Repeats(s \o t, a) <=> Repeats(t, a)
  <2>1. Len(s \o t) = Len(s) + Len(t) /\ Len(t) \in Nat /\ Len(s) \in Nat /\ Len(t) > 0
    BY <1>4 DEF Acts
  <2>2. (s \o t)[Len(s) + Len(t)] = t[Len(t)] /\ s \o t # <<>>
    BY <2>1 DEF Acts
  <2> QED  BY <1>4, <2>1, <2>2 DEF Repeats
<1> QED  BY <1>1, <1>2, <1>3, <1>4

LEMMA JoinedPast ==
    ASSUME NEW s \in Acts, NEW t \in Acts, NEW a \in Waits!Act
    PROVE  Append(s, a) \o t = s \o (<<a>> \o t)
BY DEF Acts

LEMMA JoinedNext ==
    ASSUME NEW s \in Acts, NEW t \in Acts, NEW a \in Waits!Act
    PROVE  s \o t \in Acts /\ s \o Append(t, a) = Append(s \o t, a) /\ Append(t, a) \in Acts
BY Joined

(* What comes after some acts adds to them what it comes to by itself, less *)
(* its first if that repeats.                                               *)
LEMMA OnceJoined ==
    ASSUME NEW s \in Acts, NEW t \in Acts
    PROVE  \E r \in Acts :
             /\ Waits!Once(s \o t) = Waits!Once(s) \o r
             /\ Waits!Once(t) = r \/ (s # <<>> /\ Waits!Once(t) = <<s[Len(s)]>> \o r)
<1> DEFINE o == Waits!Once(s)
           T == {u \in Acts : \E r \in Acts :
                   /\ Waits!Once(s \o u) = o \o r
                   /\ Waits!Once(u) = r \/ (s # <<>> /\ Waits!Once(u) = <<s[Len(s)]>> \o r)}
<1>0. o \in Acts /\ <<>> \in Acts /\ (s # <<>> => s[Len(s)] \in Waits!Act)
        /\ Waits!Once(<<>>) = <<>>
  <2>1. <<>> \in Acts /\ (s # <<>> => s[Len(s)] \in Waits!Act)
    BY DEF Acts
  <2> QED  BY <2>1, OnceIs
<1> HIDE DEF o
<1>1. <<>> \in T
  <2>1. s \o <<>> = s /\ o \o <<>> = o
    BY <1>0 DEF Acts
  <2> QED  BY <1>0, <2>1 DEF o
<1>2. ASSUME NEW u \in Acts, NEW a \in Waits!Act, u \in T PROVE Append(u, a) \in T
  <2>1. PICK r \in Acts :
             /\ Waits!Once(s \o u) = o \o r
             /\ Waits!Once(u) = r \/ (s # <<>> /\ Waits!Once(u) = <<s[Len(s)]>> \o r)
    BY <1>2
  <2>2. /\ Append(u, a) \in Acts /\ s \o u \in Acts /\ s \o Append(u, a) = Append(s \o u, a)
        /\ o \o Append(r, a) = Append(o \o r, a) /\ Append(r, a) \in Acts
    <3>1. Append(u, a) \in Acts /\ s \o u \in Acts /\ s \o Append(u, a) = Append(s \o u, a)
      BY Joined
    <3>2. o \in Acts
      BY <1>0
    <3>3. o \o Append(r, a) = Append(o \o r, a) /\ Append(r, a) \in Acts
      BY <3>2, Joined
    <3> QED  BY <3>1, <3>3
  <2>3. /\ Waits!Once(s \o Append(u, a))
             = IF Repeats(s \o u, a) THEN Waits!Once(s \o u) ELSE Append(Waits!Once(s \o u), a)
        /\ Waits!Once(Append(u, a)) = IF Repeats(u, a) THEN Waits!Once(u) ELSE Append(Waits!Once(u), a)
    BY <2>2, OnceMore
  <2>4. CASE Repeats(u, a)
    <3>1. Repeats(s \o u, a)
      BY <2>4, Joined DEF Repeats
    <3> QED  BY <2>1, <2>2, <2>3, <2>4, <3>1
  <2>5. CASE u # <<>> /\ ~Repeats(u, a)
    <3>1. ~Repeats(s \o u, a)
      BY <2>5, Joined
    <3>2. Waits!Once(s \o Append(u, a)) = o \o Append(r, a)
      BY <2>1, <2>2, <2>3, <3>1
    <3>3. s # <<>> => Append(<<s[Len(s)]>> \o r, a) = <<s[Len(s)]>> \o Append(r, a)
      <4>1. s # <<>> => <<s[Len(s)]>> \in Acts
        BY <1>0, Joined
      <4> QED  BY <4>1, Joined
    <3>4. \/ Waits!Once(Append(u, a)) = Append(r, a)
          \/ s # <<>> /\ Waits!Once(Append(u, a)) = <<s[Len(s)]>> \o Append(r, a)
      BY <2>1, <2>3, <2>5, <3>3
    <3> QED  BY <2>2, <3>2, <3>4
  <2>6. CASE u = <<>>
    <3>1. s \o u = s /\ Waits!Once(u) = <<>> /\ Waits!Once(s \o u) = o /\ ~Repeats(u, a)
          /\ Append(<<>>, a) = <<a>> /\ <<a>> \in Acts
      BY <1>0, <2>6, Joined DEF Repeats, o
    <3>2. Waits!Once(Append(u, a)) = <<a>>
      BY <2>3, <3>1
    <3>3. CASE Repeats(s, a)
      <4>1. Waits!Once(s \o Append(u, a)) = o /\ s # <<>> /\ s[Len(s)] = a
        BY <2>3, <3>1, <3>3 DEF Repeats
      <4>2. o \o <<>> = o /\ <<a>> \o <<>> = <<a>>
        BY <1>0, <3>1, Joined
      <4> QED  BY <1>0, <2>2, <3>2, <4>1, <4>2
    <3>4. CASE ~Repeats(s, a)
      <4>1. Waits!Once(s \o Append(u, a)) = o \o <<a>>
        <5>1. Append(o, a) = o \o <<a>>
          BY <1>0 DEF Acts
        <5> QED  BY <2>3, <3>1, <3>4, <5>1
      <4> QED  BY <2>2, <3>1, <3>2, <4>1
    <3> QED  BY <3>3, <3>4
  <2> QED  BY <2>4, <2>5, <2>6
<1>3. Acts \subseteq T
  <2> HIDE DEF T
  <2> QED  BY <1>1, <1>2, ByOneMore
<1> QED  BY <1>3 DEF o

(* Acts that come to the same, and end alike, do so with more after them.   *)
LEMMA OnceAlike ==
    ASSUME NEW s \in Acts, NEW v \in Acts, NEW t \in Acts, s # <<>>, v # <<>>,
           s[Len(s)] = v[Len(v)], Waits!Once(s) = Waits!Once(v)
    PROVE  Waits!Once(s \o t) = Waits!Once(v \o t)
<1> DEFINE T == {u \in Acts : Waits!Once(s \o u) = Waits!Once(v \o u)}
<1>1. <<>> \in T
  <2>1. s \o <<>> = s /\ v \o <<>> = v /\ <<>> \in Acts
    BY DEF Acts
  <2> QED  BY <2>1
<1>2. ASSUME NEW u \in Acts, NEW a \in Waits!Act, u \in T PROVE Append(u, a) \in T
  <2>1. /\ Append(u, a) \in Acts /\ s \o u \in Acts /\ v \o u \in Acts
        /\ s \o Append(u, a) = Append(s \o u, a) /\ v \o Append(u, a) = Append(v \o u, a)
    <3>1. s \o u \in Acts /\ s \o Append(u, a) = Append(s \o u, a) /\ Append(u, a) \in Acts
      BY JoinedNext
    <3>2. v \o u \in Acts /\ v \o Append(u, a) = Append(v \o u, a)
      BY JoinedNext
    <3> QED  BY <3>1, <3>2
  <2>2. Repeats(s \o u, a) <=> Repeats(v \o u, a)
    <3>1. CASE u = <<>>
      <4>1. s \o u = s /\ v \o u = v
        BY <3>1, Joined
      <4> QED  BY <4>1 DEF Repeats
    <3>2. CASE u # <<>>
      <4>1. Repeats(s \o u, a) <=> Repeats(u, a)
        BY <3>2, Joined
      <4>2. Repeats(v \o u, a) <=> Repeats(u, a)
        BY <3>2, Joined
      <4> QED  BY <4>1, <4>2
    <3> QED  BY <3>1, <3>2
  <2>3. Waits!Once(Append(s \o u, a)) =
          IF Repeats(s \o u, a) THEN Waits!Once(s \o u) ELSE Append(Waits!Once(s \o u), a)
    BY <2>1, OnceMore
  <2>4. Waits!Once(Append(v \o u, a)) =
          IF Repeats(v \o u, a) THEN Waits!Once(v \o u) ELSE Append(Waits!Once(v \o u), a)
    BY <2>1, OnceMore
  <2>5. Waits!Once(s \o u) = Waits!Once(v \o u)
    BY <1>2
  <2>6. Waits!Once(s \o Append(u, a)) = Waits!Once(v \o Append(u, a))
    BY <2>1, <2>2, <2>3, <2>4, <2>5
  <2> QED  BY <2>1, <2>6
<1>3. Acts \subseteq T
  <2> HIDE DEF T
  <2> QED  BY <1>1, <1>2, ByOneMore
<1> QED  BY <1>3

(* Acts come to what they come to each once.                                *)
LEMMA OnceReduces ==
    ASSUME NEW w \in WaitsT, NEW s \in Acts
    PROVE  Waits!ReduceAll(w, Waits!Once(s)) = Waits!ReduceAll(w, s)
<1> DEFINE T == {u \in Acts : Waits!ReduceAll(w, Waits!Once(u)) = Waits!ReduceAll(w, u)}
<1>1. <<>> \in T
  <2>1. <<>> \in Acts
    BY DEF Acts
  <2> QED  BY <2>1, OnceIs
<1>2. ASSUME NEW u \in Acts, NEW a \in Waits!Act, u \in T PROVE Append(u, a) \in T
  <2>0. Append(u, a) \in Acts /\ Waits!Once(u) \in Acts
    BY OnceIs DEF Acts
  <2>1. Waits!ReduceAll(w, Append(u, a)) = Waits!Reduce(Waits!ReduceAll(w, u), a)
    BY ReducesLast DEF Acts
  <2>2. CASE Repeats(u, a)
    <3>1. PICK v \in Acts : u = Append(v, a)
      <4> DEFINE v == SubSeq(u, 1, Len(u) - 1)
      <4>0. Len(u) \in Nat /\ Len(u) > 0 /\ u[Len(u)] = a
        BY <2>2 DEF Repeats, Acts
      <4>1. v \in Acts /\ Len(v) = Len(u) - 1 /\ \A j \in 1..(Len(u) - 1) : v[j] = u[j]
        <5> DEFINE k == Len(u) - 1
        <5>1. k \in 0..Len(u) /\ 1..k \subseteq 1..Len(u)
          BY <4>0
        <5> HIDE DEF k
        <5>2. /\ SubSeq(u, 1, k) \in Acts /\ Len(SubSeq(u, 1, k)) = k
              /\ \A j \in 1..k : SubSeq(u, 1, k)[j] = u[j]
          BY <4>0, <5>1 DEF Acts
        <5> QED  BY <5>2 DEF k
      <4> HIDE DEF v
      <4>2. Append(v, a) \in Acts /\ Len(Append(v, a)) = Len(u)
              /\ \A j \in 1..Len(u) : Append(v, a)[j] = u[j]
        BY <4>0, <4>1 DEF Acts
      <4>3. u = Append(v, a)
        BY <4>2 DEF Acts
      <4> QED  BY <4>1, <4>3
    <3>2. Waits!ReduceAll(w, v) \in WaitsT
      BY ReducesAll DEF Acts
    <3>3. Waits!ReduceAll(w, u) = Waits!Reduce(Waits!ReduceAll(w, v), a)
      BY <3>1, ReducesLast DEF Acts
    <3>4. Waits!ReduceAll(w, Append(u, a)) = Waits!ReduceAll(w, u)
      BY <2>1, <3>2, <3>3, Reduced
    <3>5. Waits!Once(Append(u, a)) = Waits!Once(u)
      BY <2>2, OnceMore
    <3> QED  BY <1>2, <2>0, <3>4, <3>5
  <2>3. CASE ~Repeats(u, a)
    <3>1. Waits!Once(Append(u, a)) = Append(Waits!Once(u), a)
      BY <2>3, OnceMore
    <3>2. Waits!ReduceAll(w, Append(Waits!Once(u), a)) = Waits!Reduce(Waits!ReduceAll(w, Waits!Once(u)), a)
      BY <2>0, ReducesLast DEF Acts
    <3> QED  BY <1>2, <2>0, <2>1, <3>1, <3>2
  <2> QED  BY <2>2, <2>3
<1>3. Acts \subseteq T
  <2> HIDE DEF T
  <2> QED  BY <1>1, <1>2, ByOneMore
<1> QED  BY <1>3

(* The acts of a given log.                                                 *)
ActsOf(L, first, last) ==
    LET upTo[i \in (first - 1)..last] ==
            IF i = first - 1 THEN <<>>
            ELSE IF L[i].type = "entry" THEN Append(upTo[i - 1], L[i].payload)
            ELSE upTo[i - 1]
    IN  upTo[last]

LEMMA ActsRun ==
    ASSUME NEW L, LogOK(L), NEW m \in 0..Len(L), NEW n \in m..Len(L)
    PROVE  \E g \in [m..n -> Acts] :
             /\ ActsOf(L, m + 1, n) = g[n] /\ g[m] = <<>>
             /\ \A i \in (m + 1)..n :
                  g[i] = IF L[i].type = "entry" THEN Append(g[i - 1], L[i].payload) ELSE g[i - 1]
<1> DEFINE D(g) == g = [i \in m..n |-> IF i = m THEN <<>>
                                       ELSE IF L[i].type = "entry" THEN Append(g[i - 1], L[i].payload)
                                       ELSE g[i - 1]]
           f == CHOOSE g : D(g)
           F == [p \in ((m + 1)..n) \X Acts |-> IF L[p[1]].type = "entry" THEN Append(p[2], L[p[1]].payload)
                                                ELSE p[2]]
<1>0. m \in Nat /\ n \in Nat /\ m <= n /\ n <= Len(L) /\ Len(L) \in Nat /\ <<>> \in Acts
  BY DEF LogOK, Acts
<1>1. F \in [((m + 1)..n) \X Acts -> Acts]
  <2>1. ASSUME NEW p \in ((m + 1)..n) \X Acts
        PROVE  (IF L[p[1]].type = "entry" THEN Append(p[2], L[p[1]].payload) ELSE p[2]) \in Acts
    <3>1. p[1] \in 1..Len(L) /\ p[2] \in Acts
      BY <1>0
    <3>2. L[p[1]].type = "entry" => L[p[1]].payload \in Waits!Act
      BY <3>1, RecordsAre
    <3> QED  BY <3>1, <3>2 DEF Acts
  <2> QED  BY <2>1
<1>2. PICK g \in [m..n -> Acts] : Steps(m, n, <<>>, F, g)
  <2> HIDE DEF F, Acts
  <2> QED  BY <1>0, <1>1, Recursion
<1>3. g[m] = <<>>
  BY <1>2 DEF Steps
<1>4. ASSUME NEW i \in (m + 1)..n
      PROVE  g[i] = IF L[i].type = "entry" THEN Append(g[i - 1], L[i].payload) ELSE g[i - 1]
  <2>1. i - 1 \in m..n
    BY <1>0
  <2>2. <<i, g[i - 1]>> \in ((m + 1)..n) \X Acts
    BY <2>1
  <2>3. g[i] = F[<<i, g[i - 1]>>]
    BY <1>2 DEF Steps
  <2> QED  BY <2>2, <2>3
<1>5. D(g)
  <2>1. g = [i \in m..n |-> g[i]]
    OBVIOUS
  <2>2. ASSUME NEW i \in m..n
        PROVE  g[i] = IF i = m THEN <<>> ELSE IF L[i].type = "entry" THEN Append(g[i - 1], L[i].payload) ELSE g[i - 1]
    <3>1. i = m \/ i \in (m + 1)..n
      BY <1>0
    <3> QED  BY <1>0, <1>3, <1>4, <3>1
  <2> QED  BY <2>1, <2>2
<1>6. D(f)
  <2> HIDE DEF D
  <2> QED  BY <1>5
<1>7. ActsOf(L, m + 1, n) = f[n]
  <2> DEFINE from(a) ==
          CHOOSE h : h = [i \in a..n |-> IF i = a THEN <<>>
                                         ELSE IF L[i].type = "entry" THEN Append(h[i - 1], L[i].payload)
                                         ELSE h[i - 1]]
  <2>1. (m + 1) - 1 = m
    BY <1>0
  <2>2. ActsOf(L, m + 1, n) = from((m + 1) - 1)[n]
    BY DEF ActsOf
  <2>3. from(m) = f
    OBVIOUS
  <2> HIDE DEF from, f
  <2> QED  BY <2>1, <2>2, <2>3
<1>8. \A i \in m..n : f[i] = g[i]
  <2> HIDE DEF f
  <2> DEFINE T == {i \in m..n : f[i] = g[i]}
  <2>1. m \in T
    BY <1>0, <1>5, <1>6
  <2>2. ASSUME NEW i \in (m + 1)..n, i - 1 \in T PROVE i \in T
    <3>1. i \in m..n /\ i # m /\ f[i - 1] = g[i - 1]
      BY <1>0, <2>2
    <3>2. f[i] = IF L[i].type = "entry" THEN Append(f[i - 1], L[i].payload) ELSE f[i - 1]
      BY <1>6, <3>1
    <3>3. g[i] = IF L[i].type = "entry" THEN Append(g[i - 1], L[i].payload) ELSE g[i - 1]
      BY <1>5, <3>1
    <3> QED  BY <3>1, <3>2, <3>3
  <2>3. m..n \subseteq T
    <3> HIDE DEF T
    <3> QED  BY <1>0, <2>1, <2>2, UpFrom
  <2> QED  BY <2>3
<1>9. f[n] = g[n]
  <2> HIDE DEF f
  <2> QED  BY <1>0, <1>8
<1> HIDE DEF f, D, F
<1> QED  BY <1>3, <1>4, <1>7, <1>9

(* Logs that have the same records have the same acts, one record at a time.*)
LEMMA ActsAre ==
    ASSUME NEW L, LogOK(L), NEW m \in 0..Len(L), NEW n \in m..Len(L)
    PROVE  /\ ActsOf(L, m + 1, n) \in Acts
           /\ n = m => ActsOf(L, m + 1, n) = <<>>
           /\ n > m => ActsOf(L, m + 1, n) = IF L[n].type = "entry"
                                             THEN Append(ActsOf(L, m + 1, n - 1), L[n].payload)
                                             ELSE ActsOf(L, m + 1, n - 1)
<1>0. m \in Nat /\ n \in Nat /\ m <= n
  BY DEF LogOK
<1>1. PICK g \in [m..n -> Acts] :
             /\ ActsOf(L, m + 1, n) = g[n] /\ g[m] = <<>>
             /\ \A i \in (m + 1)..n :
                  g[i] = IF L[i].type = "entry" THEN Append(g[i - 1], L[i].payload) ELSE g[i - 1]
  BY ActsRun
<1>2. ActsOf(L, m + 1, n) \in Acts /\ (n = m => ActsOf(L, m + 1, n) = <<>>)
  BY <1>0, <1>1
<1>3. ASSUME n > m
      PROVE  ActsOf(L, m + 1, n) = IF L[n].type = "entry" THEN Append(ActsOf(L, m + 1, n - 1), L[n].payload)
                                   ELSE ActsOf(L, m + 1, n - 1)
  <2>0. n - 1 \in m..Len(L) /\ n - 1 \in Nat /\ n \in (m + 1)..n
    BY <1>0, <1>3 DEF LogOK
  <2>1. PICK h \in [m..(n - 1) -> Acts] :
             /\ ActsOf(L, m + 1, n - 1) = h[n - 1] /\ h[m] = <<>>
             /\ \A i \in (m + 1)..(n - 1) :
                  h[i] = IF L[i].type = "entry" THEN Append(h[i - 1], L[i].payload) ELSE h[i - 1]
    <3> DEFINE k == n - 1
    <3>1. k \in m..Len(L)
      BY <2>0
    <3> HIDE DEF k
    <3>2. \E h \in [m..k -> Acts] :
             /\ ActsOf(L, m + 1, k) = h[k] /\ h[m] = <<>>
             /\ \A i \in (m + 1)..k :
                  h[i] = IF L[i].type = "entry" THEN Append(h[i - 1], L[i].payload) ELSE h[i - 1]
      BY <3>1, ActsRun
    <3> QED  BY <3>2 DEF k
  <2> DEFINE T == {i \in m..(n - 1) : g[i] = h[i]}
  <2>2. m \in T
    BY <1>0, <1>1, <1>3, <2>1
  <2>3. ASSUME NEW i \in (m + 1)..(n - 1), i - 1 \in T PROVE i \in T
    <3>1. i \in (m + 1)..n /\ i \in m..(n - 1) /\ g[i - 1] = h[i - 1]
      BY <1>0, <2>3
    <3>2. g[i] = IF L[i].type = "entry" THEN Append(g[i - 1], L[i].payload) ELSE g[i - 1]
      BY <1>1, <3>1
    <3>3. h[i] = IF L[i].type = "entry" THEN Append(h[i - 1], L[i].payload) ELSE h[i - 1]
      BY <2>1
    <3> QED  BY <3>1, <3>2, <3>3
  <2>4. g[n - 1] = h[n - 1]
    <3>1. m..(n - 1) \subseteq T
      <4> DEFINE k == n - 1
      <4>1. k \in Nat /\ m \in T /\ \A i \in (m + 1)..k : i - 1 \in T => i \in T
        BY <2>0, <2>2, <2>3
      <4> HIDE DEF T, k
      <4>2. m..k \subseteq T
        BY <1>0, <4>1, UpFrom
      <4> QED  BY <4>2 DEF k
    <3> QED  BY <1>0, <1>3, <3>1
  <2>5. g[n] = IF L[n].type = "entry" THEN Append(g[n - 1], L[n].payload) ELSE g[n - 1]
    BY <1>1, <2>0
  <2> QED  BY <1>1, <2>1, <2>4, <2>5
<1> QED  BY <1>2, <1>3

LEMMA ActsSame ==
    ASSUME NEW L, LogOK(L), NEW M, LogOK(M), NEW m \in 0..Len(L),
           NEW n \in m..Len(L), n <= Len(M),
           \A i \in 1..n : L[i] = M[i]
    PROVE  ActsOf(L, m + 1, n) = ActsOf(M, m + 1, n)
<1> DEFINE T == {i \in m..n : ActsOf(L, m + 1, i) = ActsOf(M, m + 1, i)}
<1>0. m \in Nat /\ n \in Nat /\ m <= n /\ Len(L) \in Nat /\ Len(M) \in Nat /\ m \in 0..Len(M)
      /\ n <= Len(L)
  BY DEF LogOK
<1>1. ASSUME NEW i \in m..n
      PROVE  /\ i = m => ActsOf(L, m + 1, i) = <<>> /\ ActsOf(M, m + 1, i) = <<>>
             /\ i > m => /\ ActsOf(L, m + 1, i) = IF L[i].type = "entry"
                              THEN Append(ActsOf(L, m + 1, i - 1), L[i].payload) ELSE ActsOf(L, m + 1, i - 1)
                         /\ ActsOf(M, m + 1, i) = IF M[i].type = "entry"
                              THEN Append(ActsOf(M, m + 1, i - 1), M[i].payload) ELSE ActsOf(M, m + 1, i - 1)
  <2>1. i \in m..Len(L) /\ i \in m..Len(M)
    BY <1>0
  <2> QED  BY <1>0, <2>1, ActsAre
<1>2. m \in T
  <2>1. m \in m..n
    BY <1>0
  <2> QED  BY <1>1, <2>1
<1>3. ASSUME NEW i \in (m + 1)..n, i - 1 \in T PROVE i \in T
  <2>1. i \in m..n /\ i > m /\ i \in 1..n
    BY <1>0
  <2> QED  BY <1>1, <1>3, <2>1
<1>4. n \in T
  <2>1. m..n \subseteq T
    <3> HIDE DEF T
    <3> QED  BY <1>0, <1>2, <1>3, UpFrom
  <2> QED  BY <1>0, <2>1
<1> QED  BY <1>4

LEMMA ActsSplit ==
    ASSUME NEW L, LogOK(L), NEW m \in 0..Len(L), NEW k \in m..Len(L), NEW n \in k..Len(L)
    PROVE  ActsOf(L, m + 1, n) = ActsOf(L, m + 1, k) \o ActsOf(L, k + 1, n)
<1> DEFINE a == ActsOf(L, m + 1, k)
           T == {i \in k..n : ActsOf(L, m + 1, i) = a \o ActsOf(L, k + 1, i)}
<1>0. m \in Nat /\ n \in Nat /\ k \in Nat /\ m <= k /\ k <= n /\ Len(L) \in Nat
        /\ k \in 0..Len(L)
      /\ n <= Len(L)
  BY DEF LogOK
<1>1. a \in Acts /\ a \o <<>> = a
  <2>1. a \in Acts
    BY ActsAre
  <2> HIDE DEF a
  <2> QED  BY <2>1 DEF Acts
<1>2. k \in T
  <2>1. ActsOf(L, k + 1, k) = <<>>
    <3>1. k \in k..Len(L)
      BY <1>0
    <3> QED  BY <1>0, <3>1, ActsAre
  <2>2. ActsOf(L, m + 1, k) = a \o ActsOf(L, k + 1, k)
    BY <1>1, <2>1
  <2>3. k \in k..n
    BY <1>0
  <2> HIDE DEF a
  <2> QED  BY <2>2, <2>3
<1>3. ASSUME NEW i \in (k + 1)..n, i - 1 \in T PROVE i \in T
  <2>1. /\ i \in k..Len(L) /\ i \in m..Len(L) /\ i > k /\ i > m /\ i \in k..n /\ i \in 1..Len(L)
        /\ i - 1 \in k..Len(L)
    BY <1>0
  <2>2. ActsOf(L, m + 1, i) = IF L[i].type = "entry" THEN Append(ActsOf(L, m + 1, i - 1), L[i].payload)
                              ELSE ActsOf(L, m + 1, i - 1)
    BY <2>1, ActsAre
  <2>3. ActsOf(L, k + 1, i) = IF L[i].type = "entry" THEN Append(ActsOf(L, k + 1, i - 1), L[i].payload)
                              ELSE ActsOf(L, k + 1, i - 1)
    BY <1>0, <2>1, ActsAre
  <2>4. ActsOf(L, m + 1, i - 1) = a \o ActsOf(L, k + 1, i - 1)
    BY <1>3
  <2>5. L[i].type = "entry" => Append(a \o ActsOf(L, k + 1, i - 1), L[i].payload)
                                 = a \o Append(ActsOf(L, k + 1, i - 1), L[i].payload)
    <3>1. ActsOf(L, k + 1, i - 1) \in Acts
      BY <1>0, <2>1, ActsAre
    <3>2. L[i].type = "entry" => L[i].payload \in Waits!Act
      BY <2>1, RecordsAre
    <3> HIDE DEF a
    <3> QED  BY <1>1, <3>1, <3>2, Joined
  <2> HIDE DEF a
  <2> QED  BY <2>1, <2>2, <2>3, <2>4, <2>5
<1>4. n \in T
  <2>1. k..n \subseteq T
    <3> HIDE DEF T
    <3> QED  BY <1>0, <1>2, <1>3, UpFrom
  <2> QED  BY <1>0, <2>1
<1> QED  BY <1>4

-----------------------------------------------------------------------------
(* What the log comes to is what the records before come to with its last.  *)
Follows(L, t) ==
    \A i \in 1..Len(L) : BindAlike(ReplayOn(L, i), Goes(ReplayOn(L, i - 1), L[i]), t)

LEMMA GoesTyped ==
    ASSUME NEW L, LogOK(L), NEW i \in 1..Len(L), NEW w \in WaitsT
    PROVE  Goes(w, L[i]) \in WaitsT
BY RecordsAre, Reduced DEF Goes

LEMMA FollowsLater ==
    ASSUME NEW L, LogOK(L), NEW t \in Nat, NEW u \in Nat, u >= t, Follows(L, t)
    PROVE  Follows(L, u)
<1> SUFFICES ASSUME NEW i \in 1..Len(L)
             PROVE  BindAlike(ReplayOn(L, i), Goes(ReplayOn(L, i - 1), L[i]), u)
  BY DEF Follows
<1>1. i \in 0..Len(L) /\ i - 1 \in 0..Len(L)
  BY DEF LogOK
<1>2. ReplayOn(L, i) \in WaitsT /\ Goes(ReplayOn(L, i - 1), L[i]) \in WaitsT
  BY <1>1, Replayed, GoesTyped
<1>3. BindAlike(ReplayOn(L, i), Goes(ReplayOn(L, i - 1), L[i]), t)
  BY DEF Follows
<1> QED  BY <1>2, <1>3, AlikeGoes

LEMMA FollowsLess ==
    ASSUME NEW L, LogOK(L), NEW M, LogOK(M), NEW t, Follows(L, t), Len(M) <= Len(L),
           \A i \in 1..Len(M) : M[i] = L[i]
    PROVE  Follows(M, t)
<1> SUFFICES ASSUME NEW i \in 1..Len(M)
             PROVE  BindAlike(ReplayOn(M, i), Goes(ReplayOn(M, i - 1), M[i]), t)
  BY DEF Follows
<1>1. /\ i \in 0..Len(M) /\ i - 1 \in 0..Len(M) /\ i <= Len(L) /\ i - 1 <= Len(L)
           /\ i \in 1..Len(L)
      /\ 1..i \subseteq 1..Len(M) /\ 1..(i - 1) \subseteq 1..Len(M)
  BY DEF LogOK
<1>2. ReplayOn(M, i) = ReplayOn(L, i) /\ ReplayOn(M, i - 1) = ReplayOn(L, i - 1)
  BY <1>1, ReplayPrefix
<1> QED  BY <1>1, <1>2 DEF Follows

LEMMA FollowsMore ==
    ASSUME NEW L, LogOK(L), NEW t \in Nat, Follows(L, t), NEW r \in RecordT,
           r.type = "checkpoint" => r.through <= Len(L),
           BindAlike(ReplayOn(Append(L, r), Len(L) + 1), Goes(ReplayOn(L, Len(L)), r), t)
    PROVE  Follows(Append(L, r), t)
<1> DEFINE M == Append(L, r)
<1>0. /\ LogOK(M) /\ Len(M) = Len(L) + 1 /\ Len(L) \in Nat /\ (\A i \in 1..Len(L) : M[i] = L[i])
      /\ M[Len(L) + 1] = r
  BY OneMore
<1>1. BindAlike(ReplayOn(M, Len(L) + 1), Goes(ReplayOn(L, Len(L)), r), t)
  OBVIOUS
<1> HIDE DEF M
<1> SUFFICES ASSUME NEW i \in 1..Len(M)
             PROVE  BindAlike(ReplayOn(M, i), Goes(ReplayOn(M, i - 1), M[i]), t)
  BY DEF Follows, M
<1>2. /\ i - 1 \in 0..Len(L) /\ i - 1 <= Len(M) /\ 1..(i - 1) \subseteq 1..Len(L)
      /\ i \in 0..Len(M)
           /\ (i # Len(L) + 1 => i \in 1..Len(L) /\ i \in 0..Len(L) /\ 1..i \subseteq 1..Len(L)
                /\ i <= Len(M))
  BY <1>0
<1>3. ReplayOn(L, i - 1) = ReplayOn(M, i - 1)
  BY <1>0, <1>2, ReplayPrefix
<1>4. CASE i = Len(L) + 1
  <2>1. i - 1 = Len(L)
    BY <1>0, <1>4
  <2> QED  BY <1>0, <1>1, <1>3, <1>4, <2>1
<1>5. CASE i # Len(L) + 1
  <2>1. ReplayOn(L, i) = ReplayOn(M, i)
    BY <1>0, <1>2, <1>5, ReplayPrefix
  <2> QED  BY <1>0, <1>2, <1>3, <1>5, <2>1 DEF Follows
<1> QED  BY <1>4, <1>5

(* What a longer part of the log comes to is what a shorter one does, with  *)
(* the acts between.                                                        *)
LEMMA FollowsActs ==
    ASSUME NEW L, LogOK(L), NEW t \in Nat, Follows(L, t), NEW m \in 0..Len(L),
           NEW n \in m..Len(L)
    PROVE  BindAlike(ReplayOn(L, n), Waits!ReduceAll(ReplayOn(L, m), ActsOf(L, m + 1, n)), t)
<1> DEFINE w == ReplayOn(L, m)
           T == {i \in m..n : BindAlike(ReplayOn(L, i), Waits!ReduceAll(w, ActsOf(L, m + 1, i)), t)}
<1>0. /\ m \in Nat /\ n \in Nat /\ m <= n /\ n <= Len(L) /\ Len(L) \in Nat
      /\ w \in WaitsT
  BY Replayed DEF LogOK
<1>1. m \in T
  <2>1. ActsOf(L, m + 1, m) = <<>> /\ <<>> \in Seq(Waits!Act) /\ m \in m..n
    <3>1. m \in m..Len(L) /\ m \in m..n /\ <<>> \in Seq(Waits!Act)
      BY <1>0
    <3> QED  BY <3>1, ActsAre
  <2>2. Waits!ReduceAll(w, ActsOf(L, m + 1, m)) = w
    <3> HIDE DEF w
    <3> QED  BY <1>0, <2>1, ReducesAll
  <2>3. BindAlike(w, w, t)
    BY DEF BindAlike
  <2> QED  BY <2>1, <2>2, <2>3
<1>2. ASSUME NEW i \in (m + 1)..n, i - 1 \in T PROVE i \in T
  <2> DEFINE a == ActsOf(L, m + 1, i - 1)
             x == ReplayOn(L, i - 1)
             y == Waits!ReduceAll(w, a)
  <2>1. /\ i \in m..n /\ i > m /\ i \in m..Len(L) /\ i - 1 \in m..Len(L) /\ i \in 1..Len(L)
        /\ i \in 0..Len(L) /\ i - 1 \in 0..Len(L)
    BY <1>0
  <2>2. a \in Seq(Waits!Act) /\ x \in WaitsT /\ ReplayOn(L, i) \in WaitsT
    BY <2>1, ActsAre, Replayed DEF Acts
  <2>3. ActsOf(L, m + 1, i) = IF L[i].type = "entry" THEN Append(a, L[i].payload) ELSE a
    BY <2>1, ActsAre
  <2>4. BindAlike(x, y, t)
    BY <1>2
  <2>5. BindAlike(ReplayOn(L, i), Goes(x, L[i]), t)
    BY <2>1 DEF Follows
  <2> HIDE DEF a, x, w
  <2>6. y \in WaitsT
    BY <1>0, <2>2, ReducesAll
  <2>7. Goes(x, L[i]) \in WaitsT /\ Goes(y, L[i]) \in WaitsT
    <3> HIDE DEF y
    <3> QED  BY <2>1, <2>2, <2>6, GoesTyped
  <2>8. BindAlike(Goes(x, L[i]), Goes(y, L[i]), t)
    <3> HIDE DEF y
    <3>1. L[i].type = "entry" => L[i].payload \in Waits!Act
      BY <2>1, RecordsAre
    <3> QED  BY <2>2, <2>4, <2>6, <3>1, ReduceAlike DEF Goes
  <2>9. Waits!ReduceAll(w, ActsOf(L, m + 1, i)) = Goes(y, L[i])
    <3>1. L[i].type = "entry" => L[i].payload \in Waits!Act
      BY <2>1, RecordsAre
    <3> QED  BY <1>0, <2>2, <2>3, <3>1, ReducesLast DEF Goes
  <2>10. BindAlike(ReplayOn(L, i), Goes(y, L[i]), t)
    <3> HIDE DEF y
    <3> QED  BY <2>2, <2>5, <2>7, <2>8, AlikeGoes
  <2> QED  BY <2>1, <2>9, <2>10 DEF w
<1>3. n \in T
  <2>1. m..n \subseteq T
    <3> HIDE DEF T
    <3> QED  BY <1>0, <1>1, <1>2, UpFrom
  <2> QED  BY <1>0, <2>1
<1> QED  BY <1>3

-----------------------------------------------------------------------------
(* The promise.                                                             *)
PromiseInv == WaitsInv /\ Follows(log, now)
Unsure == ActsOf(log, stable + 1, Len(log))         \* acts of the log that may be lost
Sure == ReplayOn(log, stable)

LEMMA PromiseHas ==
    ASSUME PromiseInv
    PROVE  /\ LogOK(log) /\ Len(log) \in Nat /\ stable \in 0..Len(log)
                /\ visible \in 0..Len(log)
           /\ now \in Nat /\ pending \in Acts /\ Unsure \in Acts /\ Sure \in WaitsT
                /\ Follows(log, now)
           /\ Unsure \o pending \in Acts
<1>1. /\ LogOK(log) /\ Len(log) \in Nat /\ stable \in 0..Len(log) /\ visible \in 0..Len(log)
      /\ now \in Nat /\ pending \in Acts /\ Follows(log, now)
  <2>1. LogOK(log) /\ stable \in 0..Len(log) /\ visible \in 0..Len(log) /\ pending \in Acts
          /\ Follows(log, now)
    BY DEF PromiseInv, WaitsInv, Held, Journal, Acts
  <2>2. now \in Nat
    <3>1. now \in 0..LastInstant
      BY DEF PromiseInv, WaitsInv, Held
    <3> QED  BY <3>1, WaitsTyped
  <2>3. Len(log) \in Nat
    BY <2>1 DEF LogOK
  <2> QED  BY <2>1, <2>2, <2>3
<1>2. Len(log) \in stable..Len(log)
  BY <1>1
<1>3. Unsure \in Acts /\ Sure \in WaitsT
  BY <1>1, <1>2, ActsAre, Replayed DEF Unsure, Sure
<1>4. Unsure \o pending \in Acts
  BY <1>1, <1>3 DEF Acts
<1> QED  BY <1>1, <1>3, <1>4

LEMMA PromiseMapped ==
    /\ Waits!Promise!vars = <<Waits!Live(Sure, now), Waits!Once(Unsure \o pending), now>>
    /\ Waits!Tentative = Waits!Once(Unsure \o pending)
    /\ Waits!Replay(stable) = Sure
BY ReplayIs DEF Waits!Promise!vars, Waits!Tentative, Waits!ActsIn, Unsure, ActsOf, Sure

LEMMA PromiseMappedNext ==
    /\ Waits!Promise!vars' = <<Waits!Live(Sure', now'), Waits!Once(Unsure' \o pending'), now'>>
    /\ Waits!Tentative' = Waits!Once(Unsure' \o pending')
    /\ Waits!Replay(stable)' = Sure'
BY DEF Waits!Promise!vars, Waits!Tentative, Waits!ActsIn, Unsure, ActsOf, Sure, Waits!Replay,
       Waits!ReplayFrom, ReplayOn, ReplayBy, LatestIn, Waits!IdsOf

(* The first acts, taken one after the other.                               *)
LEMMA ThroughIs ==
    ASSUME PromiseInv, NEW s \in Acts, NEW u \in Acts, NEW r \in Acts, s = u \o r
    PROVE  Waits!Promise!Through(s, Len(u)) = Waits!ReduceAll(Waits!Live(Sure, now), u)
<1> DEFINE n == Len(u)
           w == Waits!Live(Waits!Replay(stable), now)
           D(g) == g = [i \in 0..n |-> IF i = 0 THEN w ELSE Waits!Promise!After(g[i - 1], s[i])]
           f == CHOOSE g : D(g)
<1>0. n \in Nat /\ \A i \in 1..n : s[i] = u[i] /\ u[i] \in Waits!Act
  BY DEF Acts
<1>1. w = Waits!Live(Sure, now) /\ w \in WaitsT
  <2>1. w = Waits!Live(Sure, now)
    BY PromiseMapped
  <2>2. Sure \in WaitsT /\ now \in Nat
    <3> HIDE DEF f, D, w
    <3> QED  BY PromiseHas
  <2> QED  BY <2>1, <2>2, LiveIs
<1>2. Waits!Promise!Through(s, n) = f[n]
  BY DEF Waits!Promise!Through
<1> HIDE DEF w
<1>3. PICK g : Course(w, u, g) /\ Waits!ReduceAll(w, u) = g[n]
  BY <1>1, CourseOf DEF Acts
<1>4. ASSUME NEW x \in WaitsT, NEW i \in 1..n
      PROVE  Waits!Promise!After(x, s[i]) = Waits!Reduce(x, u[i])
  <2>1. \A k \in Waits!Key : x[k] \in Nat
    BY WaitsTyped DEF WaitsT
  <2>2. u[i].until \in Nat
    BY <1>0, WaitsTyped DEF Waits!Act
  <2>3. s[i] = u[i]
    BY <1>0
  <2>4. Waits!Promise!Key = Waits!Key
    BY DEF Waits!Promise!Key, Waits!Key
  <2> HIDE DEF n
  <2> QED  BY <2>1, <2>2, <2>3, <2>4 DEF Waits!Promise!After, Waits!Reduce, Waits!Names
<1>5. D(g)
  <2>1. g \in [0..n -> WaitsT] /\ g = [i \in 0..n |-> g[i]]
    BY <1>3 DEF Course
  <2>2. ASSUME NEW i \in 0..n
        PROVE  g[i] = IF i = 0 THEN w ELSE Waits!Promise!After(g[i - 1], s[i])
    <3>1. i = 0 \/ (i \in 1..n /\ i - 1 \in 0..n)
      BY <1>0
    <3> QED  BY <1>3, <1>4, <2>1, <3>1 DEF Course
  <2> QED  BY <2>1, <2>2
<1>6. D(f)
  <2> HIDE DEF D
  <2> QED  BY <1>5
<1>7. \A i \in 0..n : f[i] = g[i]
  <2> HIDE DEF f
  <2> DEFINE T == {i \in 0..n : f[i] = g[i]}
  <2>1. 0 \in T
    BY <1>0, <1>5, <1>6
  <2>2. ASSUME NEW i \in (0 + 1)..n, i - 1 \in T PROVE i \in T
    <3>1. i \in 0..n /\ i # 0 /\ f[i - 1] = g[i - 1]
      BY <1>0, <2>2
    <3>2. f[i] = Waits!Promise!After(f[i - 1], s[i])
      BY <1>6, <3>1
    <3>3. g[i] = Waits!Promise!After(g[i - 1], s[i])
      BY <1>5, <3>1
    <3> QED  BY <3>1, <3>2, <3>3
  <2>3. 0..n \subseteq T
    <3> HIDE DEF T, n
    <3> QED  BY <1>0, <2>1, <2>2, UpFrom
  <2> QED  BY <2>3
<1>8. f[n] = g[n]
  <2> HIDE DEF f
  <2> QED  BY <1>0, <1>7
<1> HIDE DEF f, D
<1> QED  BY <1>1, <1>2, <1>3, <1>8

(* A part of a sequence.                                                    *)
LEMMA Parts ==
    ASSUME NEW u \in Acts, NEW r \in Acts
    PROVE  /\ Len(u \o r) = Len(u) + Len(r) /\ Len(u) \in Nat /\ Len(r) \in Nat
           /\ SubSeq(u \o r, 1, Len(u)) = u
           /\ SubSeq(u \o r, Len(u) + 1, Len(u \o r)) = r
           /\ u # <<>> => Len(u) > 0 /\ SubSeq(u \o r, Len(u), Len(u \o r)) = <<u[Len(u)]>> \o r
<1> DEFINE s == u \o r
           n == Len(u)
           m == Len(r)
<1>1. /\ s \in Acts /\ Len(s) = n + m /\ n \in Nat /\ m \in Nat
      /\ \A i \in 1..n : s[i] = u[i]
      /\ \A i \in 1..m : s[n + i] = r[i]
  BY DEF Acts
<1> HIDE DEF s
<1>2. SubSeq(s, 1, n) = u
  <2> DEFINE p == SubSeq(s, 1, n)
  <2>1. n \in 0..Len(s)
    BY <1>1
  <2>2. p \in Acts /\ Len(p) = n /\ \A i \in 1..n : p[i] = s[i]
    <3> HIDE DEF n
    <3> QED  BY <1>1, <2>1 DEF Acts
  <2> HIDE DEF p
  <2> QED  BY <1>1, <2>2 DEF Acts
<1>3. SubSeq(s, n + 1, n + m) = r
  <2> DEFINE p == SubSeq(s, n + 1, n + m)
  <2>2. p \in Acts /\ Len(p) = m /\ \A i \in 1..m : p[i] = s[n + i]
    <3> HIDE DEF n, m
    <3>1. n + 1 \in 1..(n + m + 1) /\ (n + m) - (n + 1) + 1 = m
            /\ \A i \in 1..m : (n + 1) + i - 1 = n + i /\ n + i \in 1..(n + m)
      BY <1>1
    <3> QED  BY <1>1, <3>1 DEF Acts
  <2>3. \A i \in 1..m : p[i] = r[i]
    BY <1>1, <2>2
  <2> HIDE DEF p
  <2>4. p \in Seq(Waits!Act) /\ r \in Seq(Waits!Act) /\ Len(p) = Len(r)
          /\ \A i \in 1..Len(p) : p[i] = r[i]
    BY <2>2, <2>3 DEF Acts
  <2> QED  BY <2>4, SeqEqual DEF p
<1>4. ASSUME u # <<>> PROVE n > 0 /\ SubSeq(s, n, n + m) = <<u[n]>> \o r
  <2> DEFINE p == SubSeq(s, n, n + m)
             q == <<u[n]>> \o r
  <2>1. n > 0 /\ u[n] \in Waits!Act
    BY <1>1, <1>4 DEF Acts
  <2>2. p \in Acts /\ Len(p) = m + 1 /\ \A i \in 1..(m + 1) : p[i] = s[n + i - 1]
    <3> HIDE DEF n, m
    <3>1. (n + m) - n + 1 = m + 1 /\ \A i \in 1..(m + 1) : n + i - 1 \in 1..(n + m)
      BY <1>1, <2>1
    <3> QED  BY <1>1, <2>1, <3>1 DEF Acts
  <2>3. q \in Acts /\ Len(q) = m + 1 /\ q[1] = u[n] /\ \A i \in 2..(m + 1) : q[i] = r[i - 1]
    <3> DEFINE a == u[n]
    <3>1. a \in Waits!Act
      BY <2>1
    <3> HIDE DEF a
    <3>2. <<a>> \o r \in Acts /\ Len(<<a>> \o r) = m + 1 /\ (<<a>> \o r)[1] = a
          /\ \A i \in 2..(m + 1) : (<<a>> \o r)[i] = r[i - 1]
      BY <3>1 DEF Acts
    <3> QED  BY <3>2 DEF a
  <2>4. \A i \in 1..(m + 1) : p[i] = q[i]
    <3> SUFFICES ASSUME NEW i \in 1..(m + 1) PROVE p[i] = q[i]
      OBVIOUS
    <3> HIDE DEF p, q, n, m
    <3>1. CASE i = 1
      <4>1. n + i - 1 = n /\ n \in 1..n
        BY <1>1, <2>1, <3>1
      <4> QED  BY <1>1, <2>2, <2>3, <3>1, <4>1
    <3>2. CASE i # 1
      <4>1. i \in 2..(m + 1) /\ i - 1 \in 1..m /\ n + i - 1 = n + (i - 1)
        BY <1>1, <3>2
      <4> QED  BY <1>1, <2>2, <2>3, <4>1
    <3> QED  BY <3>1, <3>2
  <2> HIDE DEF p, q
  <2>5. p = q
    BY <2>2, <2>3, <2>4, SeqEqual DEF Acts
  <2> QED  BY <2>1, <2>5 DEF p, q
<1> QED  BY <1>1, <1>2, <1>3, <1>4 DEF s

(* A promise kept: acts and deadlines as before.                            *)
LEMMA PromiseStands ==
    ASSUME Waits!Live(Sure', now') = Waits!Live(Sure, now), now' = now,
           Waits!Once(Unsure' \o pending') = Waits!Once(Unsure \o pending)
    PROVE  UNCHANGED Waits!Promise!vars
BY PromiseMapped, PromiseMappedNext

LEMMA PromiseAlone ==
    ASSUME UNCHANGED <<log, stable, now, pending>>
    PROVE  UNCHANGED Waits!Promise!vars /\ Follows(log, now)' = Follows(log, now)
<1>1. Sure' = Sure /\ Unsure' = Unsure
  BY DEF Sure, Unsure
<1>2. Follows(log, now)' = Follows(log, now)
  OBVIOUS
<1> QED  BY <1>1, <1>2, PromiseStands

(* An act is made.                                                          *)
LEMMA PromiseDoes ==
    ASSUME PromiseInv, UNCHANGED <<log, stable, now>>, NEW act \in Waits!Act,
           act.kind = "set" => act.until > now, pending' = Append(pending, act)
    PROVE  [Waits!Promise!Next]_(Waits!Promise!vars)
<1> DEFINE x == Unsure \o pending
<1>1. Unsure \in Acts /\ pending \in Acts /\ x \in Acts
  BY PromiseHas
<1>2. Sure' = Sure /\ Unsure' = Unsure /\ UNCHANGED now
  BY DEF Sure, Unsure
<1>3. Unsure' \o pending' = Append(x, act)
  BY <1>1, <1>2, Joined
<1> HIDE DEF x
<1>4. CASE Repeats(x, act)
  <2>1. Waits!Once(Append(x, act)) = Waits!Once(x)
    BY <1>1, <1>4, OnceMore
  <2>2. UNCHANGED Waits!Promise!vars
    BY <1>2, <1>3, <2>1, PromiseStands DEF x
  <2> QED  BY <2>2
<1>5. CASE ~Repeats(x, act)
  <2> DEFINE o == Waits!Once(x)
  <2>1. o \in Acts /\ Waits!Once(Append(x, act)) = Append(o, act)
    BY <1>1, <1>5, OnceMore, OnceIs
  <2>2. Waits!Tentative = o /\ Waits!Tentative' = Append(o, act)
    BY <1>3, <2>1, PromiseMapped, PromiseMappedNext DEF x
  <2> HIDE DEF o
  <2>3. Waits!Tentative' # <<>> /\ Waits!Promise!Last(Waits!Tentative') = act
    BY <2>1, <2>2 DEF Acts, Waits!Promise!Last
  <2>4. act \in Waits!Promise!Act
    BY DEF Waits!Act, Waits!Promise!Act, Waits!Forever, Waits!Promise!Forever
  <2>5. UNCHANGED Waits!Live(Waits!Replay(stable), now)
    BY <1>2, PromiseMapped, PromiseMappedNext
  <2>6. Waits!Promise!Do
    <3>1. UNCHANGED now /\ UNCHANGED Waits!Live(Waits!Replay(stable), now)
            /\ Waits!Tentative' # <<>>
      BY <1>2, <2>3, <2>5
    <3>2. LET last == Waits!Promise!Last(Waits!Tentative')
          IN  /\ last \in Waits!Promise!Act
              /\ last.kind = "set" => last.until > now
              /\ Waits!Tentative' = Append(Waits!Tentative, last)
      <4>1. Waits!Tentative' = Append(Waits!Tentative, act)
        BY <2>2
      <4> QED  BY <2>3, <2>4, <4>1
    <3> QED  BY <3>1, <3>2 DEF Waits!Promise!Do
  <2> QED  BY <2>6 DEF Waits!Promise!Next
<1> QED  BY <1>4, <1>5

(* The first of the acts become sure.                                       *)
LEMMA PromiseRecords ==
    ASSUME PromiseInv, NEW u \in Acts, NEW t \in Acts, Unsure \o pending = u \o t,
           Unsure' \o pending' = t, now' = now, Sure' \in WaitsT,
           BindAlike(Sure', Waits!ReduceAll(Sure, u), now)
    PROVE  [Waits!Promise!Next]_(Waits!Promise!vars)
<1> DEFINE o == Waits!Once(u)
           s == Waits!Once(u \o t)
           n == Len(o)
           w == Waits!Live(Sure, now)
<1>1. o \in Acts /\ s \in Acts /\ Sure \in WaitsT /\ now \in Nat /\ w \in WaitsT
        /\ BindAlike(w, Sure, now)
  <2>1. u \o t \in Acts
    BY DEF Acts
  <2> QED  BY <2>1, OnceIs, PromiseHas, LiveIs
<1>2. Waits!Tentative = s /\ Waits!Tentative' = Waits!Once(t)
  BY PromiseMapped, PromiseMappedNext
<1>3. PICK r \in Acts : s = o \o r
             /\ (Waits!Once(t) = r \/ (u # <<>> /\ Waits!Once(t) = <<u[Len(u)]>> \o r))
  BY OnceJoined
<1>4. Waits!Live(Sure', now') = Waits!Live(Waits!ReduceAll(w, o), now)
  <2>1. Waits!ReduceAll(w, o) = Waits!ReduceAll(w, u)
    <3> HIDE DEF w
    <3> QED  BY <1>1, OnceReduces
  <2>2. Waits!ReduceAll(w, u) \in WaitsT /\ Waits!ReduceAll(Sure, u) \in WaitsT
    <3> HIDE DEF w
    <3> QED  BY <1>1, ReducesAll DEF Acts
  <2>3. BindAlike(Waits!ReduceAll(w, u), Waits!ReduceAll(Sure, u), now)
    <3> HIDE DEF w
    <3> QED  BY <1>1, AllAlike DEF Acts
  <2>4. BindAlike(Waits!ReduceAll(Sure, u), Waits!ReduceAll(w, u), now)
    <3> HIDE DEF w
    <3> QED  BY <1>1, <2>2, <2>3, AlikeGoes
  <2>5. BindAlike(Sure', Waits!ReduceAll(w, u), now)
    <3> HIDE DEF w
    <3> QED  BY <1>1, <2>2, <2>4, AlikeGoes
  <2> HIDE DEF w, o
  <2> QED  BY <1>1, <2>1, <2>2, <2>5, LiveAlike
<1>5. CASE u = <<>>
  <2>1. o = <<>> /\ u \o t = t /\ Waits!ReduceAll(w, o) = w
    <3>1. o = <<>> /\ u \o t = t
      <4>1. <<>> \o t = t
        BY DEF Acts
      <4> QED  BY <1>5, <4>1, OnceIs
    <3> HIDE DEF o, w
    <3> QED  BY <1>1, <3>1, ReducesAll DEF Acts
  <2>2. Waits!Live(w, now) = w
    <3>1. \A k \in Waits!Key : Sure[k] \in Nat
      BY <1>1, WaitsTyped DEF WaitsT
    <3> QED  BY <1>1, <3>1 DEF Waits!Live
  <2>3. UNCHANGED Waits!Promise!vars
    BY <1>4, <2>1, <2>2, PromiseStands
  <2> QED  BY <2>3
<1>6. CASE u # <<>>
  <2>1. o # <<>> /\ o[n] = u[Len(u)]
    BY <1>6, OnceLast
  <2> HIDE DEF w, o, s
  <2>2. /\ Len(s) = n + Len(r) /\ n \in Nat /\ n > 0 /\ Len(r) \in Nat
        /\ SubSeq(s, n + 1, Len(s)) = r /\ SubSeq(s, n, Len(s)) = <<o[n]>> \o r
    <3>1. s = o \o r /\ n = Len(o) /\ o \in Acts /\ r \in Acts /\ o # <<>>
      BY <1>1, <1>3, <2>1
    <3>2. /\ Len(o \o r) = Len(o) + Len(r) /\ Len(o) \in Nat /\ Len(r) \in Nat /\ Len(o) > 0
          /\ SubSeq(o \o r, Len(o) + 1, Len(o \o r)) = r
          /\ SubSeq(o \o r, Len(o), Len(o \o r)) = <<o[Len(o)]>> \o r
      BY <3>1, Parts
    <3> QED  BY <3>1, <3>2
  <2>3. n \in 1..Len(Waits!Tentative)
    BY <1>2, <2>2
  <2>4. Waits!Tentative' \in {SubSeq(s, i, Len(s)) : i \in n..(n + 1)}
    <3>1. n \in n..(n + 1) /\ n + 1 \in n..(n + 1)
      BY <2>2
    <3>2. Waits!Tentative' = SubSeq(s, n + 1, Len(s)) \/ Waits!Tentative' = SubSeq(s, n, Len(s))
      BY <1>2, <1>3, <2>1, <2>2
    <3> QED  BY <3>1, <3>2
  <2>5. Waits!Promise!Through(Waits!Tentative, n) = Waits!ReduceAll(w, o)
    BY <1>1, <1>2, <1>3, ThroughIs DEF w
  <2>6. Waits!Live(Waits!Replay(stable), now)' = Waits!Promise!Passed(Waits!Promise!Through(Waits!Tentative, n), now)
    BY <1>4, <2>5, PromiseMappedNext
       DEF Waits!Promise!Passed, Waits!Live, Waits!Promise!Key, Waits!Key
  <2>7. Waits!Promise!Record(n)
    BY <1>2, <2>4, <2>6 DEF Waits!Promise!Record
  <2> QED  BY <2>3, <2>7 DEF Waits!Promise!Next
<1> QED  BY <1>5, <1>6

LEMMA PromiseTicks ==
    ASSUME PromiseInv, Waits!Tick
    PROVE  [Waits!Promise!Next]_(Waits!Promise!vars) /\ Follows(log, now)'
<1>1. /\ UNCHANGED <<log, stable, pending>> /\ now < LastInstant /\ now' = now + 1
      /\ now \in Nat /\ Sure \in WaitsT /\ LogOK(log) /\ Follows(log, now)
  BY PromiseHas DEF Waits!Tick, Waits!store, Waits!process
<1>2. Sure' = Sure /\ Unsure' = Unsure
  BY <1>1 DEF Sure, Unsure
<1>3. UNCHANGED Waits!Tentative
  BY <1>1, <1>2, PromiseMapped, PromiseMappedNext
<1>4. Waits!Live(Sure, now + 1) = Waits!Promise!Passed(Waits!Live(Sure, now), now + 1)
  <2>1. \A k \in Waits!Key : Sure[k] \in Nat
    BY <1>1, WaitsTyped DEF WaitsT
  <2>2. \A k \in Waits!Key : Waits!Live(Sure, now)[k] = IF Sure[k] > now THEN Sure[k] ELSE 0
    BY DEF Waits!Live
  <2>3. \A k \in Waits!Key : (IF Sure[k] > now + 1 THEN Sure[k] ELSE 0)
          = (IF Waits!Live(Sure, now)[k] > now + 1 THEN Waits!Live(Sure, now)[k] ELSE 0)
    BY <1>1, <2>1, <2>2
  <2>4. Waits!Promise!Key = Waits!Key
    BY DEF Waits!Promise!Key, Waits!Key
  <2> QED  BY <2>3, <2>4 DEF Waits!Promise!Passed, Waits!Live
<1>5. Waits!Live(Waits!Replay(stable), now)' = Waits!Promise!Passed(Waits!Live(Waits!Replay(stable), now), now')
  BY <1>1, <1>2, <1>4, PromiseMapped, PromiseMappedNext
<1>6. Waits!Promise!Tick
  BY <1>1, <1>3, <1>5 DEF Waits!Promise!Tick
<1>7. Follows(log, now)'
  BY <1>1, FollowsLater
<1> QED  BY <1>6, <1>7 DEF Waits!Promise!Next

LEMMA Associates ==
    ASSUME NEW s \in Acts, NEW t \in Acts, NEW u \in Acts
    PROVE  (s \o t) \o u = s \o (t \o u) /\ t \o u \in Acts /\ s \o <<>> = s
<1> DEFINE p == (s \o t) \o u
           q == s \o (t \o u)
           k == Len(s)
           m == Len(t)
           n == Len(u)
<1>1. /\ t \o u \in Acts /\ s \o <<>> = s /\ p \in Acts /\ q \in Acts
      /\ k \in Nat /\ m \in Nat /\ n \in Nat /\ Len(p) = k + m + n /\ Len(q) = k + m + n
  BY DEF Acts
<1>2. ASSUME NEW i \in 1..(k + m + n) PROVE p[i] = q[i]
  <2>1. /\ p[i] = IF i <= k + m THEN (s \o t)[i] ELSE u[i - (k + m)]
        /\ i <= k + m => (s \o t)[i] = IF i <= k THEN s[i] ELSE t[i - k]
    BY <1>1 DEF Acts
  <2>2. /\ q[i] = IF i <= k THEN s[i] ELSE (t \o u)[i - k]
        /\ i > k => (t \o u)[i - k] = IF i - k <= m THEN t[i - k] ELSE u[(i - k) - m]
    BY <1>1 DEF Acts
  <2> HIDE DEF p, q, k, m, n
  <2>3. i \in Nat /\ (i > k + m => i > k /\ ~(i - k <= m) /\ (i - k) - m = i - (k + m))
        /\ (i <= k + m /\ i > k => i - k <= m)
    BY <1>1
  <2>4. CASE i <= k
    <3>1. i <= k + m
      BY <1>1, <2>3, <2>4
    <3> QED  BY <2>1, <2>2, <2>4, <3>1
  <2>5. CASE i > k /\ i <= k + m
    <3>1. ~(i <= k)
      BY <1>1, <2>3, <2>5
    <3> QED  BY <2>1, <2>2, <2>3, <2>5, <3>1
  <2>6. CASE i > k + m
    <3>1. ~(i <= k) /\ ~(i <= k + m)
      BY <1>1, <2>3, <2>6
    <3> QED  BY <2>1, <2>2, <2>3, <2>6, <3>1
  <2> QED  BY <1>1, <2>3, <2>4, <2>5, <2>6
<1> HIDE DEF p, q
<1>3. p = q
  BY <1>1, <1>2, SeqEqual DEF Acts
<1> QED  BY <1>1, <1>3 DEF p, q

LEMMA PromiseRestarts ==
    ASSUME PromiseInv, Waits!Restarts
    PROVE  [Waits!Promise!Next]_(Waits!Promise!vars) /\ Follows(log, now)'
<1>0. /\ LogOK(log) /\ Len(log) \in Nat /\ stable \in 0..Len(log) /\ pending \in Acts
      /\ Unsure \in Acts /\ Sure \in WaitsT /\ Follows(log, now) /\ UNCHANGED <<now, stable>>
           /\ pending' = <<>>
  BY PromiseHas DEF Waits!Restarts, Waits!StoreReopens
<1>1. PICK kept \in stable..Len(log) : log' = SubSeq(log, 1, kept)
  BY DEF Waits!Restarts, Waits!StoreReopens
<1>2. kept \in 0..Len(log) /\ stable <= kept /\ stable \in Nat
  BY <1>0, <1>1
<1>3. log' \in Seq(RecordT) /\ Len(log') = kept /\ \A i \in 1..kept : log'[i] = log[i]
  BY <1>0, <1>1, <1>2 DEF LogOK
<1>4. LogOK(log')
  BY <1>0, <1>2, <1>3 DEF LogOK
<1>5. Follows(log, now)'
  <2>1. Follows(log', now)
    BY <1>0, <1>2, <1>3, <1>4, FollowsLess
  <2> QED  BY <1>0, <2>1
<1>6. Sure' = Sure
  <2>1. stable <= Len(log') /\ \A i \in 1..stable : log[i] = log'[i]
    BY <1>2, <1>3
  <2> QED  BY <1>0, <1>4, <2>1, ReplayPrefix DEF Sure
<1> DEFINE u == Unsure'
           t == ActsOf(log, kept + 1, Len(log)) \o pending
<1>7. u = ActsOf(log, stable + 1, kept)
  <2>1. /\ kept \in stable..Len(log) /\ kept <= Len(log') /\ \A i \in 1..kept : log[i] = log'[i]
    BY <1>2, <1>3
  <2>2. ActsOf(log, stable + 1, kept) = ActsOf(log', stable + 1, kept)
    BY <1>0, <1>4, <2>1, ActsSame
  <2> QED  BY <1>0, <1>3, <2>2 DEF Unsure
<1>8. u \in Acts /\ t \in Acts /\ Unsure \o pending = u \o t /\ u \o <<>> = u
  <2> DEFINE v == ActsOf(log, kept + 1, Len(log))
  <2>1. Len(log) \in kept..Len(log)
    BY <1>0, <1>2
  <2>2. ActsOf(log, stable + 1, kept) \in Acts /\ v \in Acts
    BY <1>0, <1>1, <1>2, <2>1, ActsAre
  <2>3. Unsure = ActsOf(log, stable + 1, kept) \o v
    BY <1>0, <1>1, <2>1, ActsSplit DEF Unsure
  <2> HIDE DEF v, u
  <2>4. Unsure = u \o v /\ u \in Acts
    BY <1>7, <2>2, <2>3
  <2>5. (u \o v) \o pending = u \o (v \o pending) /\ v \o pending \in Acts /\ u \o <<>> = u
    BY <1>0, <2>2, <2>4, Associates
  <2> QED  BY <2>4, <2>5 DEF v
<1> HIDE DEF u, t
<1>9. PICK r \in Acts : Waits!Once(u \o t) = Waits!Once(u) \o r
  BY <1>8, OnceJoined
<1>10. Waits!Tentative = Waits!Once(u) \o r /\ Waits!Tentative' = Waits!Once(u)
  <2>1. Unsure' \o pending' = u
    BY <1>0, <1>8 DEF u
  <2> QED  BY <1>8, <1>9, <2>1, PromiseMapped, PromiseMappedNext
<1>11. Waits!Once(u) \in Acts
  BY <1>8, OnceIs
<1>12. \E n \in 0..Len(Waits!Tentative) : Waits!Tentative' = SubSeq(Waits!Tentative, 1, n)
  <2> DEFINE n == Len(Waits!Once(u))
  <2>1. n \in 0..Len(Waits!Tentative) /\ Waits!Tentative' = SubSeq(Waits!Tentative, 1, n)
    <3>1. /\ Len(Waits!Once(u) \o r) = n + Len(r) /\ n \in Nat /\ Len(r) \in Nat
          /\ SubSeq(Waits!Once(u) \o r, 1, n) = Waits!Once(u)
      BY <1>11, Parts
    <3> HIDE DEF n
    <3> QED  BY <1>10, <3>1
  <2> QED  BY <2>1
<1>13. UNCHANGED Waits!Live(Waits!Replay(stable), now)
  BY <1>0, <1>6, PromiseMapped, PromiseMappedNext
<1>14. Waits!Promise!Restart
  BY <1>0, <1>12, <1>13 DEF Waits!Promise!Restart
<1> QED  BY <1>5, <1>14 DEF Waits!Promise!Next

(* The log with one act more.                                               *)
LEMMA UnsureMore ==
    ASSUME PromiseInv, NEW r \in RecordT, r.type = "checkpoint" => r.through <= Len(log)
    PROVE  LET more == Append(log, r)
               n == Len(log)
           IN  /\ LogOK(more) /\ Len(more) = n + 1 /\ stable \in 0..Len(more)
               /\ ReplayOn(more, stable) = Sure /\ ReplayOn(more, n) = ReplayOn(log, n)
               /\ ActsOf(more, stable + 1, n + 1) = IF r.type = "entry" THEN Append(Unsure, r.payload) ELSE Unsure
               /\ ActsOf(more, (n + 1) + 1, n + 1) = <<>>
<1> DEFINE more == Append(log, r)
           n == Len(log)
<1>1. /\ LogOK(log) /\ n \in Nat /\ stable \in 0..n /\ stable \in Nat
  BY PromiseHas
<1>2. /\ LogOK(more) /\ Len(more) = n + 1 /\ \A i \in 1..n : more[i] = log[i]
      /\ more[n + 1] = r
  BY <1>1, OneMore
<1> HIDE DEF more
<1>3. stable \in 0..Len(more) /\ n + 1 \in stable..Len(more) /\ n + 1 > stable
        /\ (n + 1) - 1 = n
      /\ n + 1 \in 0..Len(more) /\ n + 1 \in (n + 1)..Len(more) /\ n \in stable..n /\ n \in 0..n
           /\ n <= Len(more)
      /\ stable <= Len(more) /\ 1..stable \subseteq 1..n
  BY <1>1, <1>2
<1>4. ReplayOn(more, stable) = Sure
  BY <1>1, <1>2, <1>3, ReplayPrefix DEF Sure
<1>5. ReplayOn(more, n) = ReplayOn(log, n)
  BY <1>1, <1>2, <1>3, ReplayPrefix
<1>6. ActsOf(more, stable + 1, n + 1) = IF r.type = "entry" THEN Append(ActsOf(more, stable + 1, n), r.payload)
                                        ELSE ActsOf(more, stable + 1, n)
  <2> HIDE DEF n
  <2> QED  BY <1>2, <1>3, ActsAre
<1>7. ActsOf(more, stable + 1, n) = Unsure
  BY <1>1, <1>2, <1>3, ActsSame DEF Unsure
<1>8. ActsOf(more, (n + 1) + 1, n + 1) = <<>>
  <2> HIDE DEF n
  <2> QED  BY <1>2, <1>3, ActsAre
<1> QED  BY <1>2, <1>3, <1>4, <1>5, <1>6, <1>7, <1>8 DEF more

(* What an act is added to ends with it.                                    *)
LEMMA EndsWith ==
    ASSUME NEW s \in Acts, NEW act \in Waits!Act
    PROVE  Append(s, act) \in Acts /\ Append(s, act) # <<>>
             /\ Append(s, act)[Len(Append(s, act))] = act
  BY DEF Acts

(* An entry is recorded, or offered again without being sure.               *)
LEMMA PromiseAppends ==
    ASSUME PromiseInv, Waits!FlushAppends
    PROVE  [Waits!Promise!Next]_(Waits!Promise!vars) /\ Follows(log, now)'
<1> DEFINE act == Head(pending)
           rest == Tail(pending)
           entry == Waits!EntryRecord(act)
           more == Append(log, entry)
           n == Len(log)
           w == ReplayOn(log, n)
<1>0. /\ LogOK(log) /\ n \in Nat /\ stable \in 0..n /\ now \in Nat /\ pending \in Acts
      /\ Unsure \in Acts /\ Sure \in WaitsT /\ Follows(log, now) /\ pending # <<>>
           /\ UNCHANGED now
  BY PromiseHas DEF Waits!FlushAppends
<1>1. /\ act \in Waits!Act /\ rest \in Acts /\ <<act>> \in Acts /\ pending = <<act>> \o rest
  <2>1. act \in Waits!Act /\ rest \in Acts
    BY <1>0, HeadTail DEF Acts
  <2>2. pending = <<act>> \o rest
    BY <1>0 DEF Acts
  <2> HIDE DEF act, rest
  <2> QED  BY <2>1, <2>2, Joined
<1>2. entry \in RecordT /\ entry.type = "entry" /\ entry.type # "checkpoint"
        /\ entry.payload = act
  BY <1>1 DEF Waits!EntryRecord, RecordT
<1> HIDE DEF entry
<1>3. /\ LogOK(more) /\ Len(more) = n + 1
      /\ ReplayOn(more, stable) = Sure /\ ReplayOn(more, n) = w
      /\ ActsOf(more, stable + 1, n + 1) = Append(Unsure, act)
      /\ ActsOf(more, (n + 1) + 1, n + 1) = <<>>
  BY <1>2, UnsureMore
<1>4. ReplayOn(more, n + 1) = Waits!Reduce(w, act)
  BY <1>0, <1>2, ReplayEntry
<1>5. Follows(more, now)
  <2>1. ReplayOn(more, n + 1) = Goes(w, entry)
    BY <1>2, <1>4 DEF Goes
  <2>2. BindAlike(ReplayOn(more, n + 1), Goes(w, entry), now)
    BY <2>1 DEF BindAlike
  <2> QED  BY <1>0, <1>2, <2>2, FollowsMore
<1>6. w \in WaitsT /\ Waits!Reduce(w, act) \in WaitsT
        /\ BindAlike(w, Waits!ReduceAll(Sure, Unsure), now)
  <2>1. n \in stable..Len(log) /\ n \in 0..Len(log)
    BY <1>0
  <2>2. w \in WaitsT
    BY <1>0, <2>1, Replayed
  <2>3. BindAlike(w, Waits!ReduceAll(Sure, Unsure), now)
    BY <1>0, <2>1, FollowsActs DEF Sure, Unsure
  <2> HIDE DEF w, act
  <2> QED  BY <1>1, <2>2, <2>3, Reduced
<1> HIDE DEF more, act, rest, w
<1> DEFINE u == Append(Unsure, act)
<1>7. u \in Acts /\ Unsure \o pending = u \o rest
  <2>1. Unsure \in Acts /\ rest \in Acts /\ act \in Waits!Act /\ pending = <<act>> \o rest
    BY <1>0, <1>1
  <2>2. Append(Unsure, act) \in Acts
    BY <2>1, Joined
  <2>3. Append(Unsure, act) \o rest = Unsure \o (<<act>> \o rest)
    BY <2>1, JoinedPast
  <2> QED  BY <2>1, <2>2, <2>3
<1>8. CASE Waits!Write(entry, FALSE, TRUE) /\ pending' = rest
  <2>1. log' = more /\ stable' = n + 1 /\ Len(log') = n + 1
    BY <1>3, <1>8 DEF Waits!Write, Waits!Syncs, more
  <2>2. Unsure' = <<>> /\ Sure' = Waits!Reduce(w, act)
    BY <1>3, <1>4, <2>1 DEF Unsure, Sure
  <2>3. Unsure' \o pending' = rest
    BY <1>1, <1>8, <2>2, Joined
  <2>4. Waits!ReduceAll(Sure, u) = Waits!Reduce(Waits!ReduceAll(Sure, Unsure), act)
    BY <1>0, <1>1, ReducesLast DEF Acts
  <2>5. Waits!ReduceAll(Sure, Unsure) \in WaitsT
    BY <1>0, ReducesAll DEF Acts
  <2>6. BindAlike(Sure', Waits!ReduceAll(Sure, u), now)
    BY <1>0, <1>1, <1>6, <2>2, <2>4, <2>5, ReduceAlike
  <2> HIDE DEF u
  <2>7. [Waits!Promise!Next]_(Waits!Promise!vars)
    BY <1>0, <1>1, <1>6, <1>7, <2>2, <2>3, <2>6, PromiseRecords
  <2>8. Follows(log, now)'
    BY <1>0, <1>5, <2>1
  <2> QED  BY <2>7, <2>8
<1>9. CASE (Waits!WriteThrows(entry, FALSE) \/ Waits!WriteFails(entry, FALSE, TRUE))
             /\ UNCHANGED pending
  <2>1. log' \in {log, more} /\ stable' = stable
    BY <1>9 DEF Waits!WriteThrows, Waits!WriteFails, Waits!Syncs, more
  <2>2. CASE log' = log
    <3>1. Follows(log', now) /\ UNCHANGED <<log, stable, now, pending>>
      BY <1>0, <1>9, <2>1, <2>2
    <3> QED  BY <1>0, <3>1, PromiseAlone
  <2>3. CASE log' = more
    <3>1. Unsure' = u /\ Sure' = Sure
      BY <1>3, <2>1, <2>3 DEF Unsure, Sure
    <3>2. Unsure' \o pending' = Append(u, act) \o rest
      <4>1. u \in Acts /\ rest \in Acts /\ act \in Waits!Act /\ pending' = <<act>> \o rest
        BY <1>1, <1>7, <1>9
      <4> HIDE DEF u
      <4>2. Append(u, act) \o rest = u \o (<<act>> \o rest)
        BY <4>1, JoinedPast
      <4> QED  BY <3>1, <4>1, <4>2
    <3>3. Append(u, act) \in Acts /\ Append(u, act) # <<>> /\ u # <<>>
          /\ Append(u, act)[Len(Append(u, act))] = act /\ u[Len(u)] = act
      <4>1. u # <<>> /\ u[Len(u)] = act
        BY <1>0, <1>1, EndsWith
      <4> HIDE DEF u
      <4>2. Append(u, act) \in Acts /\ Append(u, act) # <<>>
              /\ Append(u, act)[Len(Append(u, act))] = act
        BY <1>1, <1>7, EndsWith
      <4> QED  BY <4>1, <4>2
    <3> HIDE DEF u
    <3>4. Waits!Once(Append(u, act)) = Waits!Once(u)
      BY <1>1, <1>7, <3>3, OnceMore DEF Repeats
    <3>5. Waits!Once(Append(u, act) \o rest) = Waits!Once(u \o rest)
      BY <1>1, <1>7, <3>3, <3>4, OnceAlike
    <3>6. UNCHANGED Waits!Promise!vars
      BY <1>0, <1>7, <3>1, <3>2, <3>5, PromiseStands
    <3>7. Follows(log, now)'
      BY <1>0, <1>5, <2>3
    <3> QED  BY <3>6, <3>7
  <2> QED  BY <2>1, <2>2, <2>3
<1> QED  BY <1>8, <1>9 DEF Waits!FlushAppends, entry, act, rest

(* A checkpoint makes sure what came before it.                             *)
LEMMA PromiseCheckpoints ==
    ASSUME PromiseInv, Waits!FlushCheckpoints
    PROVE  [Waits!Promise!Next]_(Waits!Promise!vars) /\ Follows(log, now)'
<1> DEFINE kept == Waits!Live(durable, now)
           record == Waits!CheckpointRecord(kept)
           more == Append(log, record)
           n == Len(log)
           w == ReplayOn(log, n)
<1>0. /\ LogOK(log) /\ n \in Nat /\ stable \in 0..n /\ now \in Nat /\ pending = <<>>
           /\ durable \in WaitsT
      /\ lastEntryId \in 0..visible /\ visible \in 0..n
      /\ Unsure \in Acts /\ Sure \in WaitsT /\ Follows(log, now) /\ UNCHANGED <<now, pending>>
  BY PromiseHas DEF Waits!FlushCheckpoints, Waits!process, PromiseInv, WaitsInv, Held, Journal
<1>1. kept \in WaitsT /\ BindAlike(kept, durable, now)
  BY <1>0, LiveIs
<1> HIDE DEF kept
<1>2. record \in RecordT /\ record.type = "checkpoint" /\ record.type # "entry"
        /\ record.payload = kept
      /\ record.through = lastEntryId /\ record.through <= n
  BY <1>0, <1>1 DEF Waits!CheckpointRecord, RecordT
<1> HIDE DEF record
<1>3. HasRead /\ Waits!Writable /\ visible = n
  BY DEF Waits!FlushCheckpoints, Waits!CheckpointsDue, HasRead, Waits!Write, Waits!WriteThrows,
         Waits!WriteFails, Waits!Writable, PromiseInv, WaitsInv, Journal
<1>4. \A i \in 1..n : log[i].type = "entry" => i <= record.through
  BY <1>2, <1>3 DEF PromiseInv, WaitsInv, PastEntries
<1>5. BindAlike(durable, w, now)
  BY <1>3 DEF PromiseInv, WaitsInv, DurableFollows, Waits!Writable
<1>6. w \in WaitsT /\ BindAlike(w, Waits!ReduceAll(Sure, Unsure), now)
  <2>1. n \in stable..Len(log) /\ n \in 0..Len(log)
    BY <1>0
  <2>2. w \in WaitsT
    BY <1>0, <2>1, Replayed
  <2>3. BindAlike(w, Waits!ReduceAll(Sure, Unsure), now)
    BY <1>0, <2>1, FollowsActs DEF Sure, Unsure
  <2> QED  BY <2>2, <2>3
<1>7. /\ LogOK(more) /\ Len(more) = n + 1
      /\ ReplayOn(more, stable) = Sure
      /\ ActsOf(more, stable + 1, n + 1) = Unsure
      /\ ActsOf(more, (n + 1) + 1, n + 1) = <<>>
  BY <1>2, UnsureMore
<1>8. ReplayOn(more, n + 1) = kept
  BY <1>0, <1>2, <1>4, ReplayCheckpoint
<1>9. BindAlike(kept, w, now)
  <2> HIDE DEF w
  <2> QED  BY <1>0, <1>1, <1>5, <1>6, AlikeGoes
<1>10. Follows(more, now)
  <2>1. Goes(w, record) = w
    BY <1>2 DEF Goes
  <2> QED  BY <1>0, <1>2, <1>8, <1>9, <2>1, FollowsMore
<1> HIDE DEF more, w
<1>11. BindAlike(kept, Waits!ReduceAll(Sure, Unsure), now)
  <2>1. Waits!ReduceAll(Sure, Unsure) \in WaitsT
    BY <1>0, ReducesAll DEF Acts
  <2> QED  BY <1>0, <1>1, <1>6, <1>9, <2>1, AlikeGoes
<1>12. Unsure \o pending = Unsure \o <<>> /\ Unsure \o <<>> = Unsure /\ <<>> \in Acts
  BY <1>0 DEF Acts
<1>13. CASE Waits!Write(record, FALSE, TRUE)
  <2>1. log' = more /\ stable' = n + 1 /\ Len(log') = n + 1
    BY <1>7, <1>13 DEF Waits!Write, Waits!Syncs, more
  <2>2. Unsure' = <<>> /\ Sure' = kept
    BY <1>7, <1>8, <2>1 DEF Unsure, Sure
  <2>3. Unsure' \o pending' = <<>>
    BY <1>0, <2>2
  <2>4. [Waits!Promise!Next]_(Waits!Promise!vars)
    BY <1>0, <1>1, <1>11, <1>12, <2>2, <2>3, PromiseRecords
  <2>5. Follows(log, now)'
    BY <1>0, <1>10, <2>1
  <2> QED  BY <2>4, <2>5
<1>14. CASE Waits!WriteThrows(record, FALSE) \/ Waits!WriteFails(record, FALSE, TRUE)
  <2>1. log' \in {log, more} /\ stable' = stable
    BY <1>14 DEF Waits!WriteThrows, Waits!WriteFails, Waits!Syncs, more
  <2>2. CASE log' = log
    <3>1. Follows(log', now) /\ UNCHANGED <<log, stable, now, pending>>
      BY <1>0, <2>1, <2>2
    <3> QED  BY <1>0, <3>1, PromiseAlone
  <2>3. CASE log' = more
    <3>1. Unsure' = Unsure /\ Sure' = Sure
      BY <1>7, <2>1, <2>3 DEF Unsure, Sure
    <3>2. UNCHANGED Waits!Promise!vars
      BY <1>0, <3>1, PromiseStands
    <3>3. Follows(log, now)'
      BY <1>0, <1>10, <2>3
    <3> QED  BY <3>2, <3>3
  <2> QED  BY <2>1, <2>2, <2>3
<1> QED  BY <1>13, <1>14 DEF Waits!FlushCheckpoints, record, kept

(* Deciding and reading.                                                    *)
LEMMA PromiseSets ==
    ASSUME PromiseInv, NEW a \in Agent, NEW m \in Model, NEW d \in Stated, Waits!Set(a, m, d)
    PROVE  [Waits!Promise!Next]_(Waits!Promise!vars) /\ Follows(log, now)'
<1> DEFINE until == Waits!WaitDeadline(d, now)
           act == [kind |-> "set", agent |-> a, model |-> m, until |-> until]
           binding == IF view[<<a, m>>] > now THEN view[<<a, m>>] ELSE now
<1>1. d \in Nat /\ now \in Nat /\ LastInstant \in Nat /\ view[<<a, m>>] \in Nat
  <2>1. view \in WaitsT /\ <<a, m>> \in Waits!Key /\ now \in 0..LastInstant
    BY DEF PromiseInv, WaitsInv, Held, Waits!Key
  <2> QED  BY <2>1, PartsConstants, WaitsTyped DEF Waits!WaitsConstants, WaitsT
<1>2. until \in 0..Waits!Forever
  BY <1>1 DEF Waits!WaitDeadline, Waits!Forever
<1>3. act \in Waits!Act /\ act.until = until
  BY <1>2 DEF Waits!Act
<1>4. /\ UNCHANGED <<log, stable, now>>
      /\ (until > binding /\ Waits!Apply(act)) \/ UNCHANGED pending
  BY DEF Waits!Set, Waits!Decides, Waits!store
<1>5. Follows(log, now)'
  BY <1>4, PromiseHas
<1>6. CASE until > binding /\ Waits!Apply(act)
  <2>1. until > now
    BY <1>1, <1>2, <1>6, WaitsTyped
  <2>2. pending' = Append(pending, act)
    BY <1>6 DEF Waits!Apply
  <2> HIDE DEF act
  <2>3. act.until > now
    BY <1>3, <2>1
  <2> QED  BY <1>3, <1>4, <1>5, <2>2, <2>3, PromiseDoes
<1>7. CASE UNCHANGED pending
  BY <1>4, <1>5, <1>7, PromiseAlone
<1> QED  BY <1>4, <1>6, <1>7

LEMMA PromiseReleases ==
    ASSUME PromiseInv, NEW a \in Agent,
           NEW target \in Model \cup {EveryModel}, Waits!Release(a, target)
    PROVE  [Waits!Promise!Next]_(Waits!Promise!vars) /\ Follows(log, now)'
<1> DEFINE act == [kind |-> "released", agent |-> a, model |-> target, until |-> 0]
<1>1. act \in Waits!Act /\ act.kind # "set"
  BY WaitsTyped DEF Waits!Act
<1>2. UNCHANGED <<log, stable, now>> /\ (Waits!Apply(act) \/ UNCHANGED pending)
  BY DEF Waits!Release, Waits!Decides, Waits!store
<1>3. Follows(log, now)'
  BY <1>2, PromiseHas
<1>4. CASE Waits!Apply(act)
  <2>1. pending' = Append(pending, act)
    BY <1>4 DEF Waits!Apply
  <2> HIDE DEF act
  <2> QED  BY <1>1, <1>2, <1>3, <2>1, PromiseDoes
<1>5. CASE UNCHANGED pending
  BY <1>2, <1>3, <1>5, PromiseAlone
<1> QED  BY <1>2, <1>4, <1>5

LEMMA PromiseInit == Waits!Init => Waits!Promise!Init /\ Follows(log, now)
<1> SUFFICES ASSUME Waits!Init PROVE Waits!Promise!Init /\ Follows(log, now)
  OBVIOUS
<1>1. log = <<>> /\ stable = 0 /\ pending = <<>> /\ now = 0 /\ LogOK(log) /\ Len(log) = 0
  BY DEF Waits!Init, Waits!JournalInit, LogOK
<1>2. Follows(log, now)
  BY <1>1 DEF Follows
<1>3. PromiseInv
  BY <1>2, WaitsInit DEF PromiseInv
<1>4. Sure = Waits!NoWaits
  <2>1. LatestIn(log, 0, 0) /\ 0 \in 0..0 /\ 0 \in 0..Len(log)
    BY <1>1 DEF LatestIn, Waits!IsLatest
  <2>2. PICK g : Travel(log, 0, 0, g) /\ ReplayOn(log, 0) = g[0]
    BY <1>1, <2>1, Travels
  <2>3. g[0] = Waits!NoWaits
    BY <2>2 DEF Travel, Covered, Start
  <2> QED  BY <1>1, <2>2, <2>3 DEF Sure
<1>5. Waits!Live(Sure, now) = [k \in Waits!Promise!Key |-> 0]
  BY <1>1, <1>4 DEF Waits!Live, Waits!NoWaits, Waits!Promise!Key, Waits!Key
<1>6. Waits!Tentative = <<>>
  <2>1. Unsure = <<>>
    <3>1. 0 \in 0..Len(log) /\ 0 \in 0..0
      BY <1>1
    <3> QED  BY <1>1, <3>1, ActsAre DEF Unsure
  <2>2. Unsure \o pending = <<>> /\ <<>> \in Acts
    BY <1>1, <2>1 DEF Acts
  <2> QED  BY <2>2, PromiseMapped, OnceIs
<1> QED  BY <1>1, <1>2, <1>5, <1>6, PromiseMapped DEF Waits!Promise!Init

LEMMA PromiseStep ==
    ASSUME PromiseInv, [Waits!Next]_(Waits!vars)
    PROVE  [Waits!Promise!Next]_(Waits!Promise!vars) /\ PromiseInv'
<1>1. WaitsInv'
  BY WaitsStep DEF PromiseInv
<1>2. ASSUME UNCHANGED <<log, stable, now, pending>>
      PROVE  [Waits!Promise!Next]_(Waits!Promise!vars) /\ Follows(log, now)'
  BY <1>2, PromiseAlone, PromiseHas
<1>3. CASE Waits!Opens \/ Waits!ReadsAgain \/ Waits!Reconciles \/ Waits!FlushReconciles
  <2>1. UNCHANGED now /\ (Waits!Reads \/ Waits!CannotRead)
    BY <1>3 DEF Waits!Opens, Waits!ReadsAgain, Waits!Reconciles, Waits!FlushReconciles
  <2>2. UNCHANGED <<log, stable, pending>>
    BY <2>1 DEF Waits!Reads, Waits!CannotRead, Waits!Load, Waits!store
  <2> QED  BY <1>1, <1>2, <2>1, <2>2 DEF PromiseInv
<1>4. CASE Waits!OffersAgain \/ Waits!FlushStops \/ UNCHANGED Waits!vars
  <2>1. UNCHANGED <<log, stable, now, pending>>
    BY <1>4
       DEF Waits!OffersAgain, Waits!Decides, Waits!FlushStops, Waits!vars, Waits!store,
           Waits!process
  <2> QED  BY <1>1, <1>2, <2>1 DEF PromiseInv
<1>5. CASE (\E a \in Agent, m \in Model, d \in Stated : Waits!Set(a, m, d))
            \/ (\E a \in Agent, target \in Model \cup {EveryModel} : Waits!Release(a, target))
  BY <1>1, <1>5, PromiseSets, PromiseReleases DEF PromiseInv
<1>6. CASE Waits!FlushAppends \/ Waits!FlushCheckpoints \/ Waits!Tick \/ Waits!Restarts
  BY <1>1, <1>6, PromiseAppends, PromiseCheckpoints, PromiseTicks, PromiseRestarts
     DEF PromiseInv
<1> QED  BY <1>3, <1>4, <1>5, <1>6 DEF Waits!Next

-----------------------------------------------------------------------------
(* The parts side by side: a step is one part's, and leaves the others'     *)
(* variables alone.                                                         *)

LEMMA QueuePartStep ==
    QueueInv /\ [PartsNext]_<<part, vars, waitsVars, beatVars, callVars>> => QueueInv'
<1> SUFFICES ASSUME QueueInv, [PartsNext]_<<part, vars, waitsVars, beatVars, callVars>>
             PROVE  QueueInv'
  OBVIOUS
<1>1. [Next]_vars
  BY DEF PartsNext
<1> QED  BY <1>1, QueueStep

LEMMA WaitsPartStep ==
    WaitsInv /\ [PartsNext]_<<part, vars, waitsVars, beatVars, callVars>> => WaitsInv'
<1> SUFFICES ASSUME WaitsInv, [PartsNext]_<<part, vars, waitsVars, beatVars, callVars>>
             PROVE  WaitsInv'
  OBVIOUS
<1>1. [Waits!Next]_(Waits!vars)
  BY DEF PartsNext, waitsVars, Waits!vars, Waits!store, Waits!journal, Waits!position,
         Waits!process
<1> QED  BY <1>1, WaitsStep

LEMMA CallsPartStep ==
    ASSUME [PartsNext]_<<part, vars, waitsVars, beatVars, callVars>>
    PROVE  [Calls!Next]_(Calls!vars)
  BY DEF PartsNext, callVars, Calls!vars

LEMMA BeatPartStep ==
    BeatInv /\ [PartsNext]_<<part, vars, waitsVars, beatVars, callVars>> => BeatInv'
<1> SUFFICES ASSUME BeatInv, [PartsNext]_<<part, vars, waitsVars, beatVars, callVars>>
             PROVE  BeatInv'
  OBVIOUS
<1>1. [Beat!Next]_(Beat!vars)
  BY DEF PartsNext, beatVars, Beat!vars, Beat!history
<1> QED  BY <1>1, BeatStep

(* No interleaving of push, pop, tryPop, clear and close leaves a consumer  *)
(* waiting while an event sits in the array (src/queue.ts push and pop).    *)
THEOREM NoSleeper == Spec => []NoSleeperBesideWork
<1>1. QueueInv => NoSleeperBesideWork
  BY DEF QueueInv
<1> QED  BY <1>1, QueueInit, QueueStep, PTL DEF Spec

(* The one array is two FIFO lanes, the external one served first, for any  *)
(* events and consumers (src/queue.ts push, pop, tryPop and clear).         *)
THEOREM QueueKeepsLanes == Spec => ImplementsTwoLanes
<1>1. QueueInv /\ [Next]_vars => [Lanes!Next]_(Lanes!vars)
  BY LanesStep
<1> QED  BY <1>1, QueueInit, QueueStep, LanesInit, PTL DEF Spec, ImplementsTwoLanes, Lanes!Spec

(* What binds is what the journal holds with the unrecorded acts after it,  *)
(* whatever writes fail or take effect late, however often the process      *)
(* restarts (provider-waits.ts load, rebuildView, apply, flush).            *)
THEOREM WaitsBindTheHistory == PartsSpec => []BindsTheHistory
<1>1. PartsInit => WaitsInv
  BY WaitsInit DEF PartsInit
<1>2. WaitsInv /\ [PartsNext]_<<part, vars, waitsVars, beatVars, callVars>> => WaitsInv'
  BY WaitsPartStep
<1>3. WaitsInv => BindsTheHistory
  BY InvBinds DEF BindsTheHistory
<1> QED  BY <1>1, <1>2, <1>3, PTL DEF PartsSpec

(* The waits' journal keeps what StatedWaits promises, whatever writes fail *)
(* or take effect late and however often the process restarts: acts are     *)
(* kept in order, at most the last unrecorded ones are lost, and a deadline *)
(* falls only by its passing or a release (provider-waits.ts set, release,  *)
(* flush, load).                                                            *)
THEOREM WaitsKeepTheirPromise == PartsSpec => ImplementsStatedWaits
<1>1. PartsInit => PromiseInv /\ Waits!Promise!Init
  BY WaitsInit, PromiseInit DEF PartsInit, PromiseInv
<1>2. PromiseInv /\ [PartsNext]_<<part, vars, waitsVars, beatVars, callVars>>
        => PromiseInv' /\ [Waits!Promise!Next]_(Waits!Promise!vars)
  <2> SUFFICES ASSUME PromiseInv, [PartsNext]_<<part, vars, waitsVars, beatVars, callVars>>
               PROVE  PromiseInv' /\ [Waits!Promise!Next]_(Waits!Promise!vars)
    OBVIOUS
  <2>1. [Waits!Next]_(Waits!vars)
    BY DEF PartsNext, waitsVars, Waits!vars, Waits!store, Waits!journal, Waits!position,
           Waits!process
  <2> QED  BY <2>1, PromiseStep
<1> QED  BY <1>1, <1>2, PTL
         DEF PartsSpec, ImplementsStatedWaits, Waits!ImplementsStatedWaits, Waits!Promise!Spec

(* An observer is sent one terminal after each opening, and while it could  *)
(* observe the call it is sent it when the call ends and no earlier         *)
(* (mcpl/tool-lifecycle.ts open, onResult, abortOpen, terminate).           *)
THEOREM TerminalsAreSent == PartsSpec => []OneTerminal
<1>1. PartsInit => CallsInv
  BY CallsInvInit DEF PartsInit
<1>2. CallsInv /\ [PartsNext]_<<part, vars, waitsVars, beatVars, callVars>> => CallsInv'
  BY CallsPartStep, CallsInvStep
<1>3. CallsInv => OneTerminal
  BY InvGivesTerminal DEF OneTerminal
<1> QED  BY <1>1, <1>2, <1>3, PTL DEF PartsSpec

(* A reminder said to be saved is kept with a timer set for it, through     *)
(* crashes and failed reads and writes, and none is delivered before its    *)
(* time or again (heartbeat/heartbeat.ts fireDueReminders, save, load).     *)
THEOREM RemindersAreKept == PartsSpec => []RemindersFire
<1>1. PartsInit => BeatInv
  BY BeatInit DEF PartsInit
<1>2. BeatInv => RemindersFire
  BY DEF BeatInv, RemindersFire
<1> QED  BY <1>1, <1>2, BeatPartStep, PTL DEF PartsSpec

(* The parts keep their types, a deadline never passes the last instant     *)
(* (provider-waits.ts 60-73), and an event accepted is in the array once or *)
(* delivered once, never both (queue.ts push, pop and tryPop).              *)
THEOREM TypesAreKept == PartsSpec => []TypesOK
<1> DEFINE inv == QueueInv /\ WaitsInv /\ BeatInv /\ CallsInv /\ CallsPlaced
<1>1. PartsInit => inv
  BY QueueInit, WaitsInit, BeatInit, CallsInvInit, CallsPlacedInit DEF PartsInit
<1>2. inv /\ [PartsNext]_<<part, vars, waitsVars, beatVars, callVars>> => inv'
  BY QueuePartStep, WaitsPartStep, BeatPartStep, CallsPartStep, CallsInvStep, CallsPlacedStep
<1>3. inv => TypesOK
  BY InvDeliversOnce, WaitsTypes, CallsTyped DEF BeatInv, TypesOK
<1> HIDE DEF inv
<1> QED  BY <1>1, <1>2, <1>3, PTL DEF PartsSpec
=============================================================================
