------------------------- MODULE SurgeryHold_proofs -------------------------
(***************************************************************************)
(* What a surgery of the shared store keeps, for any number of agents,     *)
(* writes and surgeries: every write accepted is accounted for and in      *)
(* order, a manager off the branch refuses its work, and nothing moves or  *)
(* lands beside the surgery.                                               *)
(*                                                                         *)
(* First For, the part of a queue that is some agents': where its entries  *)
(* lie in the whole (ForLies), by the least index that would be a          *)
(* counterexample.  Then what each operation on the writes makes of their  *)
(* order (Sorted), and the invariant HInv: who may be behind the branch at *)
(* each stage (Following), on whose behalf the surgery runs (Made), and    *)
(* whom what waits is for (Destined).                                      *)
(***************************************************************************)
EXTENDS SurgeryHold, TLAPS, FiniteSetTheorems, WellFoundedInduction

(* A set of naturals has a least member.                                    *)
LEMMA Least == ASSUME NEW T, T \subseteq Nat, T # {} PROVE \E n \in T : \A k \in T : n <= k
<1> DEFINE R == {p \in Nat \X Nat : p[1] < p[2]}
<1>1. R = OpToRel(<, Nat)
  BY DEF OpToRel
<1>2. IsWellFoundedOn(R, Nat)
  <2> HIDE DEF R
  <2> QED BY <1>1, NatLessThanWellFounded
<1>3. PICK n \in T : \A k \in T : ~ (<<k, n>> \in R)
  <2> HIDE DEF R
  <2> QED BY <1>2, WFMin
<1>4. ASSUME NEW k \in T PROVE n <= k
  <2>1. k \in Nat /\ n \in Nat /\ ~ (<<k, n>> \in R)
    BY <1>3
  <2>2. ~ (k < n)
    <3> SUFFICES ASSUME k < n PROVE FALSE
      OBVIOUS
    <3> QED BY <2>1
  <2> QED BY <2>1, <2>2
<1> QED BY <1>4

(* The steps of For, one for each entry.                                    *)
Pick(entries, whose, g, i) ==
    IF i = 0 THEN <<>>
    ELSE IF entries[i].to \in whose THEN Append(g[i - 1], entries[i])
    ELSE g[i - 1]

Picks(entries, whose, n, g) ==
    g \in [0..n -> Seq(Write)] /\ \A i \in 0..n : g[i] = Pick(entries, whose, g, i)

(* They can be taken, whatever the entries.                                *)
LEMMA PicksExist ==
    ASSUME NEW entries \in Seq(Write), NEW whose
    PROVE  \E g : Picks(entries, whose, Len(entries), g)
<1> DEFINE T == {n \in 0..Len(entries) : ~ \E g : Picks(entries, whose, n, g)}
<1>1. T = {}
  <2> SUFFICES ASSUME T # {} PROVE FALSE
    OBVIOUS
  <2>0. Len(entries) \in Nat /\ T \subseteq Nat
    OBVIOUS
  <2>1. PICK n \in T : \A k \in T : n <= k
    <3> HIDE DEF T
    <3> QED BY <2>0, Least
  <2>2. n \in 0..Len(entries) /\ ~ \E g : Picks(entries, whose, n, g)
    OBVIOUS
  <2>3. CASE n = 0
    <3> DEFINE g == [i \in 0..0 |-> <<>>]
    <3>1. g \in [0..n -> Seq(Write)] /\ \A i \in 0..n : i = 0 /\ g[i] = <<>>
      BY <2>3
    <3> HIDE DEF g
    <3>2. Picks(entries, whose, n, g)
      BY <3>1 DEF Picks, Pick
    <3> QED BY <3>2, <2>2
  <2>4. CASE n # 0
    <3>1. n - 1 \in 0..Len(entries) /\ n - 1 \notin T
      BY <2>0, <2>1, <2>2, <2>4
    <3>2. PICK g : Picks(entries, whose, n - 1, g)
      BY <3>1
    <3> DEFINE last == Pick(entries, whose, g, n)
               h == [i \in 0..n |-> IF i = n THEN last ELSE g[i]]
    <3>3. entries[n] \in Write /\ g[n - 1] \in Seq(Write)
      BY <2>2, <2>4, <2>0, <3>2 DEF Picks
    <3>4. last \in Seq(Write)
      BY <3>3, <2>4 DEF Pick
    <3>5. h \in [0..n -> Seq(Write)] /\ h[n] = last /\ \A i \in 0..n : i # n => h[i] = g[i]
      <4> HIDE DEF last
      <4> QED BY <3>2, <3>4, <2>2, <2>0 DEF Picks
    <3> HIDE DEF h
    <3>6. ASSUME NEW i \in 0..n PROVE h[i] = Pick(entries, whose, h, i)
      <4>1. CASE i = 0
        BY <4>1, <2>4, <3>5, <3>2, <2>0, <2>2 DEF Pick, Picks
      <4>2. CASE i # 0 /\ i # n
        <5>1. /\ i \in 0..(n - 1) /\ i - 1 \in 0..n /\ i - 1 # n
              /\ i - 1 \in 0..n
          BY <4>2, <2>0, <2>2
        <5>2. h[i] = g[i] /\ h[i - 1] = g[i - 1] /\ g[i] = Pick(entries, whose, g, i)
          BY <5>1, <4>2, <3>5, <3>2 DEF Picks
        <5> QED BY <5>2 DEF Pick
      <4>3. CASE i # 0 /\ i = n
        <5>1. n - 1 \in 0..n /\ n - 1 # n
          BY <2>0, <2>2, <2>4
        <5> QED BY <4>3, <5>1, <3>5 DEF Pick
      <4> QED BY <4>1, <4>2, <4>3
    <3>7. Picks(entries, whose, n, h)
      BY <3>5, <3>6 DEF Picks
    <3> QED BY <3>7, <2>2
  <2> QED BY <2>3, <2>4
<1>2. Len(entries) \in 0..Len(entries) /\ Len(entries) \notin T
  BY <1>1
<1> QED BY <1>2

(* For is the last of them.                                                 *)
LEMMA ForPicks ==
    ASSUME NEW entries \in Seq(Write), NEW whose
    PROVE  \E g : Picks(entries, whose, Len(entries), g) /\ For(entries, whose) = g[Len(entries)]
<1> DEFINE D(g) == g = [i \in 0..Len(entries) |->
                          IF i = 0 THEN <<>>
                          ELSE IF entries[i].to \in whose THEN Append(g[i - 1], entries[i])
                          ELSE g[i - 1]]
           f == CHOOSE g : D(g)
<1>1. For(entries, whose) = f[Len(entries)]
  BY DEF For
<1>2. \E g : D(g)
  <2>1. PICK g : Picks(entries, whose, Len(entries), g)
    BY PicksExist
  <2>2. D(g)
    BY <2>1 DEF Picks, Pick
  <2> QED BY <2>2
<1>3. D(f)
  <2> HIDE DEF D
  <2> QED BY <1>2
<1>4. \A i \in 0..Len(entries) : f[i] = Pick(entries, whose, f, i)
  <2> HIDE DEF f
  <2> QED BY <1>3 DEF Pick
<1>5. DOMAIN f = 0..Len(entries) /\ f = [i \in DOMAIN f |-> f[i]]
  <2> HIDE DEF f
  <2> QED BY <1>3
<1> HIDE DEF D, f
<1> DEFINE T == {i \in 0..Len(entries) : f[i] \notin Seq(Write)}
<1>6. T = {}
  <2> SUFFICES ASSUME T # {} PROVE FALSE
    OBVIOUS
  <2>0. Len(entries) \in Nat /\ T \subseteq Nat
    OBVIOUS
  <2>1. PICK i \in T : \A k \in T : i <= k
    <3> HIDE DEF T
    <3> QED BY <2>0, Least
  <2>2. i \in 0..Len(entries) /\ f[i] \notin Seq(Write) /\ f[i] = Pick(entries, whose, f, i)
    BY <1>4
  <2>3. i # 0
    BY <2>2 DEF Pick
  <2>4. i - 1 \in 0..Len(entries) /\ i - 1 \notin T /\ entries[i] \in Write
    BY <2>0, <2>1, <2>2, <2>3
  <2>5. f[i - 1] \in Seq(Write)
    BY <2>4
  <2> QED BY <2>2, <2>3, <2>4, <2>5 DEF Pick
<1>7. f \in [0..Len(entries) -> Seq(Write)]
  <2> HIDE DEF T
  <2>1. \A i \in 0..Len(entries) : f[i] \in Seq(Write)
    BY <1>6 DEF T
  <2> QED BY <2>1, <1>5
<1>8. Picks(entries, whose, Len(entries), f)
  BY <1>4, <1>7 DEF Picks
<1> QED BY <1>1, <1>8

(* How the entries picked lie among the others.                             *)
Lies(t, entries, whose, n, m) ==
    /\ t \in Seq(Write) /\ m \in [1..Len(t) -> 1..n]
    /\ \A k \in 1..Len(t) : t[k] = entries[m[k]] /\ t[k].to \in whose
    /\ \A k, l \in 1..Len(t) : k < l => m[k] < m[l]
    /\ \A j \in 1..n : entries[j].to \in whose => \E k \in 1..Len(t) : m[k] = j

(* For picks them all, and in order.                                        *)
LEMMA ForLies ==
    ASSUME NEW entries \in Seq(Write), NEW whose
    PROVE  /\ For(entries, whose) \in Seq(Write)
           /\ \E m : Lies(For(entries, whose), entries, whose, Len(entries), m)
<1>1. PICK g : Picks(entries, whose, Len(entries), g) /\ For(entries, whose) = g[Len(entries)]
  BY ForPicks
<1> DEFINE T == {i \in 0..Len(entries) : ~ \E m : Lies(g[i], entries, whose, i, m)}
<1>2. T = {}
  <2> SUFFICES ASSUME T # {} PROVE FALSE
    OBVIOUS
  <2>0. Len(entries) \in Nat /\ T \subseteq Nat
    OBVIOUS
  <2>1. PICK i \in T : \A k \in T : i <= k
    <3> HIDE DEF T
    <3> QED BY <2>0, Least
  <2>2. i \in 0..Len(entries) /\ ~ \E m : Lies(g[i], entries, whose, i, m)
    OBVIOUS
  <2>3. g[i] \in Seq(Write) /\ g[i] = Pick(entries, whose, g, i)
    BY <1>1, <2>2 DEF Picks
  <2>4. CASE i = 0
    <3>1. g[i] = <<>>
      BY <2>3, <2>4 DEF Pick
    <3>2. Lies(g[i], entries, whose, i, <<>>)
      BY <3>1, <2>4 DEF Lies
    <3> QED BY <3>2, <2>2
  <2>5. CASE i # 0
    <3> DEFINE t == g[i - 1]
               e == entries[i]
    <3>1. i - 1 \in 0..Len(entries) /\ i - 1 \notin T /\ i \in 1..Len(entries) /\ i \in Nat
      BY <2>0, <2>1, <2>2, <2>5
    <3>2. PICK m : Lies(t, entries, whose, i - 1, m)
      BY <3>1
    <3>3. e \in Write /\ t \in Seq(Write) /\ Len(t) \in Nat
      BY <3>1, <3>2 DEF Lies
    <3>4. g[i] = IF e.to \in whose THEN Append(t, e) ELSE t
      BY <2>3, <2>5 DEF Pick
    <3> HIDE DEF T, t
    <3>5. CASE e.to \notin whose
      <4>1. Lies(t, entries, whose, i, m)
        <5>1. m \in [1..Len(t) -> 1..i]
          BY <3>2, <3>1 DEF Lies
        <5>2. ASSUME NEW j \in 1..i, entries[j].to \in whose PROVE \E k \in 1..Len(t) : m[k] = j
          <6>1. j \in 1..(i - 1)
            BY <5>2, <3>5, <3>1
          <6> QED BY <6>1, <5>2, <3>2 DEF Lies
        <5> QED BY <5>1, <5>2, <3>2 DEF Lies
      <4> QED BY <4>1, <3>4, <3>5, <2>2
    <3>6. CASE e.to \in whose
      <4> DEFINE u == Append(t, e)
                 n == Len(t) + 1
                 mm == [k \in 1..n |-> IF k = n THEN i ELSE m[k]]
      <4>1. /\ u \in Seq(Write) /\ Len(u) = n /\ u[n] = e
            /\ \A k \in 1..Len(t) : u[k] = t[k]
        BY <3>3
      <4>a. /\ n \in 1..n /\ \A k \in 1..n : k = n \/ k \in 1..Len(t)
            /\ \A k \in 1..Len(t) : k \in 1..n /\ k < n /\ k # n
        BY <3>3
      <4>b. \A k \in 1..Len(t) : m[k] \in 1..(i - 1) /\ m[k] \in 1..i
        BY <3>1, <3>2 DEF Lies
      <4>c. i \in 1..i
        BY <3>1
      <4>2. /\ mm \in [1..n -> 1..i] /\ mm[n] = i /\ \A k \in 1..Len(t) : mm[k] = m[k]
            /\ n \in 1..n /\ \A k \in 1..n : k = n \/ k \in 1..Len(t)
            /\ \A k \in 1..Len(t) : m[k] \in 1..(i - 1) /\ k \in 1..n /\ k < n
        <5> HIDE DEF n
        <5> QED BY <4>a, <4>b, <4>c
      <4> HIDE DEF u, mm, n
      <4>3. \A k \in 1..n : u[k] = entries[mm[k]] /\ u[k].to \in whose
        BY <4>1, <4>2, <3>2, <3>6 DEF Lies
      <4>4. ASSUME NEW k \in 1..n, NEW l \in 1..n, k < l PROVE mm[k] < mm[l]
        <5>1. n \in Nat /\ Len(t) \in Nat
          BY <3>3 DEF n
        <5>2. k \in 1..Len(t)
          BY <4>2, <4>4, <5>1
        <5>3. CASE l = n
          BY <5>2, <5>3, <4>2, <3>1
        <5>4. CASE l \in 1..Len(t)
          BY <5>2, <5>4, <4>2, <4>4, <3>2 DEF Lies
        <5> QED BY <5>3, <5>4, <4>2
      <4>5. ASSUME NEW j \in 1..i, entries[j].to \in whose PROVE \E k \in 1..n : mm[k] = j
        <5>1. CASE j = i
          BY <5>1, <4>2
        <5>2. CASE j # i
          <6>1. j \in 1..(i - 1)
            BY <5>2, <3>1
          <6>2. PICK k \in 1..Len(t) : m[k] = j
            BY <6>1, <4>5, <3>2 DEF Lies
          <6> QED BY <6>2, <4>2
        <5> QED BY <5>1, <5>2
      <4>6. Lies(u, entries, whose, i, mm)
        BY <4>1, <4>2, <4>3, <4>4, <4>5 DEF Lies
      <4>7. g[i] = u
        BY <3>4, <3>6 DEF u
      <4> QED BY <4>6, <4>7, <2>2
    <3> QED BY <3>5, <3>6
  <2> QED BY <2>4, <2>5
<1>3. Len(entries) \in 0..Len(entries) /\ g[Len(entries)] \in Seq(Write)
  BY <1>1 DEF Picks
<1>4. \E m : Lies(g[Len(entries)], entries, whose, Len(entries), m)
  BY <1>2, <1>3
<1> HIDE DEF T
<1> QED BY <1>1, <1>3, <1>4

-----------------------------------------------------------------------------
(* The order among the entries that wait.                                   *)

Has(s) == {s[i] : i \in 1..Len(s)}

(* The later of two for one agent has the higher number, and no two share one. *)
InOrder(s) ==
    \A i, j \in 1..Len(s) : i < j =>
        s[i].n # s[j].n /\ (s[i].to = s[j].to => s[i].n < s[j].n)

(* What lies before another sequence.                                       *)
Ahead(s, t) ==
    \A d \in Has(s), e \in Has(t) : d.n # e.n /\ (d.to = e.to => d.n < e.n)

(* The members are those of ToSet.                                          *)
LEMMA HasIsToSet == ASSUME NEW s \in Seq(Write) PROVE ToSet(s) = Has(s)
  BY DEF ToSet, Has

(* What the members of a queue are.                                         *)
LEMMA HasTypes ==
    ASSUME NEW s \in Seq(Write)
    PROVE  \A e \in Has(s) : e \in Write /\ e.n \in Nat /\ e.to \in Agent
<1>1. \A i \in 1..Len(s) : s[i] \in Write
  OBVIOUS
<1>2. \A e \in Write : e.n \in Nat /\ e.to \in Agent
  BY DEF Write
<1> QED BY <1>1, <1>2 DEF Has

(* For has the members for its agents, and no other.                        *)
LEMMA ForMembers ==
    ASSUME NEW s \in Seq(Write), NEW whose
    PROVE  /\ For(s, whose) \in Seq(Write)
           /\ Has(For(s, whose)) = {e \in Has(s) : e.to \in whose}
<1> DEFINE t == For(s, whose)
<1>1. t \in Seq(Write)
  BY ForLies
<1>2. PICK m : Lies(t, s, whose, Len(s), m)
  BY ForLies
<1> HIDE DEF t
<1>3. ASSUME NEW k \in 1..Len(t) PROVE t[k] \in Has(s) /\ t[k].to \in whose
  BY <1>2 DEF Lies, Has
<1>4. ASSUME NEW j \in 1..Len(s), s[j].to \in whose PROVE s[j] \in Has(t)
  BY <1>2, <1>4 DEF Lies, Has
<1>5. Has(t) = {e \in Has(s) : e.to \in whose}
  BY <1>3, <1>4 DEF Has
<1> QED BY <1>1, <1>5 DEF t

(* For keeps the order.                                                     *)
LEMMA ForInOrder ==
    ASSUME NEW s \in Seq(Write), NEW whose, InOrder(s)
    PROVE  InOrder(For(s, whose))
<1> DEFINE t == For(s, whose)
<1>1. PICK m : Lies(t, s, whose, Len(s), m)
  BY ForLies
<1> HIDE DEF t
<1>2. ASSUME NEW k \in 1..Len(t), NEW l \in 1..Len(t), k < l
      PROVE  m[k] \in 1..Len(s) /\ m[l] \in 1..Len(s) /\ m[k] < m[l] /\ t[k] = s[m[k]] /\ t[l] = s[m[l]]
  BY <1>1, <1>2 DEF Lies
<1>3. InOrder(t)
  BY <1>2 DEF InOrder
<1> QED BY <1>3 DEF t

(* The entries for some agents and the others are the whole.                *)
LEMMA NotForMembers ==
    ASSUME NEW s \in Seq(Write), NEW whose
    PROVE  /\ NotFor(s, whose) \in Seq(Write)
           /\ Has(NotFor(s, whose)) = {e \in Has(s) : e.to \notin whose}
           /\ InOrder(s) => InOrder(NotFor(s, whose))
  BY ForMembers, ForInOrder, HasTypes DEF NotFor

(* Two queues joined are in order when each is and the first is ahead.      *)
LEMMA Joined ==
    ASSUME NEW s \in Seq(Write), NEW t \in Seq(Write)
    PROVE  /\ s \o t \in Seq(Write) /\ Has(s \o t) = Has(s) \cup Has(t)
           /\ InOrder(s \o t) <=> InOrder(s) /\ InOrder(t) /\ Ahead(s, t)
<1> DEFINE u == s \o t
           a == Len(s)
           b == Len(t)
<1>1. /\ u \in Seq(Write) /\ Len(u) = a + b /\ a \in Nat /\ b \in Nat
      /\ \A i \in 1..a : u[i] = s[i]
      /\ \A i \in 1..b : u[a + i] = t[i]
  OBVIOUS
<1> HIDE DEF u, a, b
<1>2. /\ \A i \in 1..a : i \in 1..Len(u) /\ u[i] = s[i]
      /\ \A i \in 1..b : a + i \in 1..Len(u) /\ u[a + i] = t[i]
      /\ \A i \in 1..Len(u) : i \in 1..a \/ \E k \in 1..b : i = a + k
  <2>1. \A i \in 1..Len(u) : i \in 1..a \/ (i - a \in 1..b /\ i = a + (i - a))
    BY <1>1
  <2>2. \A i \in 1..Len(u) : i \in 1..a \/ \E k \in 1..b : i = a + k
    BY <2>1
  <2>3. \A i \in 1..a : i \in 1..Len(u)
    BY <1>1
  <2>4. \A i \in 1..b : a + i \in 1..Len(u)
    BY <1>1
  <2> QED BY <2>2, <2>3, <2>4, <1>1
<1>3. Has(u) = Has(s) \cup Has(t)
  <2>1. Has(s) = {s[i] : i \in 1..a} /\ Has(t) = {t[i] : i \in 1..b}
    BY DEF Has, a, b
  <2>2. Has(u) \subseteq Has(s) \cup Has(t)
    <3> SUFFICES ASSUME NEW i \in 1..Len(u) PROVE u[i] \in Has(s) \cup Has(t)
      BY DEF Has
    <3>1. CASE i \in 1..a
      BY <3>1, <1>2, <2>1
    <3>2. CASE \E k \in 1..b : i = a + k
      BY <3>2, <1>2, <2>1
    <3> QED BY <3>1, <3>2, <1>2
  <2>3. Has(s) \subseteq Has(u) /\ Has(t) \subseteq Has(u)
    <3>1. \A i \in 1..a : s[i] \in Has(u)
      BY <1>2 DEF Has
    <3>2. \A i \in 1..b : t[i] \in Has(u)
      BY <1>2 DEF Has
    <3> QED BY <3>1, <3>2, <2>1
  <2> QED BY <2>2, <2>3
<1>4. ASSUME InOrder(u) PROVE InOrder(s) /\ InOrder(t) /\ Ahead(s, t)
  <2>1. InOrder(s)
    BY <1>2, <1>4 DEF InOrder, a
  <2>2. InOrder(t)
    <3>1. \A i, j \in 1..b : i < j => a + i < a + j
      BY <1>1
    <3> QED BY <1>2, <1>4, <3>1 DEF InOrder, b
  <2>3. Ahead(s, t)
    <3>1. \A i \in 1..a, j \in 1..b : i < a + j
      BY <1>1
    <3>2. ASSUME NEW i \in 1..a, NEW j \in 1..b
          PROVE  s[i].n # t[j].n /\ (s[i].to = t[j].to => s[i].n < t[j].n)
      <4>1. i \in 1..Len(u) /\ a + j \in 1..Len(u) /\ i < a + j /\ u[i] = s[i] /\ u[a + j] = t[j]
        BY <3>1, <1>2
      <4> QED BY <4>1, <1>4 DEF InOrder
    <3> QED BY <3>2 DEF Ahead, Has, a, b
  <2> QED BY <2>1, <2>2, <2>3
<1>5. ASSUME InOrder(s), InOrder(t), Ahead(s, t) PROVE InOrder(u)
  <2> SUFFICES ASSUME NEW i \in 1..Len(u), NEW j \in 1..Len(u), i < j
               PROVE  u[i].n # u[j].n /\ (u[i].to = u[j].to => u[i].n < u[j].n)
    BY DEF InOrder
  <2>1. CASE i \in 1..a /\ j \in 1..a
    BY <2>1, <1>1, <1>5 DEF InOrder, a
  <2>2. CASE i \in 1..a /\ \E k \in 1..b : j = a + k
    <3>1. PICK k \in 1..b : j = a + k
      BY <2>2
    <3>2. u[i] \in Has(s) /\ u[j] \in Has(t)
      BY <2>2, <3>1, <1>1 DEF Has, a, b
    <3> QED BY <3>2, <1>5 DEF Ahead
  <2>3. CASE (\E k \in 1..b : i = a + k) /\ j \in 1..a
    <3>1. FALSE
      BY <2>3, <1>1
    <3> QED BY <3>1
  <2>4. CASE (\E k \in 1..b : i = a + k) /\ \E k \in 1..b : j = a + k
    <3>1. PICK k \in 1..b, l \in 1..b : i = a + k /\ j = a + l
      BY <2>4
    <3>2. k < l /\ u[i] = t[k] /\ u[j] = t[l]
      BY <3>1, <1>1
    <3> QED BY <3>2, <1>5 DEF InOrder, b
  <2> QED BY <2>1, <2>2, <2>3, <2>4, <1>2
<1> QED BY <1>1, <1>3, <1>4, <1>5 DEF u

-----------------------------------------------------------------------------
(* The writes: every one accepted is settled or waits, never both, and what *)
(* waits for an agent is later than what its store has, in order.           *)

Writes == [accepted : Nat, queue : Seq(Write), kept : Seq(Write),
           landed : [Agent -> Nat], settled : SUBSET Nat]

Waits(w) == Has(w.kept) \cup Has(w.queue)
Numbers(entries) == {e.n : e \in entries}

Placed(w) ==
    /\ w \in Writes
    /\ \A a \in Agent : w.landed[a] <= w.accepted
    /\ \A e \in Waits(w) : e.n \notin w.settled /\ e.n > w.landed[e.to]
    /\ InOrder(w.kept) /\ InOrder(w.queue) /\ Ahead(w.kept, w.queue)

Accounted(w) == w.settled \cup Numbers(Waits(w)) = 1..w.accepted

Sorted(w) == Placed(w) /\ Accounted(w)

(* The same, but for one write that is in hand.                             *)
InHand(w, e) ==
    /\ Placed(w) /\ e \in Write
    /\ e.n \in 1..w.accepted
    /\ w.settled \cup Numbers(Waits(w)) = (1..w.accepted) \ {e.n}
    /\ e.n > w.landed[e.to]

(* What typed writes' fields are.                                           *)
LEMMA WriteTypes ==
    ASSUME NEW w \in Writes
    PROVE  /\ w.accepted \in Nat /\ w.queue \in Seq(Write) /\ w.kept \in Seq(Write)
           /\ w.landed \in [Agent -> Nat] /\ w.settled \subseteq Nat
           /\ \A e \in Waits(w) : e \in Write /\ e.n \in Nat /\ e.to \in Agent
<1>1. w.queue \in Seq(Write) /\ w.kept \in Seq(Write)
  BY DEF Writes
<1> QED BY <1>1, HasTypes DEF Writes, Waits

(* Nothing waits in an empty queue.                                         *)
LEMMA EmptyHas == Has(<<>>) = {} /\ InOrder(<<>>) /\ <<>> \in Seq(Write)
  BY DEF Has, InOrder

(* One write alone is in order.                                             *)
LEMMA OneHas ==
    ASSUME NEW e \in Write
    PROVE  <<e>> \in Seq(Write) /\ Has(<<e>>) = {e} /\ InOrder(<<e>>)
<1>1. Len(<<e>>) = 1 /\ <<e>>[1] = e /\ 1..1 = {1}
  OBVIOUS
<1> QED BY <1>1 DEF Has, InOrder

(* Appending joins a queue of one.                                          *)
LEMMA Appended ==
    ASSUME NEW s \in Seq(Write), NEW e \in Write
    PROVE  Append(s, e) = s \o <<e>>
  OBVIOUS

(* The write in hand is lost.                                               *)
LEMMA LoseSorted ==
    ASSUME NEW w, NEW e, InHand(w, e)
    PROVE  /\ Sorted(Settle(w, e))
           /\ Settle(w, e).kept = w.kept /\ Settle(w, e).queue = w.queue
           /\ Settle(w, e).landed = w.landed
<1> DEFINE v == Settle(w, e)
<1>0. w \in Writes /\ e.n \in Nat
  BY DEF InHand, Placed, Write
<1>1. /\ v \in Writes /\ v.kept = w.kept /\ v.queue = w.queue /\ v.landed = w.landed
      /\ v.accepted = w.accepted /\ v.settled = w.settled \cup {e.n}
  BY <1>0 DEF Settle, Writes
<1> HIDE DEF v
<1>2. Waits(v) = Waits(w)
  BY <1>1 DEF Waits
<1>3. e.n \notin Numbers(Waits(w))
  BY DEF InHand
<1>4. Placed(v)
  BY <1>1, <1>2, <1>3 DEF InHand, Placed, Numbers
<1>5. Accounted(v)
  BY <1>1, <1>2 DEF InHand, Accounted
<1> QED BY <1>1, <1>4, <1>5 DEF Sorted, v

(* The write in hand is stored: nothing of its agent's waits before it.     *)
LEMMA StoreSorted ==
    ASSUME NEW w, NEW e, InHand(w, e),
           \A d \in Waits(w) : d.to = e.to => d.n > e.n
    PROVE  LET v == Settle([w EXCEPT !.landed[e.to] = e.n], e) IN
           Sorted(v) /\ v.kept = w.kept /\ v.queue = w.queue
<1> DEFINE v == Settle([w EXCEPT !.landed[e.to] = e.n], e)
           landed == [w.landed EXCEPT ![e.to] = e.n]
<1>0. w \in Writes /\ e.n \in Nat /\ e.to \in Agent
  BY DEF InHand, Placed, Write
<1>1. landed \in [Agent -> Nat] /\ landed[e.to] = e.n /\ \A a \in Agent : a # e.to => landed[a] = w.landed[a]
  BY <1>0 DEF Writes
<1>2. v = [w EXCEPT !.landed = landed, !.settled = @ \cup {e.n}]
  BY <1>0 DEF Settle, Writes
<1> HIDE DEF v, landed
<1>3. /\ v \in Writes /\ v.kept = w.kept /\ v.queue = w.queue /\ v.landed = landed
      /\ v.accepted = w.accepted /\ v.settled = w.settled \cup {e.n}
  BY <1>0, <1>1, <1>2 DEF Writes
<1>4. Waits(v) = Waits(w)
  BY <1>3 DEF Waits
<1>5. e.n \notin Numbers(Waits(w)) /\ \A d \in Waits(w) : d.to \in Agent /\ d.n # e.n
  BY <1>0, WriteTypes DEF InHand, Numbers
<1>6. \A a \in Agent : landed[a] <= w.accepted
  BY <1>1, <1>0 DEF InHand, Placed
<1>7. \A d \in Waits(w) : d.n > landed[d.to]
  BY <1>1, <1>5 DEF InHand, Placed
<1>8. Placed(v)
  BY <1>3, <1>4, <1>5, <1>6, <1>7 DEF InHand, Placed
<1>9. Accounted(v)
  BY <1>3, <1>4 DEF InHand, Accounted
<1> QED BY <1>3, <1>8, <1>9 DEF Sorted, v

(* The write in hand is kept, behind its agent's others.                    *)
LEMMA KeepSorted ==
    ASSUME NEW w, NEW e, InHand(w, e),
           \A d \in Has(w.kept) : d.to = e.to => d.n < e.n,
           \A d \in Has(w.queue) : d.to = e.to => d.n > e.n
    PROVE  LET v == [w EXCEPT !.kept = Append(@, e)] IN
           /\ Sorted(v) /\ v.queue = w.queue /\ v.landed = w.landed
           /\ Has(v.kept) = Has(w.kept) \cup {e}
<1> DEFINE v == [w EXCEPT !.kept = Append(@, e)]
           kept == w.kept \o <<e>>
<1>0. w \in Writes /\ e \in Write /\ e.n \in Nat /\ e.to \in Agent
  BY DEF InHand, Placed, Write
<1>1. w.kept \in Seq(Write) /\ w.queue \in Seq(Write)
  BY <1>0, WriteTypes
<1>2. e.n \notin Numbers(Waits(w))
  BY DEF InHand
<1>3. Ahead(w.kept, <<e>>) /\ Ahead(<<e>>, w.queue)
  <2>1. Has(<<e>>) = {e}
    BY <1>0, OneHas
  <2> QED BY <2>1, <1>2, <1>0, HasTypes, <1>1 DEF Ahead, Numbers, Waits
<1>4. kept \in Seq(Write) /\ Has(kept) = Has(w.kept) \cup {e} /\ InOrder(kept)
  <2>1. <<e>> \in Seq(Write) /\ Has(<<e>>) = {e} /\ InOrder(<<e>>)
    BY <1>0, OneHas
  <2>2. InOrder(w.kept)
    BY DEF InHand, Placed
  <2>3. PICK t : t = <<e>>
    OBVIOUS
  <2>4. /\ w.kept \o t \in Seq(Write) /\ Has(w.kept \o t) = Has(w.kept) \cup Has(t)
        /\ InOrder(w.kept \o t) <=> InOrder(w.kept) /\ InOrder(t) /\ Ahead(w.kept, t)
    BY <1>1, <2>1, <2>3, Joined
  <2> QED BY <1>3, <2>1, <2>2, <2>3, <2>4
<1>5. Ahead(kept, w.queue)
  BY <1>3, <1>4, <1>0, OneHas DEF Ahead, InHand, Placed
<1>6. v = [w EXCEPT !.kept = kept]
  BY <1>0, <1>1, Appended DEF Writes
<1> HIDE DEF v, kept
<1>7. /\ v \in Writes /\ v.kept = kept /\ v.queue = w.queue /\ v.landed = w.landed
      /\ v.accepted = w.accepted /\ v.settled = w.settled
  BY <1>0, <1>4, <1>6 DEF Writes
<1>8. Waits(v) = Waits(w) \cup {e}
  BY <1>4, <1>7 DEF Waits
<1>9. e.n \notin w.settled
  BY DEF InHand
<1>10. Placed(v)
  BY <1>4, <1>5, <1>7, <1>8, <1>9 DEF InHand, Placed
<1>11. Accounted(v)
  BY <1>7, <1>8 DEF InHand, Accounted, Numbers
<1> QED BY <1>4, <1>7, <1>10, <1>11 DEF Sorted, v

(* The write in hand is queued, behind everything of its agent's.           *)
LEMMA QueueSorted ==
    ASSUME NEW w, NEW e, InHand(w, e),
           \A d \in Waits(w) : d.to = e.to => d.n < e.n
    PROVE  LET v == [w EXCEPT !.queue = Append(@, e)] IN
           /\ Sorted(v) /\ v.kept = w.kept /\ v.landed = w.landed
           /\ Has(v.queue) = Has(w.queue) \cup {e} /\ v.queue # <<>>
<1> DEFINE v == [w EXCEPT !.queue = Append(@, e)]
           queue == w.queue \o <<e>>
<1>0. w \in Writes /\ e \in Write /\ e.n \in Nat /\ e.to \in Agent
  BY DEF InHand, Placed, Write
<1>1. w.kept \in Seq(Write) /\ w.queue \in Seq(Write)
  BY <1>0, WriteTypes
<1>2. e.n \notin Numbers(Waits(w))
  BY DEF InHand
<1>3. Ahead(w.kept, <<e>>) /\ Ahead(w.queue, <<e>>)
  <2>1. Has(<<e>>) = {e}
    BY <1>0, OneHas
  <2> QED BY <2>1, <1>2, <1>0, HasTypes, <1>1 DEF Ahead, Numbers, Waits
<1>4. queue \in Seq(Write) /\ Has(queue) = Has(w.queue) \cup {e} /\ InOrder(queue)
  BY <1>0, <1>1, <1>3, OneHas, Joined DEF InHand, Placed
<1>5. Ahead(w.kept, queue)
  BY <1>3, <1>4, <1>0, OneHas DEF Ahead, InHand, Placed
<1>6. v = [w EXCEPT !.queue = queue]
  BY <1>0, <1>1, Appended DEF Writes
<1> HIDE DEF v, queue
<1>7. /\ v \in Writes /\ v.kept = w.kept /\ v.queue = queue /\ v.landed = w.landed
      /\ v.accepted = w.accepted /\ v.settled = w.settled
  BY <1>0, <1>4, <1>6 DEF Writes
<1>8. Waits(v) = Waits(w) \cup {e}
  BY <1>4, <1>7 DEF Waits
<1>9. e.n \notin w.settled
  BY DEF InHand
<1>10. Placed(v)
  BY <1>4, <1>5, <1>7, <1>8, <1>9 DEF InHand, Placed
<1>11. Accounted(v)
  BY <1>7, <1>8 DEF InHand, Accounted, Numbers
<1>12. v.queue # <<>>
  BY <1>4, <1>7, EmptyHas
<1> QED BY <1>4, <1>7, <1>10, <1>11, <1>12 DEF Sorted, v

(* An agent with entries kept, or a manager that refuses.                   *)
LEMMA KeptMeans ==
    ASSUME NEW w, w.kept \in Seq(Write), NEW a
    PROVE  KeptForRecovery(w, a) <=> a \in refusing \/ \E e \in Has(w.kept) : e.to = a
<1> DEFINE t == For(w.kept, {a})
<1>1. t \in Seq(Write) /\ Has(t) = {e \in Has(w.kept) : e.to \in {a}}
  BY ForMembers
<1> HIDE DEF t
<1>2. t # <<>> <=> Has(t) # {}
  <2>1. ASSUME t # <<>> PROVE Has(t) # {}
    <3>1. t[1] \in Has(t)
      BY <2>1, <1>1 DEF Has
    <3> QED BY <3>1
  <2> QED BY <2>1, EmptyHas
<1> QED BY <1>1, <1>2 DEF KeptForRecovery, t

(* Taking what is kept for the agents that follow ahead of what the hold    *)
(* keeps leaves the order.                                                  *)
LEMMA RecoversSorted ==
    ASSUME NEW w, Sorted(w), NEW unrecovered
    PROVE  LET v == Recovers(w, unrecovered) IN
           /\ Sorted(v) /\ v.landed = w.landed
           /\ Has(v.kept) = {e \in Has(w.kept) : e.to \in unrecovered}
           /\ Waits(v) = Waits(w)
<1> DEFINE v == Recovers(w, unrecovered)
           kept == For(w.kept, unrecovered)
           ahead == NotFor(w.kept, unrecovered)
           queue == ahead \o w.queue
<1>0. w \in Writes /\ w.kept \in Seq(Write) /\ w.queue \in Seq(Write)
  BY WriteTypes DEF Sorted, Placed
<1>1. /\ kept \in Seq(Write) /\ InOrder(kept)
      /\ Has(kept) = {e \in Has(w.kept) : e.to \in unrecovered}
  BY <1>0, ForMembers, ForInOrder DEF Sorted, Placed
<1>2. /\ ahead \in Seq(Write) /\ InOrder(ahead)
      /\ Has(ahead) = {e \in Has(w.kept) : e.to \notin unrecovered}
  BY <1>0, NotForMembers DEF Sorted, Placed
<1>3. v = [w EXCEPT !.queue = queue, !.kept = kept]
  BY <1>0 DEF Recovers, Writes
<1> HIDE DEF kept, ahead, v
<1>4. Ahead(ahead, w.queue) /\ Ahead(kept, w.queue)
  BY <1>1, <1>2 DEF Sorted, Placed, Ahead
<1>5. queue \in Seq(Write) /\ InOrder(queue) /\ Has(queue) = Has(ahead) \cup Has(w.queue)
  BY <1>0, <1>2, <1>4, Joined DEF Sorted, Placed
<1> HIDE DEF queue
<1>6. Ahead(kept, ahead)
  <2> SUFFICES ASSUME NEW d \in Has(kept), NEW e \in Has(ahead)
               PROVE  d.n # e.n /\ d.to # e.to
    BY DEF Ahead
  <2>1. d.to # e.to /\ d \in Has(w.kept) /\ e \in Has(w.kept)
    BY <1>1, <1>2
  <2>2. PICK i \in 1..Len(w.kept), j \in 1..Len(w.kept) : d = w.kept[i] /\ e = w.kept[j]
    BY <2>1 DEF Has
  <2>3. i # j /\ i \in Nat /\ j \in Nat
    BY <2>1, <2>2, <1>0
  <2>4. i < j \/ j < i
    BY <2>3
  <2> QED BY <2>1, <2>2, <2>4 DEF Sorted, Placed, InOrder
<1>7. Ahead(kept, queue)
  BY <1>4, <1>5, <1>6 DEF Ahead
<1>8. /\ v \in Writes /\ v.kept = kept /\ v.queue = queue /\ v.landed = w.landed
      /\ v.accepted = w.accepted /\ v.settled = w.settled
  BY <1>0, <1>1, <1>3, <1>5 DEF Writes
<1>9. Waits(v) = Waits(w)
  BY <1>1, <1>2, <1>5, <1>8 DEF Waits
<1>10. Sorted(v)
  BY <1>1, <1>5, <1>7, <1>8, <1>9 DEF Sorted, Placed, Accounted
<1> QED BY <1>1, <1>8, <1>9, <1>10 DEF v

(* A new write is in hand once it has its number.                           *)
LEMMA AcceptInHand ==
    ASSUME NEW w, Sorted(w), NEW to \in Agent
    PROVE  LET v == [w EXCEPT !.accepted = @ + 1]
               e == [n |-> w.accepted + 1, to |-> to]
           IN  /\ InHand(v, e) /\ \A d \in Waits(v) : d.n < e.n
               /\ v.kept = w.kept /\ v.queue = w.queue /\ v.landed = w.landed
<1> DEFINE v == [w EXCEPT !.accepted = @ + 1]
           e == [n |-> w.accepted + 1, to |-> to]
<1>0. w \in Writes /\ w.accepted \in Nat /\ w.landed \in [Agent -> Nat]
  BY WriteTypes DEF Sorted, Placed
<1>1. e \in Write /\ e.n = w.accepted + 1 /\ e.to = to
  BY <1>0 DEF Write
<1>2. /\ v \in Writes /\ v.kept = w.kept /\ v.queue = w.queue /\ v.landed = w.landed
      /\ v.accepted = w.accepted + 1 /\ v.settled = w.settled
  <2>1. PICK n \in Nat : n = w.accepted + 1
    BY <1>0
  <2>2. v = [w EXCEPT !.accepted = n]
    BY <2>1
  <2>3. /\ v.kept = w.kept /\ v.queue = w.queue /\ v.landed = w.landed
        /\ v.accepted = n /\ v.settled = w.settled
    BY <1>0, <2>2 DEF Writes
  <2>4. v \in Writes
    BY <1>0, <2>2 DEF Writes
  <2> QED BY <2>1, <2>3, <2>4
<1> HIDE DEF v, e
<1>3. Waits(v) = Waits(w)
  BY <1>2 DEF Waits
<1>4. Placed(v)
  <2>1. \A a \in Agent : v.landed[a] <= v.accepted
    BY <1>0, <1>2 DEF Sorted, Placed
  <2> QED BY <2>1, <1>2, <1>3 DEF Sorted, Placed
<1>5. Numbers(Waits(w)) \subseteq 1..w.accepted
  BY DEF Sorted, Accounted
<1>6. v.settled \cup Numbers(Waits(v)) = (1..v.accepted) \ {e.n}
  BY <1>0, <1>1, <1>2, <1>3 DEF Sorted, Accounted
<1>7. e.n > v.landed[e.to]
  BY <1>0, <1>1, <1>2 DEF Sorted, Placed
<1>8. \A d \in Waits(v) : d.n < e.n
  BY <1>0, <1>1, <1>3, <1>5 DEF Numbers
<1>9. e.n \in 1..v.accepted
  BY <1>0, <1>1, <1>2
<1>10. InHand(v, e)
  BY <1>1, <1>4, <1>6, <1>7, <1>9 DEF InHand
<1> QED BY <1>2, <1>8, <1>10 DEF v, e

(* The first write of the queue is in hand once it is taken out.            *)
LEMMA HeadInHand ==
    ASSUME NEW w, Sorted(w), w.queue # <<>>
    PROVE  LET v == [w EXCEPT !.queue = Tail(@)]
               e == Head(w.queue)
           IN  /\ InHand(v, e) /\ e \in Has(w.queue)
               /\ \A d \in Has(v.kept) : d.to = e.to => d.n < e.n
               /\ \A d \in Has(v.queue) : d.to = e.to => d.n > e.n
               /\ v.kept = w.kept /\ v.landed = w.landed
               /\ Has(v.queue) \subseteq Has(w.queue)
<1> DEFINE v == [w EXCEPT !.queue = Tail(@)]
           e == Head(w.queue)
           queue == Tail(w.queue)
<1>0. /\ w \in Writes /\ w.accepted \in Nat /\ w.landed \in [Agent -> Nat]
      /\ w.kept \in Seq(Write) /\ w.queue \in Seq(Write)
  BY WriteTypes DEF Sorted, Placed
<1>1. e \in Write /\ queue \in Seq(Write) /\ w.queue = <<e>> \o queue
  BY <1>0
<1>2. v = [w EXCEPT !.queue = queue]
  BY <1>0 DEF Writes
<1> HIDE DEF v, e, queue
<1>3. /\ v \in Writes /\ v.kept = w.kept /\ v.queue = queue /\ v.landed = w.landed
      /\ v.accepted = w.accepted /\ v.settled = w.settled
  BY <1>0, <1>1, <1>2 DEF Writes
<1>4. Has(w.queue) = {e} \cup Has(queue) /\ InOrder(queue) /\ Ahead(<<e>>, queue)
  <2>1. <<e>> \in Seq(Write) /\ Has(<<e>>) = {e}
    BY <1>1, OneHas
  <2>2. InOrder(<<e>> \o queue)
    BY <1>1 DEF Sorted, Placed
  <2>3. Has(<<e>> \o queue) = Has(<<e>>) \cup Has(queue) /\ InOrder(queue) /\ Ahead(<<e>>, queue)
    BY <2>1, <2>2, <1>1, Joined
  <2> QED BY <2>1, <2>3, <1>1
<1>5. Waits(w) = Waits(v) \cup {e}
  BY <1>3, <1>4 DEF Waits
<1>6. Ahead(v.kept, v.queue)
  BY <1>3, <1>4 DEF Sorted, Placed, Ahead
<1>7. Placed(v)
  BY <1>3, <1>4, <1>5, <1>6 DEF Sorted, Placed
<1>8. \A d \in Has(queue) : d.n # e.n /\ (d.to = e.to => d.n > e.n)
  <2>1. \A d \in Has(queue) : d.n # e.n /\ (e.to = d.to => e.n < d.n)
    BY <1>1, <1>4, OneHas DEF Ahead
  <2>2. e.n \in Nat /\ \A d \in Has(queue) : d.n \in Nat
    BY <1>1, HasTypes DEF Write
  <2> QED BY <2>1, <2>2
<1>9. \A d \in Has(w.kept) : d.n # e.n /\ (d.to = e.to => d.n < e.n)
  BY <1>4 DEF Sorted, Placed, Ahead
<1>10. e.n \notin Numbers(Waits(v))
  BY <1>3, <1>8, <1>9 DEF Numbers, Waits
<1>11. e.n \notin v.settled /\ e.n > v.landed[e.to]
  BY <1>3, <1>5 DEF Sorted, Placed
<1>12. v.settled \cup Numbers(Waits(v)) = (1..v.accepted) \ {e.n} /\ e.n \in 1..v.accepted
  <2>1. Numbers(Waits(w)) = Numbers(Waits(v)) \cup {e.n}
    BY <1>5 DEF Numbers
  <2> QED BY <2>1, <1>3, <1>10, <1>11 DEF Sorted, Accounted
<1>13. InHand(v, e)
  BY <1>1, <1>7, <1>11, <1>12 DEF InHand
<1> QED BY <1>3, <1>4, <1>8, <1>9, <1>13 DEF v, e

(* Accepting a write: it is queued under a hold or a replay, and goes to    *)
(* its agent's store or behind what is kept for it when nothing is queued.  *)
LEMMA AcceptSorted ==
    ASSUME NEW w, Sorted(w), NEW to \in Agent, NEW heldBySurgery \in BOOLEAN,
           heldBySurgery \/ w.queue = <<>>
    PROVE  LET v == Accept(w, to, heldBySurgery) IN
           /\ Sorted(v)
           /\ \A d \in Waits(v) : d \in Waits(w) \/ d.to = to
           /\ heldBySurgery => v.landed = w.landed /\ v.kept = w.kept /\ v.queue # <<>>
           /\ ~heldBySurgery => v.queue = <<>>
           /\ \A d \in Has(v.kept) : d \in Has(w.kept) \/ (d.to = to /\ KeptForRecovery(w, to))
<1> DEFINE u == [w EXCEPT !.accepted = @ + 1]
           e == [n |-> w.accepted + 1, to |-> to]
           v == Accept(w, to, heldBySurgery)
<1>1. /\ InHand(u, e) /\ \A d \in Waits(u) : d.n < e.n
      /\ u.kept = w.kept /\ u.queue = w.queue /\ u.landed = w.landed
  BY AcceptInHand
<1>2. v = Put(u, e, heldBySurgery) /\ e.to = to
  BY DEF Accept
<1>3. w.kept \in Seq(Write) /\ w.queue \in Seq(Write)
  BY WriteTypes DEF Sorted, Placed
<1> HIDE DEF u, e, v
<1>4. Waits(u) = Waits(w)
  BY <1>1 DEF Waits
<1>5. CASE heldBySurgery
  <2>1. v = [u EXCEPT !.queue = Append(@, e)]
    BY <1>2, <1>5 DEF Put
  <2>2. /\ Sorted(v) /\ v.kept = u.kept /\ v.landed = u.landed
        /\ Has(v.queue) = Has(u.queue) \cup {e} /\ v.queue # <<>>
    BY <1>1, <2>1, QueueSorted
  <2> QED BY <1>1, <1>2, <1>5, <2>2 DEF Waits, v
<1>6. CASE ~heldBySurgery /\ KeptForRecovery(u, to)
  <2>1. v = [u EXCEPT !.kept = Append(@, e)]
    BY <1>2, <1>6 DEF Put
  <2>2. Has(u.queue) = {} /\ \A d \in Has(u.kept) : d.n < e.n
    BY <1>1, <1>6, EmptyHas DEF Waits
  <2>3. Sorted(v) /\ v.queue = u.queue /\ v.landed = u.landed /\ Has(v.kept) = Has(u.kept) \cup {e}
    BY <1>1, <2>1, <2>2, KeepSorted
  <2>4. KeptForRecovery(w, to)
    BY <1>1, <1>6 DEF KeptForRecovery
  <2> QED BY <1>1, <1>2, <1>6, <2>3, <2>4 DEF Waits, v
<1>7. CASE ~heldBySurgery /\ ~KeptForRecovery(u, to)
  <2>1. v = Settle([u EXCEPT !.landed[e.to] = e.n], e)
    BY <1>2, <1>7 DEF Put
  <2>2. \A d \in Waits(u) : d.to # e.to
    BY <1>1, <1>2, <1>3, <1>7, KeptMeans, EmptyHas DEF Waits
  <2>3. Sorted(v) /\ v.kept = u.kept /\ v.queue = u.queue
    BY <1>1, <2>1, <2>2, StoreSorted
  <2> QED BY <1>1, <1>7, <2>3 DEF Waits, v
<1> QED BY <1>5, <1>6, <1>7

(* Replaying the first write of the queue: stored, kept or lost.            *)
LEMMA ReplaySorted ==
    ASSUME NEW w, Sorted(w), w.queue # <<>>,
           NEW v \in {Put([w EXCEPT !.queue = Tail(@)], Head(w.queue), FALSE),
                      Settle([w EXCEPT !.queue = Tail(@)], Head(w.queue))}
    PROVE  /\ Sorted(v) /\ Waits(v) \subseteq Waits(w)
           /\ v.queue = [w EXCEPT !.queue = Tail(@)].queue
           /\ \A d \in Has(v.kept) : d \in Has(w.kept) \/ KeptForRecovery(w, d.to)
<1> DEFINE u == [w EXCEPT !.queue = Tail(@)]
           e == Head(w.queue)
<1>1. /\ InHand(u, e) /\ e \in Has(w.queue)
      /\ \A d \in Has(u.kept) : d.to = e.to => d.n < e.n
      /\ \A d \in Has(u.queue) : d.to = e.to => d.n > e.n
      /\ u.kept = w.kept /\ u.landed = w.landed
      /\ Has(u.queue) \subseteq Has(w.queue)
  BY HeadInHand
<1>2. v \in {Put(u, e, FALSE), Settle(u, e)}
  OBVIOUS
<1>3. w.kept \in Seq(Write)
  BY WriteTypes DEF Sorted, Placed
<1> HIDE DEF u, e
<1>4. e \in Waits(w) /\ Waits(u) \subseteq Waits(w)
  BY <1>1 DEF Waits
<1>5. CASE v = Settle(u, e)
  <2>1. Sorted(v) /\ v.kept = u.kept /\ v.queue = u.queue
    BY <1>1, <1>5, LoseSorted
  <2> QED BY <1>1, <1>4, <2>1 DEF Waits, u
<1>6. CASE v = Put(u, e, FALSE) /\ KeptForRecovery(u, e.to)
  <2>1. v = [u EXCEPT !.kept = Append(@, e)]
    BY <1>6 DEF Put
  <2>2. Sorted(v) /\ v.queue = u.queue /\ Has(v.kept) = Has(u.kept) \cup {e}
    BY <1>1, <2>1, KeepSorted
  <2>3. KeptForRecovery(w, e.to)
    BY <1>1, <1>6 DEF KeptForRecovery
  <2> QED BY <1>1, <1>4, <2>2, <2>3 DEF Waits, u
<1>7. CASE v = Put(u, e, FALSE) /\ ~KeptForRecovery(u, e.to)
  <2>1. v = Settle([u EXCEPT !.landed[e.to] = e.n], e)
    BY <1>7 DEF Put
  <2>2. \A d \in Waits(u) : d.to = e.to => d.n > e.n
    BY <1>1, <1>3, <1>7, KeptMeans DEF Waits
  <2>3. Sorted(v) /\ v.kept = u.kept /\ v.queue = u.queue
    BY <1>1, <2>1, <2>2, StoreSorted
  <2> QED BY <1>1, <1>4, <2>3 DEF Waits, u
<1> QED BY <1>2, <1>5, <1>6, <1>7

(* No two writes that wait have one number.                                 *)
LEMMA Distinct ==
    ASSUME NEW w, Placed(w), NEW d \in Waits(w), NEW e \in Waits(w), d # e
    PROVE  d.n # e.n
<1>0. w.kept \in Seq(Write) /\ w.queue \in Seq(Write)
  BY WriteTypes DEF Placed
<1>1. ASSUME NEW s \in Seq(Write), InOrder(s), d \in Has(s), e \in Has(s) PROVE d.n # e.n
  <2>1. PICK i \in 1..Len(s), j \in 1..Len(s) : d = s[i] /\ e = s[j]
    BY <1>1 DEF Has
  <2>2. i < j \/ j < i
    BY <2>1, <1>1
  <2> QED BY <2>1, <2>2, <1>1 DEF InOrder
<1> QED BY <1>0, <1>1 DEF Placed, Waits, Ahead

(* What waits for an agent that ends is taken out and counts as settled.    *)
Without(w, f) == [w EXCEPT !.kept = NotFor(@, {f}), !.queue = NotFor(@, {f})]
Taken(w, f) == For(w.kept, {f}) \o For(w.queue, {f})

LEMMA WithoutSorted ==
    ASSUME NEW w, Sorted(w), NEW f
    PROVE  LET u == Without(w, f)
               gone == Numbers(ToSet(Taken(w, f)))
           IN  /\ u \in Writes /\ gone \subseteq 1..w.accepted
               /\ u.accepted = w.accepted /\ u.settled = w.settled /\ u.landed = w.landed
               /\ Has(u.kept) = {e \in Has(w.kept) : e.to # f}
               /\ Has(u.queue) = {e \in Has(w.queue) : e.to # f}
               /\ Sorted([u EXCEPT !.settled = @ \cup gone])
<1> DEFINE u == Without(w, f)
           gone == Numbers(ToSet(Taken(w, f)))
           v == [u EXCEPT !.settled = @ \cup gone]
           kept == NotFor(w.kept, {f})
           queue == NotFor(w.queue, {f})
<1>0. /\ w \in Writes /\ w.kept \in Seq(Write) /\ w.queue \in Seq(Write)
      /\ w.settled \subseteq Nat /\ w.accepted \in Nat
  BY WriteTypes DEF Sorted, Placed
<1>1. /\ kept \in Seq(Write) /\ InOrder(kept) /\ Has(kept) = {e \in Has(w.kept) : e.to # f}
      /\ queue \in Seq(Write) /\ InOrder(queue) /\ Has(queue) = {e \in Has(w.queue) : e.to # f}
  BY <1>0, NotForMembers DEF Sorted, Placed
<1>2. ToSet(Taken(w, f)) = {e \in Waits(w) : e.to = f}
  <2>1. /\ For(w.kept, {f}) \in Seq(Write) /\ Has(For(w.kept, {f})) = {e \in Has(w.kept) : e.to = f}
        /\ For(w.queue, {f}) \in Seq(Write) /\ Has(For(w.queue, {f})) = {e \in Has(w.queue) : e.to = f}
    BY <1>0, ForMembers
  <2>2. /\ Taken(w, f) \in Seq(Write)
        /\ Has(Taken(w, f)) = Has(For(w.kept, {f})) \cup Has(For(w.queue, {f}))
    BY <2>1, Joined DEF Taken
  <2> QED BY <2>1, <2>2, HasIsToSet DEF Waits
<1>3. u = [w EXCEPT !.kept = kept, !.queue = queue]
  BY <1>0 DEF Without, Writes
<1> HIDE DEF u, kept, queue
<1>4. /\ u \in Writes /\ u.kept = kept /\ u.queue = queue
      /\ u.accepted = w.accepted /\ u.settled = w.settled /\ u.landed = w.landed
  BY <1>0, <1>1, <1>3 DEF Writes
<1>5. gone \subseteq 1..w.accepted
  BY <1>2 DEF Numbers, Sorted, Accounted
<1>6. gone \subseteq Nat
  BY <1>0, <1>5
<1>7. /\ v \in Writes /\ v.kept = kept /\ v.queue = queue /\ v.accepted = w.accepted
      /\ v.settled = w.settled \cup gone /\ v.landed = w.landed
  <2> HIDE DEF gone
  <2> QED BY <1>4, <1>6 DEF Writes
<1>8. Waits(v) = {e \in Waits(w) : e.to # f}
  BY <1>1, <1>7 DEF Waits
<1>9. \A e \in Waits(v) : e.n \notin gone
  <2>1. ASSUME NEW e \in Waits(v), NEW d \in Waits(w), d.to = f PROVE e.n # d.n
    BY <1>8, <2>1, Distinct DEF Sorted
  <2> QED BY <2>1, <1>2 DEF Numbers
<1>10. Ahead(kept, queue)
  BY <1>1 DEF Sorted, Placed, Ahead
<1>11. Placed(v)
  <2> HIDE DEF v, gone
  <2>1. \A e \in Waits(v) : e.n \notin v.settled /\ e.n > v.landed[e.to]
    BY <1>7, <1>8, <1>9 DEF Sorted, Placed
  <2> QED BY <2>1, <1>1, <1>7, <1>10 DEF Sorted, Placed
<1>12. Accounted(v)
  <2>1. Numbers(Waits(w)) = Numbers(Waits(v)) \cup gone
    BY <1>2, <1>8 DEF Numbers
  <2> HIDE DEF v, gone
  <2> QED BY <2>1, <1>7 DEF Sorted, Accounted
<1>13. /\ u \in Writes /\ gone \subseteq 1..w.accepted
       /\ u.accepted = w.accepted /\ u.settled = w.settled /\ u.landed = w.landed
       /\ Has(u.kept) = {e \in Has(w.kept) : e.to # f}
       /\ Has(u.queue) = {e \in Has(w.queue) : e.to # f}
  BY <1>1, <1>4, <1>5
<1>14. Sorted(v)
  BY <1>11, <1>12 DEF Sorted
<1> HIDE DEF v, gone
<1> QED BY <1>13, <1>14 DEF v, u, gone

(* The notices the primary is told in its place: numbered on, in order.     *)
Notices(w, c) == [i \in 1..c |-> [n |-> w.accepted + i, to |-> Primary]]

LEMMA NoticesInOrder ==
    ASSUME NEW w, w.accepted \in Nat, NEW c \in Nat
    PROVE  LET s == Notices(w, c) IN
           /\ s \in Seq(Write) /\ Len(s) = c /\ InOrder(s)
           /\ Numbers(Has(s)) = (w.accepted + 1)..(w.accepted + c)
           /\ \A e \in Has(s) : e.to = Primary
<1> DEFINE s == Notices(w, c)
<1>1. \A i \in 1..c : [n |-> w.accepted + i, to |-> Primary] \in Write
  BY HoldConstants DEF Write
<1>2. s \in [1..c -> Write]
  BY <1>1 DEF Notices
<1>3. s \in Seq(Write) /\ Len(s) = c
  BY <1>2
<1>4. \A i \in 1..c : s[i].n = w.accepted + i /\ s[i].to = Primary
  BY DEF Notices
<1> HIDE DEF s
<1>5. InOrder(s)
  BY <1>3, <1>4 DEF InOrder
<1>6. \A e \in Has(s) : e.to = Primary
  BY <1>3, <1>4 DEF Has
<1>7. Numbers(Has(s)) = (w.accepted + 1)..(w.accepted + c)
  <2>1. Numbers(Has(s)) = {w.accepted + i : i \in 1..c}
    BY <1>3, <1>4 DEF Numbers, Has
  <2>2. ASSUME NEW k \in (w.accepted + 1)..(w.accepted + c)
        PROVE  \E i \in 1..c : k = w.accepted + i
    <3>1. k - w.accepted \in 1..c /\ k = w.accepted + (k - w.accepted)
      OBVIOUS
    <3> QED BY <3>1
  <2>3. \A i \in 1..c : w.accepted + i \in (w.accepted + 1)..(w.accepted + c)
    OBVIOUS
  <2> QED BY <2>1, <2>2, <2>3
<1> QED BY <1>3, <1>5, <1>6, <1>7 DEF s

(* They wait behind what is queued, or behind what is kept for the primary  *)
(* when nothing is queued, or are stored when nothing waits for it.         *)
LEMMA NoticesSorted ==
    ASSUME NEW w, Sorted(w), NEW c \in Nat, NEW v \in Writes,
           v.accepted = w.accepted + c,
           \/ /\ v.queue = w.queue \o Notices(w, c)
              /\ v.kept = w.kept /\ v.landed = w.landed /\ v.settled = w.settled
           \/ /\ v.kept = w.kept \o Notices(w, c) /\ w.queue = <<>>
              /\ v.queue = w.queue /\ v.landed = w.landed /\ v.settled = w.settled
           \/ /\ v.kept = w.kept /\ v.queue = w.queue
              /\ \A d \in Waits(w) : d.to # Primary
              /\ v.landed = [w.landed EXCEPT ![Primary] = w.accepted + c]
              /\ v.settled = w.settled \cup Numbers(Has(Notices(w, c)))
    PROVE  Sorted(v)
<1> DEFINE s == Notices(w, c)
<1>0. /\ w \in Writes /\ w.accepted \in Nat /\ w.landed \in [Agent -> Nat]
      /\ w.kept \in Seq(Write) /\ w.queue \in Seq(Write)
      /\ \A e \in Waits(w) : e.n \in Nat /\ e.to \in Agent
  BY WriteTypes DEF Sorted, Placed
<1>1. /\ s \in Seq(Write) /\ InOrder(s)
      /\ Numbers(Has(s)) = (w.accepted + 1)..(w.accepted + c)
      /\ \A e \in Has(s) : e.to = Primary
  BY <1>0, NoticesInOrder
<1> HIDE DEF s
<1>2. 1..v.accepted = (1..w.accepted) \cup Numbers(Has(s))
  BY <1>0, <1>1
<1>3. /\ w.settled \subseteq 1..w.accepted
      /\ \A e \in Waits(w) : e.n \in 1..w.accepted
      /\ \A e \in Has(s) : e.n \in (w.accepted + 1)..(w.accepted + c)
  BY <1>1 DEF Sorted, Accounted, Numbers
<1>4. \A e \in Has(s) : /\ e.n \notin w.settled /\ e.n > w.accepted
                        /\ \A d \in Waits(w) : d.n < e.n /\ d.n # e.n
  <2>1. \A e \in Has(s) : e.n \in Nat /\ e.n > w.accepted
    BY <1>0, <1>3
  <2>2. \A k \in 1..w.accepted : k \in Nat /\ k <= w.accepted
    BY <1>0
  <2>3. \A e \in Has(s), k \in 1..w.accepted : k < e.n /\ k # e.n
    BY <1>0, <2>1, <2>2
  <2> QED BY <1>3, <2>1, <2>3
<1>5. \A a \in Agent : w.landed[a] \in Nat /\ w.landed[a] <= w.accepted
  BY <1>0 DEF Sorted, Placed
<1>6. \A e \in Has(s) : e.n \in Nat /\ e.to \in Agent /\ e.n > w.landed[e.to]
  BY <1>0, <1>1, <1>3, <1>4, <1>5, HoldConstants
<1>7. CASE /\ v.queue = w.queue \o s
           /\ v.kept = w.kept /\ v.landed = w.landed /\ v.settled = w.settled
  <2>1. Ahead(w.queue, s) /\ Ahead(w.kept, s)
    BY <1>4 DEF Ahead, Waits
  <2>2. Has(v.queue) = Has(w.queue) \cup Has(s) /\ InOrder(v.queue)
    BY <1>0, <1>1, <1>7, <2>1, Joined DEF Sorted, Placed
  <2>3. Ahead(v.kept, v.queue)
    BY <1>7, <2>1, <2>2 DEF Ahead, Sorted, Placed
  <2>4. Waits(v) = Waits(w) \cup Has(s)
    BY <1>7, <2>2 DEF Waits
  <2>5. Placed(v)
    <3>1. \A a \in Agent : v.landed[a] <= v.accepted
      BY <1>0, <1>5, <1>7
    <3> QED BY <3>1, <1>4, <1>6, <1>7, <2>2, <2>3, <2>4 DEF Sorted, Placed
  <2>6. Accounted(v)
    BY <1>2, <1>7, <2>4 DEF Sorted, Accounted, Numbers
  <2> QED BY <2>5, <2>6 DEF Sorted
<1>8. CASE /\ v.kept = w.kept \o s /\ w.queue = <<>>
           /\ v.queue = w.queue /\ v.landed = w.landed /\ v.settled = w.settled
  <2>1. Ahead(w.kept, s)
    BY <1>4 DEF Ahead, Waits
  <2>2. Has(v.kept) = Has(w.kept) \cup Has(s) /\ InOrder(v.kept)
    BY <1>0, <1>1, <1>8, <2>1, Joined DEF Sorted, Placed
  <2>3. Ahead(v.kept, v.queue)
    BY <1>8, EmptyHas DEF Ahead
  <2>4. Waits(v) = Waits(w) \cup Has(s)
    BY <1>8, <2>2 DEF Waits
  <2>5. Placed(v)
    <3>1. \A a \in Agent : v.landed[a] <= v.accepted
      BY <1>0, <1>5, <1>8
    <3> QED BY <3>1, <1>4, <1>6, <1>8, <2>2, <2>3, <2>4 DEF Sorted, Placed
  <2>6. Accounted(v)
    BY <1>2, <1>8, <2>4 DEF Sorted, Accounted, Numbers
  <2> QED BY <2>5, <2>6 DEF Sorted
<1>9. CASE /\ v.kept = w.kept /\ v.queue = w.queue
           /\ \A d \in Waits(w) : d.to # Primary
           /\ v.landed = [w.landed EXCEPT ![Primary] = w.accepted + c]
           /\ v.settled = w.settled \cup Numbers(Has(s))
  <2>1. Waits(v) = Waits(w)
    BY <1>9 DEF Waits
  <2>2. \A a \in Agent : v.landed[a] <= v.accepted
    BY <1>0, <1>5, <1>9
  <2>3. \A e \in Waits(w) : e.n > v.landed[e.to]
    BY <1>0, <1>9 DEF Sorted, Placed
  <2>4. \A e \in Waits(w) : e.n \notin v.settled
    BY <1>4, <1>9 DEF Sorted, Placed, Numbers
  <2>5. Placed(v)
    BY <1>9, <2>1, <2>2, <2>3, <2>4 DEF Sorted, Placed
  <2>6. Accounted(v)
    BY <1>2, <1>9, <2>1 DEF Sorted, Accounted
  <2> QED BY <2>5, <2>6 DEF Sorted
<1> QED BY <1>7, <1>8, <1>9 DEF s

(* The same, one way at a time.                                             *)
LEMMA NoticesQueued ==
    ASSUME NEW w, Sorted(w), NEW c \in Nat, NEW v \in Writes, v.accepted = w.accepted + c,
           v.queue = w.queue \o Notices(w, c),
           v.kept = w.kept, v.landed = w.landed, v.settled = w.settled
    PROVE  Sorted(v)
BY NoticesSorted

LEMMA NoticesKept ==
    ASSUME NEW w, Sorted(w), NEW c \in Nat, NEW v \in Writes, v.accepted = w.accepted + c,
           v.kept = w.kept \o Notices(w, c), w.queue = <<>>,
           v.queue = w.queue, v.landed = w.landed, v.settled = w.settled
    PROVE  Sorted(v)
BY NoticesSorted

LEMMA NoticesLanded ==
    ASSUME NEW w, Sorted(w), NEW c \in Nat, NEW v \in Writes, v.accepted = w.accepted + c,
           v.kept = w.kept, v.queue = w.queue, \A d \in Waits(w) : d.to # Primary,
           v.landed = [w.landed EXCEPT ![Primary] = w.accepted + c],
           v.settled = w.settled \cup Numbers(Has(Notices(w, c)))
    PROVE  Sorted(v)
BY NoticesSorted

(* The numbers of the entries taken are finitely many.                      *)
LEMMA TakenCount ==
    ASSUME NEW n \in Nat, NEW gone, gone \subseteq 1..n, NEW taken, taken \subseteq gone
    PROVE  Cardinality(taken) \in Nat /\ (taken = {} => Cardinality(taken) = 0)
<1>1. IsFiniteSet(1..n)
  BY FS_Interval
<1>2. IsFiniteSet(taken)
  BY <1>1, FS_Subset
<1> QED BY <1>2, FS_CardinalityType, FS_EmptySet

(* An agent's writes are taken out when it ends: each is dropped or told to *)
(* the primary, whose notices wait as its other writes do.                  *)
LEMMA PassOnSorted ==
    ASSUME NEW w, Sorted(w), NEW f, f # Primary,
           NEW taken, taken \subseteq Numbers(ToSet(Taken(w, f))),
           ~Held /\ ~replaying => w.queue = <<>>
    PROVE  LET v == PassOn(Without(w, f), Taken(w, f), taken) IN
           /\ Sorted(v)
           /\ \A e \in Waits(v) : e.to = Primary \/ (e \in Waits(w) /\ e.to # f)
           /\ ~Held /\ ~replaying => v.queue = <<>>
           /\ Held => v.landed = w.landed /\ Has(v.kept) \subseteq Has(w.kept)
           /\ \A e \in Has(v.kept) : (e \in Has(w.kept) /\ e.to # f)
                                     \/ (e.to = Primary /\ KeptForRecovery(w, Primary))
<1> DEFINE u == Without(w, f)
           entries == Taken(w, f)
           gone == Numbers(ToSet(entries))
           c == Cardinality(taken)
           base == [u EXCEPT !.settled = @ \cup gone]
           s == Notices(base, c)
           v == PassOn(u, entries, taken)
<1>1. /\ u \in Writes /\ gone \subseteq 1..w.accepted
      /\ u.accepted = w.accepted /\ u.settled = w.settled /\ u.landed = w.landed
      /\ Has(u.kept) = {e \in Has(w.kept) : e.to # f}
      /\ Has(u.queue) = {e \in Has(w.queue) : e.to # f}
      /\ Sorted(base)
  <2> HIDE DEF u, gone, entries, base
  <2> QED BY WithoutSorted DEF u, gone, entries, base
<1>2. /\ w \in Writes /\ w.accepted \in Nat /\ w.kept \in Seq(Write) /\ w.queue \in Seq(Write)
      /\ u.kept \in Seq(Write) /\ u.queue \in Seq(Write) /\ u.landed \in [Agent -> Nat]
      /\ u.settled \subseteq Nat
  BY <1>1, WriteTypes DEF Sorted, Placed
<1>3. c \in Nat /\ (taken = {} => c = 0)
  <2> HIDE DEF gone
  <2>1. taken \subseteq gone
    BY DEF gone
  <2> QED BY <1>1, <1>2, <2>1, TakenCount
<1> DEFINE notices == [i \in 1..Cardinality(taken) |-> [n |-> u.accepted + i, to |-> Primary]]
           told == [u EXCEPT !.accepted = @ + Len(notices), !.settled = @ \cup {e.n : e \in ToSet(entries)}]
<1>4. v = IF taken = {} THEN told
          ELSE IF Held \/ replaying THEN [told EXCEPT !.queue = @ \o notices]
          ELSE IF KeptForRecovery(u, Primary) THEN [told EXCEPT !.kept = @ \o notices]
          ELSE [told EXCEPT !.landed[Primary] = told.accepted,
                            !.settled = @ \cup {e.n : e \in ToSet(notices)}]
  BY DEF PassOn
<1>5. gone = {e.n : e \in ToSet(entries)}
  BY DEF Numbers
<1>a. gone \subseteq Nat
  <2> HIDE DEF gone
  <2> QED BY <1>1, <1>2
<1> HIDE DEF u, entries, gone, c, v
<1>6. /\ base \in Writes /\ base.accepted = u.accepted /\ base.kept = u.kept
      /\ base.queue = u.queue /\ base.landed = u.landed /\ base.settled = u.settled \cup gone
  BY <1>1, <1>2, <1>a DEF Writes
<1> HIDE DEF base
<1>7. notices = s
  BY <1>6 DEF Notices, c
<1> HIDE DEF notices, s
<1>8. /\ s \in Seq(Write) /\ Len(s) = c /\ \A e \in Has(s) : e.to = Primary
      /\ Numbers(Has(s)) = (base.accepted + 1)..(base.accepted + c)
      /\ ToSet(s) = Has(s)
  <2>1. base.accepted \in Nat
    BY <1>6 DEF Writes
  <2> QED BY <2>1, <1>3, NoticesInOrder, HasIsToSet DEF s
<1>b. u \in Writes /\ u.accepted \in Nat
  BY <1>1, <1>2
<1>c. /\ Has(base.kept) = {e \in Has(w.kept) : e.to # f} /\ base.landed = w.landed
      /\ Has(base.queue) = {e \in Has(w.queue) : e.to # f}
  BY <1>1, <1>6
<1>9. told = [u EXCEPT !.accepted = @ + c, !.settled = @ \cup gone]
  BY <1>5, <1>7, <1>8
<1> HIDE DEF told
<1>10. /\ told \in Writes /\ told.accepted = base.accepted + c /\ told.kept = base.kept
       /\ told.queue = base.queue /\ told.landed = base.landed /\ told.settled = base.settled
  <2>1. u.accepted + c \in Nat /\ (u.settled \cup gone) \in SUBSET Nat
    <3>1. u.accepted + c \in Nat
      BY <1>b, <1>3
    <3>2. u.settled \subseteq Nat
      BY <1>2
    <3> QED BY <3>1, <3>2, <1>a
  <2>2. /\ told \in Writes /\ told.accepted = u.accepted + c /\ told.kept = u.kept
        /\ told.queue = u.queue /\ told.landed = u.landed /\ told.settled = u.settled \cup gone
    BY <1>b, <2>1, <1>9 DEF Writes
  <2> QED BY <2>2, <1>6
<1>11. Waits(base) = {e \in Waits(w) : e.to # f}
  BY <1>1, <1>6 DEF Waits
<1>12. KeptForRecovery(u, Primary) => KeptForRecovery(w, Primary)
  BY <1>1, <1>2, KeptMeans
<1>13. w.queue = <<>> => base.queue = <<>>
  <2>1. w.queue = <<>> => Has(base.queue) = {}
    BY <1>1, <1>6, EmptyHas
  <2>2. base.queue # <<>> => base.queue[1] \in Has(base.queue)
    <3>1. base.queue # <<>> => 1 \in 1..Len(base.queue)
      BY <1>2, <1>6
    <3> QED BY <3>1 DEF Has
  <2> QED BY <2>1, <2>2
<1> DEFINE Fine ==
      /\ Sorted(v)
      /\ \A e \in Waits(v) : e.to = Primary \/ (e \in Waits(w) /\ e.to # f)
      /\ ~Held /\ ~replaying => v.queue = <<>>
      /\ Held => v.landed = w.landed /\ Has(v.kept) \subseteq Has(w.kept)
      /\ \A e \in Has(v.kept) : (e \in Has(w.kept) /\ e.to # f)
                                \/ (e.to = Primary /\ KeptForRecovery(w, Primary))
<1>14. ASSUME taken = {} PROVE Fine
  <2>1. v = told /\ c = 0 /\ s = <<>>
    BY <1>3, <1>4, <1>8, <1>14
  <2>2. base.queue \o s = base.queue
    BY <1>2, <1>6, <2>1
  <2>3. Sorted(v)
    <3>1. base.queue = base.queue \o Notices(base, c)
      BY <2>2 DEF s
    <3> QED BY <1>1, <1>3, <1>10, <2>1, <3>1, NoticesQueued
  <2>a. \A e \in Waits(v) : e.to = Primary \/ (e \in Waits(w) /\ e.to # f)
    BY <1>c, <1>10, <1>14, <2>1 DEF Waits
  <2>b. ~Held /\ ~replaying => v.queue = <<>>
    BY <1>10, <1>13, <2>1
  <2>c. Held => v.landed = w.landed /\ Has(v.kept) \subseteq Has(w.kept)
    BY <1>c, <1>10, <1>14, <2>1
  <2>d. \A e \in Has(v.kept) : (e \in Has(w.kept) /\ e.to # f)
                                \/ (e.to = Primary /\ KeptForRecovery(w, Primary))
    BY <1>c, <1>10, <2>1
  <2> QED BY <2>a, <2>b, <2>c, <2>d, <2>3
<1>15. ASSUME taken # {} /\ (Held \/ replaying) PROVE Fine
  <2>1. v = [told EXCEPT !.queue = @ \o s]
    BY <1>4, <1>7, <1>15
  <2>2. base.queue \o s \in Seq(Write) /\ Has(base.queue \o s) = Has(base.queue) \cup Has(s)
    BY <1>2, <1>6, <1>8, Joined
  <2>3. /\ v \in Writes /\ v.accepted = base.accepted + c /\ v.kept = base.kept
        /\ v.queue = base.queue \o s /\ v.landed = base.landed /\ v.settled = base.settled
    BY <1>10, <2>1, <2>2 DEF Writes
  <2>4. Sorted(v)
    <3>1. v.queue = base.queue \o Notices(base, c)
      BY <2>3 DEF s
    <3> QED BY <1>1, <1>3, <2>3, <3>1, NoticesQueued
  <2>a. \A e \in Waits(v) : e.to = Primary \/ (e \in Waits(w) /\ e.to # f)
    BY <1>c, <1>8, <1>15, <2>2, <2>3 DEF Waits
  <2>b. ~Held /\ ~replaying => v.queue = <<>>
    BY <1>c, <1>8, <1>15, <2>2, <2>3, <1>13
  <2>c. Held => v.landed = w.landed /\ Has(v.kept) \subseteq Has(w.kept)
    BY <1>c, <1>8, <1>15, <2>2, <2>3
  <2>d. \A e \in Has(v.kept) : (e \in Has(w.kept) /\ e.to # f)
                                \/ (e.to = Primary /\ KeptForRecovery(w, Primary))
    BY <1>c, <2>3
  <2> QED BY <2>a, <2>b, <2>c, <2>d, <2>4
<1>16. ASSUME taken # {} /\ ~Held /\ ~replaying /\ KeptForRecovery(u, Primary) PROVE Fine
  <2>1. v = [told EXCEPT !.kept = @ \o s]
    BY <1>4, <1>7, <1>16
  <2>2. base.kept \o s \in Seq(Write) /\ Has(base.kept \o s) = Has(base.kept) \cup Has(s)
    BY <1>2, <1>6, <1>8, Joined
  <2>3. /\ v \in Writes /\ v.accepted = base.accepted + c /\ v.queue = base.queue
        /\ v.kept = base.kept \o s /\ v.landed = base.landed /\ v.settled = base.settled
    BY <1>10, <2>1, <2>2 DEF Writes
  <2>4. base.queue = <<>>
    BY <1>13, <1>16
  <2>5. Sorted(v)
    <3>1. v.kept = base.kept \o Notices(base, c)
      BY <2>3 DEF s
    <3> QED BY <1>1, <1>3, <2>3, <2>4, <3>1, NoticesKept
  <2>a. \A e \in Waits(v) : e.to = Primary \/ (e \in Waits(w) /\ e.to # f)
    BY <1>c, <1>8, <1>16, <2>2, <2>3, <2>4 DEF Waits
  <2>b. ~Held /\ ~replaying => v.queue = <<>>
    BY <1>c, <1>8, <1>16, <2>2, <2>3, <2>4, <1>13
  <2>c. Held => v.landed = w.landed /\ Has(v.kept) \subseteq Has(w.kept)
    BY <1>c, <1>8, <1>16, <2>2, <2>3, <2>4
  <2>d. \A e \in Has(v.kept) : (e \in Has(w.kept) /\ e.to # f)
                                \/ (e.to = Primary /\ KeptForRecovery(w, Primary))
    BY <1>c, <1>8, <1>16, <2>2, <2>3, <2>4, <1>12
  <2> QED BY <2>a, <2>b, <2>c, <2>d, <2>5
<1>17. ASSUME taken # {} /\ ~Held /\ ~replaying /\ ~KeptForRecovery(u, Primary) PROVE Fine
  <2> DEFINE landed == [told.landed EXCEPT ![Primary] = told.accepted]
  <2>1. v = [told EXCEPT !.landed[Primary] = told.accepted, !.settled = @ \cup Numbers(Has(s))]
    BY <1>4, <1>7, <1>8, <1>17 DEF Numbers
  <2>2. Numbers(Has(s)) \subseteq Nat
    BY <1>2, <1>3, <1>6, <1>8 DEF Writes
  <2>3. v = [told EXCEPT !.landed = landed, !.settled = @ \cup Numbers(Has(s))]
    BY <2>1, <1>10 DEF Writes
  <2>4. landed \in [Agent -> Nat]
    BY <1>10 DEF Writes
  <2> HIDE DEF landed
  <2>5. /\ v \in Writes /\ v.accepted = base.accepted + c /\ v.queue = base.queue
        /\ v.kept = base.kept /\ v.landed = landed
        /\ v.settled = base.settled \cup Numbers(Has(s))
    BY <1>10, <2>2, <2>3, <2>4 DEF Writes
  <2>6. base.queue = <<>>
    BY <1>13, <1>17
  <2>7. \A d \in Waits(base) : d.to # Primary
    BY <1>2, <1>6, <1>17, <2>6, KeptMeans, EmptyHas DEF Waits
  <2>8. landed = [base.landed EXCEPT ![Primary] = base.accepted + c]
    BY <1>10 DEF landed
  <2>9. Sorted(v)
    <3>1. v.settled = base.settled \cup Numbers(Has(Notices(base, c)))
      BY <2>5 DEF s
    <3>2. v.landed = [base.landed EXCEPT ![Primary] = base.accepted + c]
      BY <2>5, <2>8
    <3> QED BY <1>1, <1>3, <2>5, <2>7, <3>1, <3>2, NoticesLanded
  <2>a. \A e \in Waits(v) : e.to = Primary \/ (e \in Waits(w) /\ e.to # f)
    BY <1>c, <1>17, <2>5, <2>6 DEF Waits
  <2>b. ~Held /\ ~replaying => v.queue = <<>>
    BY <1>c, <1>17, <2>5, <2>6, <1>13
  <2>c. Held => v.landed = w.landed /\ Has(v.kept) \subseteq Has(w.kept)
    BY <1>c, <1>17, <2>5, <2>6
  <2>d. \A e \in Has(v.kept) : (e \in Has(w.kept) /\ e.to # f)
                                \/ (e.to = Primary /\ KeptForRecovery(w, Primary))
    BY <1>c, <2>5
  <2> QED BY <2>a, <2>b, <2>c, <2>d, <2>9
<1>18. Fine
  BY <1>14, <1>15, <1>16, <1>17
<1> QED BY <1>18 DEF v, u, entries

-----------------------------------------------------------------------------
(* The invariant.                                                           *)

Types ==
    /\ status \in [Agent -> {"absent", "opening", "live", "ended"}]
    /\ turn \in [Agent -> {"idle", "parked", "running"}]
    /\ gate \in {"open", "cooling", "pending"}
    /\ maintenance \in {"none", "tick", "waiting", "woken", "call"}
    /\ surgeryHold \in Hold \cup {NoHold}
    /\ refusing \subseteq Live /\ behind \subseteq Live
    /\ replaying \in BOOLEAN
    /\ status[Primary] = "live"

(* Nothing runs beside a surgery once its maintenance pass is settled.      *)
Alone ==
    Held => /\ \A a \in Agent : turn[a] # "running" /\ status[a] # "opening"
            /\ ~At("settling") => maintenance = "none"

(* A surgery that moves the store for an agent is made by a live one.       *)
Made ==
    /\ Held /\ surgeryHold.verb # "switch" /\ ~At("ending") => surgeryHold.by \in Live
    /\ At("removing") => surgeryHold.verb = "suppress"
    /\ At("restoring") => surgeryHold.verb # "switch"
    /\ Held /\ surgeryHold.verb = "switch" => surgeryHold.by = NoAgent

(* Who is not on the branch refuses, or is still to be asked to follow; and *)
(* a follower that could not refuses.                                       *)
Following ==
    /\ At("following") => /\ surgeryHold.todo \subseteq Live
                          /\ surgeryHold.failed \subseteq refusing \ surgeryHold.todo
                          /\ behind \subseteq refusing \cup surgeryHold.todo
    /\ ~At("following") /\ ~At("restoring") => behind \subseteq refusing

(* What waits is for a live agent: kept for a manager that refuses, but for *)
(* what the move's end takes out; or queued for the release or its replay.  *)
Destined ==
    /\ \A e \in Waits(writes) : e.to \in Live
    /\ ~At("following") => \A e \in Has(writes.kept) : e.to \in refusing
    /\ writes.queue # <<>> => Held \/ replaying
    /\ replaying => writes.queue # <<>> /\ ~Held

HInv == Types /\ Alone /\ Made /\ Following /\ Sorted(writes) /\ Destined

(* What a hold's fields are, and that its stage tells whether there is one. *)
LEMMA HoldFields ==
    ASSUME Types
    PROVE  /\ Held => /\ surgeryHold \in Hold /\ surgeryHold.verb \in Verb
                      /\ surgeryHold.by \in Agent \cup {NoAgent}
                      /\ surgeryHold.todo \subseteq Agent /\ surgeryHold.failed \subseteq Agent
           /\ ~Held => surgeryHold.at = "none"
           /\ Held => surgeryHold.at \in Stage
<1>1. Held => surgeryHold \in Hold
  BY DEF Types, Held
<1>2. NoHold.at = "none"
  BY DEF NoHold
<1> QED BY <1>1, <1>2 DEF Held, Hold

(* A hold's record is not the absence of one.                               *)
LEMMA HoldIsHeld ==
    ASSUME NEW h \in Hold PROVE h # NoHold /\ h.at # "none"
<1>1. h.at \in Stage
  BY DEF Hold
<1>2. NoHold.at = "none" /\ "none" \notin Stage
  BY DEF NoHold, Stage
<1> QED BY <1>1, <1>2

(* Steps of turns, the provider and the maintenance pass.                   *)
LEMMA Beside ==
    ASSUME HInv, UNCHANGED <<status, surgery, writes, replaying>>,
           turn' \in [Agent -> {"idle", "parked", "running"}],
           gate' \in {"open", "cooling", "pending"},
           maintenance' \in {"none", "tick", "waiting", "woken", "call"},
           Alone'
    PROVE  HInv'
<1>1. UNCHANGED <<status, surgeryHold, refusing, behind, writes, replaying>>
  BY DEF surgery
<1>2. Types'
  BY <1>1 DEF HInv, Types, Live
<1>3. Made' /\ Following'
  BY <1>1 DEF HInv, Made, Following, Live, Held, At
<1>4. Sorted(writes)'
  BY <1>1 DEF HInv
<1>5. Destined'
  BY <1>1 DEF HInv, Destined, Live, Held, At
<1> QED BY <1>2, <1>3, <1>4, <1>5 DEF HInv

(* A turn starts, ends or unparks beside no running surgery.                *)
LEMMA TurnSteps ==
    ASSUME HInv, NEW a \in Agent, TurnStarts(a) \/ TurnEnds(a) \/ Unparks \/ CoolEnds
    PROVE  HInv'
<1>0. /\ turn \in [Agent -> {"idle", "parked", "running"}]
      /\ gate \in {"open", "cooling", "pending"}
      /\ maintenance \in {"none", "tick", "waiting", "woken", "call"}
      /\ Primary \in Agent
  BY HoldConstants DEF HInv, Types
<1>1. CASE TurnStarts(a)
  <2>1. /\ ~Held /\ gate' \in {"open", "cooling", "pending"} /\ maintenance' = maintenance
        /\ turn' \in [Agent -> {"idle", "parked", "running"}]
        /\ UNCHANGED <<status, surgery, writes, replaying>> /\ surgeryHold' = surgeryHold
    BY <1>0, <1>1 DEF TurnStarts, MayStart, surgery
  <2>2. Alone'
    BY <2>1 DEF Alone, Held
  <2> QED BY <1>0, <2>1, <2>2, Beside
<1>2. CASE TurnEnds(a)
  <2>1. /\ gate' \in {"open", "cooling", "pending"}
        /\ turn' \in [Agent -> {"idle", "parked", "running"}]
        /\ maintenance' \in {"none", "tick", "waiting", "woken", "call"}
        /\ UNCHANGED <<status, surgery, writes, replaying>> /\ surgeryHold' = surgeryHold
    BY <1>0, <1>2 DEF TurnEnds, Flushes, surgery
  <2>2. ~Held
    BY <1>2 DEF TurnEnds, HInv, Alone
  <2>3. Alone'
    BY <2>1, <2>2 DEF Alone, Held
  <2> QED BY <2>1, <2>3, Beside
<1>3. CASE Unparks
  <2>1. /\ gate' = gate
        /\ turn' = [turn EXCEPT ![Primary] = IF Held \/ gate = "cooling" THEN "idle" ELSE "running"]
        /\ turn' \in [Agent -> {"idle", "parked", "running"}]
        /\ maintenance' \in {"none", "tick", "waiting", "woken", "call"}
        /\ maintenance = "none" => maintenance' = "none"
        /\ UNCHANGED <<status, surgery, writes, replaying>> /\ surgeryHold' = surgeryHold
    BY <1>0, <1>3 DEF Unparks, Flushes, surgery
  <2>2. Alone'
    BY <1>0, <2>1 DEF HInv, Alone, Held, At
  <2> QED BY <1>0, <2>1, <2>2, Beside
<1>4. CASE CoolEnds
  <2>1. /\ gate' \in {"open", "cooling", "pending"} /\ turn' = turn
        /\ maintenance' \in {"none", "tick", "waiting", "woken", "call"}
        /\ maintenance = "none" => maintenance' = "none"
        /\ UNCHANGED <<status, surgery, writes, replaying>> /\ surgeryHold' = surgeryHold
    BY <1>0, <1>4 DEF CoolEnds, Flushes, surgery
  <2>2. Alone'
    BY <2>1 DEF HInv, Alone, Held, At
  <2> QED BY <1>0, <2>1, <2>2, Beside
<1> QED BY <1>1, <1>2, <1>3, <1>4

(* The maintenance pass ticks only before the branch moves.                 *)
LEMMA MaintenanceSteps ==
    ASSUME HInv, MaintenanceStarts \/ Maintaining
    PROVE  HInv'
<1>0. /\ turn \in [Agent -> {"idle", "parked", "running"}]
      /\ gate \in {"open", "cooling", "pending"}
      /\ maintenance \in {"none", "tick", "waiting", "woken", "call"}
  BY DEF HInv, Types
<1>1. /\ UNCHANGED <<status, turn, surgery, writes, replaying>> /\ surgeryHold' = surgeryHold
      /\ gate' \in {"open", "cooling", "pending"}
      /\ maintenance' \in {"none", "tick", "waiting", "woken", "call"}
      /\ ~Held \/ maintenance # "none"
  BY <1>0 DEF MaintenanceStarts, Maintaining, AsksForCall, CallEnds, MaintenanceEnds,
              MaintenanceStep, agents, surgery
<1>2. Alone'
  BY <1>1 DEF HInv, Alone, Held, At
<1> QED BY <1>0, <1>1, <1>2, Beside

(* Agents are created beside no surgery.                                    *)
LEMMA SpawnSteps ==
    ASSUME HInv, NEW f \in Agent, SpawnBegins(f) \/ SpawnEnds(f)
    PROVE  HInv'
<1>1. /\ UNCHANGED <<turn, gate, maintenance, surgeryHold, refusing, behind, writes, replaying>>
      /\ status' \in [Agent -> {"absent", "opening", "live", "ended"}]
      /\ status[f] # "live" /\ \A a \in Agent : a # f => status'[a] = status[a]
      /\ ~Held
  BY DEF SpawnBegins, SpawnEnds, provider, surgery, HInv, Types, Alone
<1>2. Live \subseteq Live' /\ ~Held'
  BY <1>1 DEF Live, Held
<1>3. status'[Primary] = "live"
  BY <1>1, HoldConstants DEF HInv, Types
<1>4. Types'
  BY <1>1, <1>2, <1>3 DEF HInv, Types
<1>5. Alone' /\ Made' /\ Following'
  <2>1. surgeryHold.at = "none" /\ surgeryHold'.at = "none"
    BY <1>1, HoldFields DEF HInv
  <2> QED BY <1>1, <1>2, <2>1 DEF HInv, Alone, Made, Following, At
<1>6. Sorted(writes)'
  BY <1>1 DEF HInv
<1>7. Destined'
  BY <1>1, <1>2 DEF HInv, Destined, Held, At
<1> QED BY <1>4, <1>5, <1>6, <1>7 DEF HInv

(* A surgery begins: nothing runs, and all that is behind refuses already.  *)
LEMMA Begins ==
    ASSUME HInv, NEW verb \in Verb, NEW by \in Agent \cup {NoAgent},
           Reserves(verb, by), WakesWaiters, replaying' \in BOOLEAN
    PROVE  /\ Types' /\ Alone' /\ Made' /\ Following'
           /\ ~Held /\ Held' /\ ~At("following") /\ ~At("following")'
           /\ Live' = Live /\ refusing' = refusing
<1> DEFINE h == [verb |-> verb, by |-> by, at |-> "settling", todo |-> {}, failed |-> {},
                 moved |-> FALSE, back |-> FALSE]
<1>1. h \in Hold /\ h.verb = verb /\ h.by = by /\ h.at = "settling"
  BY DEF Hold, Stage
<1>2. /\ surgeryHold' = h /\ ~Held
      /\ by \in IF verb = "switch" THEN {NoAgent} ELSE Live
      /\ \A a \in Agent : turn[a] # "running" /\ status[a] # "opening"
      /\ UNCHANGED <<status, turn, refusing, behind, gate>>
  BY DEF Reserves, agents
<1> HIDE DEF h
<1>3. Held' /\ Live' = Live
  BY <1>1, <1>2, HoldIsHeld DEF Held, Live
<1>4. surgeryHold.at = "none"
  BY <1>2, HoldFields DEF HInv
<1>5. Types'
  BY <1>1, <1>2, <1>3 DEF HInv, Types, WakesWaiters
<1>6. Alone'
  BY <1>1, <1>2 DEF Alone, At
<1>7. Made'
  BY <1>1, <1>2, <1>3 DEF Made, At
<1>8. Following'
  BY <1>1, <1>2, <1>4 DEF HInv, Following, At
<1> QED BY <1>1, <1>2, <1>3, <1>4, <1>5, <1>6, <1>7, <1>8 DEF At

(* An operator begins a surgery.                                            *)
LEMMA ReserveStep ==
    ASSUME HInv, NEW verb \in Verb, NEW by \in Agent \cup {NoAgent}, Reserve(verb, by)
    PROVE  HInv'
<1>1. Reserves(verb, by) /\ WakesWaiters /\ replaying' = FALSE /\ writes' = writes
  BY DEF Reserve
<1>2. /\ Types' /\ Alone' /\ Made' /\ Following'
      /\ ~Held /\ Held' /\ ~At("following") /\ Live' = Live /\ refusing' = refusing
  BY <1>1, Begins
<1>3. Sorted(writes)'
  BY <1>1 DEF HInv
<1>4. Destined'
  BY <1>1, <1>2 DEF HInv, Destined
<1> QED BY <1>2, <1>3, <1>4 DEF HInv

(* A write is accepted.                                                     *)
LEMMA AddMessageStep ==
    ASSUME HInv, NEW to \in Agent, AddMessage(to)
    PROVE  HInv'
<1>0. to \in Live /\ Sorted(writes) /\ writes.kept \in Seq(Write)
  BY WriteTypes DEF AddMessage, HInv, Sorted, Placed
<1>1. CASE /\ writes' = Accept(writes, to, Held \/ replaying)
           /\ UNCHANGED <<agents, provider, surgery, replaying>>
  <2>1. /\ UNCHANGED <<status, turn, gate, maintenance, surgeryHold, refusing, behind, replaying>>
        /\ Live' = Live
    BY <1>1 DEF agents, provider, surgery, Live
  <2>2. /\ Sorted(writes')
        /\ \A d \in Waits(writes') : d \in Waits(writes) \/ d.to = to
        /\ (Held \/ replaying) => writes'.kept = writes.kept /\ writes'.queue # <<>>
        /\ ~(Held \/ replaying) => writes'.queue = <<>>
        /\ \A d \in Has(writes'.kept) : d \in Has(writes.kept) \/ (d.to = to /\ KeptForRecovery(writes, to))
    <3>1. (Held \/ replaying) \in BOOLEAN /\ ((Held \/ replaying) \/ writes.queue = <<>>)
      BY DEF HInv, Types, Held, Destined
    <3> QED BY <1>0, <1>1, <3>1, AcceptSorted
  <2>3. ASSUME ~At("following"), NEW d \in Has(writes'.kept) PROVE d.to \in refusing
    <3>1. CASE Held \/ replaying
      BY <2>2, <2>3, <3>1 DEF HInv, Destined
    <3>2. CASE ~(Held \/ replaying)
      BY <1>0, <2>2, <2>3, KeptMeans DEF HInv, Destined
    <3> QED BY <3>1, <3>2
  <2>4. Destined'
    BY <1>0, <2>1, <2>2, <2>3 DEF HInv, Destined, Held, At
  <2>5. Types' /\ Alone' /\ Made' /\ Following'
    BY <2>1 DEF HInv, Types, Alone, Made, Following, Held, At
  <2> QED BY <2>2, <2>4, <2>5 DEF HInv
<1>2. CASE /\ Quiet
           /\ \E verb \in Verb, by \in Agent \cup {NoAgent} : Reserves(verb, by) /\ WakesWaiters
           /\ AcceptAfterClock(to)
           /\ UNCHANGED replaying
  <2>1. PICK verb \in Verb, by \in Agent \cup {NoAgent} : Reserves(verb, by) /\ WakesWaiters
    BY <1>2
  <2>2. /\ Types' /\ Alone' /\ Made' /\ Following'
        /\ ~Held /\ Held' /\ ~At("following") /\ Live' = Live /\ refusing' = refusing
        /\ replaying' = FALSE
    BY <1>2, <2>1, Begins DEF Quiet, HInv, Types
  <2>3. /\ Sorted(writes')
        /\ \A d \in Waits(writes') : d \in Waits(writes) \/ d.to = to
        /\ writes'.kept = writes.kept
    BY <1>0, <1>2, AcceptSorted DEF AcceptAfterClock
  <2>4. Destined'
    BY <1>0, <2>2, <2>3 DEF HInv, Destined
  <2> QED BY <2>2, <2>3, <2>4 DEF HInv
<1> QED BY <1>1, <1>2 DEF AddMessage

(* The surgery's steps that leave the writes alone.                         *)
LEMMA Moved ==
    ASSUME HInv, UNCHANGED <<agents, provider, writes, replaying>>, Held,
           surgeryHold' \in Hold, surgeryHold'.by = surgeryHold.by,
           surgeryHold'.verb = surgeryHold.verb,
           ~At("settling")' => maintenance = "none",
           At("ending") => At("ending")',
           At("removing")' => surgeryHold.verb = "suppress",
           At("restoring")' => surgeryHold.verb # "switch",
           refusing' \subseteq Live, behind' \subseteq Live,
           Following',
           ~At("following")' => \A e \in Has(writes.kept) : e.to \in refusing'
    PROVE  HInv'
<1>1. /\ UNCHANGED <<status, turn, gate, maintenance, writes, replaying>> /\ Live' = Live
  BY DEF agents, provider, Live
<1>2. Held' 
  BY HoldIsHeld DEF Held
<1>3. Types'
  BY <1>1 DEF HInv, Types
<1>4. Alone'
  BY <1>1 DEF HInv, Alone
<1>5. Made'
  BY <1>1, <1>2 DEF HInv, Made
<1>6. Destined'
  BY <1>1, <1>2 DEF HInv, Destined
<1>7. Sorted(writes)'
  BY <1>1 DEF HInv
<1> QED BY <1>3, <1>4, <1>5, <1>6, <1>7 DEF HInv

(* What a step of the hold makes of its record.                             *)
LEMMA Advanced ==
    ASSUME NEW h \in Hold, NEW at \in Stage
    PROVE  /\ [h EXCEPT !.at = at] \in Hold
           /\ [h EXCEPT !.at = at].at = at
           /\ [h EXCEPT !.at = at].by = h.by /\ [h EXCEPT !.at = at].verb = h.verb
           /\ [h EXCEPT !.moved = TRUE] \in Hold
           /\ [h EXCEPT !.moved = TRUE].by = h.by /\ [h EXCEPT !.moved = TRUE].verb = h.verb
           /\ [h EXCEPT !.back = TRUE] \in Hold
           /\ [h EXCEPT !.back = TRUE].by = h.by /\ [h EXCEPT !.back = TRUE].verb = h.verb
  BY DEF Hold

(* Every live manager but the mover's is to follow.                         *)
LEMMA FollowFields ==
    ASSUME NEW h \in Hold
    PROVE  /\ Follow(h) \in Hold /\ Follow(h).at = "following"
           /\ Follow(h).by = h.by /\ Follow(h).verb = h.verb
           /\ Follow(h).todo = Live \ {h.by} /\ Follow(h).failed = {}
  BY DEF Follow, Hold, Live, Stage

(* The maintenance pass is settled.                                         *)
LEMMA SettlesStep == ASSUME HInv, Settles PROVE HInv'
<1> DEFINE h == [surgeryHold EXCEPT !.at = "moving"]
<1>1. /\ At("settling") /\ maintenance = "none" /\ surgeryHold' = h
      /\ UNCHANGED <<agents, provider, writes, replaying, refusing, behind>>
  BY DEF Settles, Goes
<1>2. Held /\ surgeryHold \in Hold
  BY <1>1, HoldFields DEF HInv, At
<1>3. h \in Hold /\ h.at = "moving" /\ h.by = surgeryHold.by /\ h.verb = surgeryHold.verb
  BY <1>2, Advanced DEF Stage
<1> HIDE DEF h
<1>4. Following'
  BY <1>1, <1>3 DEF HInv, Following, At
<1>5. /\ refusing' \subseteq Live /\ behind' \subseteq Live
      /\ \A e \in Has(writes.kept) : e.to \in refusing'
  BY <1>1 DEF HInv, Types, Destined, At
<1> QED BY <1>1, <1>2, <1>3, <1>4, <1>5, Moved DEF At

(* The branch moves, or the step throws.                                    *)
LEMMA MovesStep == ASSUME HInv, Moves PROVE HInv'
<1> DEFINE hold == [surgeryHold EXCEPT !.moved = TRUE]
           by == surgeryHold.by
<1>1. /\ At("moving") /\ UNCHANGED <<agents, provider, writes, replaying>>
      /\ \/ /\ surgeryHold' = Follow(hold)
            /\ behind' = Live \ {by} /\ refusing' = refusing \ {by}
         \/ /\ surgeryHold' = [surgeryHold EXCEPT !.at = "ending"]
            /\ behind' = behind /\ refusing' = refusing
         \/ /\ by # NoAgent /\ surgeryHold' = [hold EXCEPT !.at = "restoring"]
            /\ behind' = Live /\ refusing' = refusing \cup {by}
  BY DEF Moves, Goes
<1>2. Held /\ surgeryHold \in Hold /\ hold \in Hold /\ hold.by = by /\ hold.verb = surgeryHold.verb
  BY <1>1, HoldFields, Advanced DEF HInv, At
<1> HIDE DEF hold, by
<1>3. /\ maintenance = "none" /\ refusing \subseteq Live /\ behind \subseteq Live
      /\ \A e \in Has(writes.kept) : e.to \in refusing
      /\ behind \subseteq refusing
      /\ surgeryHold.verb # "switch" => by \in Live
      /\ surgeryHold.verb = "switch" => by = NoAgent
  BY <1>1, <1>2 DEF HInv, Types, Alone, Destined, Following, Made, At, by
<1>4. CASE /\ surgeryHold' = Follow(hold)
           /\ behind' = Live \ {by} /\ refusing' = refusing \ {by}
  <2>1. /\ surgeryHold' \in Hold /\ surgeryHold'.at = "following"
        /\ surgeryHold'.by = by /\ surgeryHold'.verb = surgeryHold.verb
        /\ surgeryHold'.todo = Live \ {by} /\ surgeryHold'.failed = {}
    BY <1>2, <1>4, FollowFields
  <2>2. Live' = Live
    BY <1>1 DEF Live, agents
  <2>3. Following'
    BY <1>4, <2>1, <2>2 DEF Following, At
  <2>4. refusing' \subseteq Live /\ behind' \subseteq Live
    BY <1>3, <1>4
  <2> QED BY <1>1, <1>2, <1>3, <2>1, <2>3, <2>4, Moved DEF At, by
<1>5. CASE /\ surgeryHold' = [surgeryHold EXCEPT !.at = "ending"]
           /\ behind' = behind /\ refusing' = refusing
  <2>1. /\ surgeryHold' \in Hold /\ surgeryHold'.at = "ending"
        /\ surgeryHold'.by = by /\ surgeryHold'.verb = surgeryHold.verb
    BY <1>2, <1>5, Advanced DEF Stage, by
  <2>2. Following'
    BY <1>3, <1>5, <2>1 DEF Following, At
  <2> QED BY <1>1, <1>2, <1>3, <1>5, <2>1, <2>2, Moved DEF At, by
<1>6. CASE /\ by # NoAgent /\ surgeryHold' = [hold EXCEPT !.at = "restoring"]
           /\ behind' = Live /\ refusing' = refusing \cup {by}
  <2>1. /\ surgeryHold' \in Hold /\ surgeryHold'.at = "restoring"
        /\ surgeryHold'.by = by /\ surgeryHold'.verb = surgeryHold.verb
    BY <1>2, <1>6, Advanced DEF Stage
  <2>2. Following'
    BY <2>1 DEF Following, At
  <2>3. /\ refusing' \subseteq Live /\ surgeryHold.verb # "switch"
        /\ \A e \in Has(writes.kept) : e.to \in refusing'
    BY <1>3, <1>6
  <2> QED BY <1>1, <1>2, <1>3, <1>6, <2>1, <2>2, <2>3, Moved DEF At, by
<1> QED BY <1>1, <1>4, <1>5, <1>6

(* One manager follows, or cannot.                                          *)
LEMMA ReinitializesStep == ASSUME HInv, NEW a \in Agent, Reinitializes(a) PROVE HInv'
<1> DEFINE hold == [surgeryHold EXCEPT !.todo = @ \ {a}]
           lame == [hold EXCEPT !.failed = @ \cup {a}]
<1>1. /\ At("following") /\ a \in surgeryHold.todo
      /\ UNCHANGED <<agents, provider, writes, replaying>>
      /\ \/ /\ surgeryHold' = hold
            /\ refusing' = refusing \ {a} /\ behind' = behind \ {a}
         \/ /\ surgeryHold' = lame
            /\ refusing' = refusing \cup {a} /\ behind' = behind
  BY DEF Reinitializes, Goes
<1>2. Held /\ surgeryHold \in Hold
  BY <1>1, HoldFields DEF HInv, At
<1>3. /\ hold \in Hold /\ hold.at = surgeryHold.at /\ hold.by = surgeryHold.by
      /\ hold.verb = surgeryHold.verb /\ hold.todo = surgeryHold.todo \ {a}
      /\ hold.failed = surgeryHold.failed
  BY <1>2 DEF Hold
<1> HIDE DEF hold
<1>4. /\ lame \in Hold /\ lame.at = surgeryHold.at /\ lame.by = surgeryHold.by
      /\ lame.verb = surgeryHold.verb /\ lame.todo = hold.todo
      /\ lame.failed = surgeryHold.failed \cup {a}
  BY <1>3 DEF Hold
<1> HIDE DEF lame
<1>5. /\ surgeryHold' \in Hold /\ surgeryHold'.at = "following"
      /\ surgeryHold'.by = surgeryHold.by /\ surgeryHold'.verb = surgeryHold.verb
      /\ surgeryHold'.todo = surgeryHold.todo \ {a}
  BY <1>1, <1>3, <1>4 DEF At
<1>6. /\ maintenance = "none" /\ refusing \subseteq Live /\ behind \subseteq Live
      /\ surgeryHold.todo \subseteq Live /\ surgeryHold.failed \subseteq refusing \ surgeryHold.todo
      /\ behind \subseteq refusing \cup surgeryHold.todo
  BY <1>1, <1>2 DEF HInv, Types, Alone, Following, At
<1>7. Live' = Live
  BY <1>1 DEF Live, agents
<1>8. refusing' \subseteq Live /\ behind' \subseteq Live
  BY <1>1, <1>6
<1>9. Following'
  BY <1>1, <1>3, <1>4, <1>5, <1>6, <1>7 DEF Following, At
<1> QED BY <1>1, <1>2, <1>5, <1>6, <1>8, <1>9, Moved DEF At

(* What was kept for the managers that followed is taken out.               *)
LEMMA FollowedStep == ASSUME HInv, Followed PROVE HInv'
<1> DEFINE unrecovered == surgeryHold.failed \cup (refusing \cap {surgeryHold.by})
           at == IF surgeryHold.verb = "suppress" /\ ~surgeryHold.back THEN "removing" ELSE "ending"
           h == [surgeryHold EXCEPT !.at = at]
<1>1. /\ At("following") /\ surgeryHold.todo = {}
      /\ writes' = Recovers(writes, unrecovered) /\ surgeryHold' = h
      /\ UNCHANGED <<status, turn, gate, maintenance, refusing, behind, replaying>>
  BY DEF Followed, Goes, agents, provider
<1>2. Held /\ surgeryHold \in Hold
  BY <1>1, HoldFields DEF HInv, At
<1>3. at \in {"removing", "ending"} /\ (at = "removing" => surgeryHold.verb = "suppress")
  OBVIOUS
<1> HIDE DEF at
<1>4. h \in Hold /\ h.at = at /\ h.by = surgeryHold.by /\ h.verb = surgeryHold.verb
  <2>1. at \in Stage
    BY <1>3 DEF Stage
  <2> QED BY <1>2, <2>1, Advanced
<1> HIDE DEF h
<1>5. Held' /\ Live' = Live
  BY <1>1, <1>4, HoldIsHeld DEF Held, Live
<1>6. /\ maintenance = "none" /\ refusing \subseteq Live /\ behind \subseteq Live
      /\ behind \subseteq refusing /\ unrecovered \subseteq refusing
      /\ surgeryHold.verb # "switch" => surgeryHold.by \in Live
      /\ surgeryHold.verb = "switch" => surgeryHold.by = NoAgent
  BY <1>1, <1>2 DEF HInv, Types, Alone, Following, Made, At
<1>7. /\ Sorted(writes') /\ Waits(writes') = Waits(writes)
      /\ Has(writes'.kept) = {e \in Has(writes.kept) : e.to \in unrecovered}
  <2> HIDE DEF unrecovered
  <2> QED BY <1>1, RecoversSorted DEF HInv
<1> HIDE DEF unrecovered
<1>8. Types'
  BY <1>1, <1>4, <1>5 DEF HInv, Types
<1>9. Alone'
  BY <1>1, <1>2, <1>6 DEF HInv, Alone
<1>10. Made'
  BY <1>1, <1>3, <1>4, <1>5, <1>6 DEF Made, At
<1>11. Following'
  BY <1>1, <1>3, <1>4, <1>6 DEF Following, At
<1>12. Destined'
  BY <1>1, <1>2, <1>5, <1>6, <1>7 DEF HInv, Destined
<1> QED BY <1>7, <1>8, <1>9, <1>10, <1>11, <1>12 DEF HInv

(* A suppression removes the rows, or is to be undone.                      *)
LEMMA RemovesStep == ASSUME HInv, Removes PROVE HInv'
<1>1. /\ At("removing") /\ UNCHANGED <<agents, provider, writes, replaying, refusing, behind>>
      /\ \E at \in {"ending", "restoring"} : surgeryHold' = [surgeryHold EXCEPT !.at = at]
  BY DEF Removes, Goes
<1>2. PICK at \in {"ending", "restoring"} : surgeryHold' = [surgeryHold EXCEPT !.at = at]
  BY <1>1
<1>3. Held /\ surgeryHold \in Hold
  BY <1>1, HoldFields DEF HInv, At
<1>4. /\ surgeryHold' \in Hold /\ surgeryHold'.at = at /\ surgeryHold'.by = surgeryHold.by
      /\ surgeryHold'.verb = surgeryHold.verb
  <2>1. at \in Stage
    BY DEF Stage
  <2> QED BY <1>2, <1>3, <2>1, Advanced
<1>5. /\ maintenance = "none" /\ refusing \subseteq Live /\ behind \subseteq Live
      /\ behind \subseteq refusing /\ surgeryHold.verb = "suppress"
      /\ \A e \in Has(writes.kept) : e.to \in refusing
  BY <1>1, <1>3 DEF HInv, Types, Alone, Following, Made, Destined, At
<1>6. Following'
  BY <1>1, <1>4, <1>5 DEF Following, At
<1> QED BY <1>1, <1>3, <1>4, <1>5, <1>6, Moved DEF At

(* The store is moved back, and the managers are to follow again.           *)
LEMMA RestoresStep == ASSUME HInv, Restores PROVE HInv'
<1> DEFINE hold == [surgeryHold EXCEPT !.back = TRUE]
           by == surgeryHold.by
<1>1. /\ At("restoring") /\ UNCHANGED <<agents, provider, writes, replaying>>
      /\ surgeryHold' = Follow(hold)
      /\ \/ behind' = Live \ {by} /\ refusing' = refusing \ {by}
         \/ behind' = Live /\ refusing' = refusing \cup {by}
         \/ behind' = behind /\ refusing' = refusing \cup ({by} \cap behind)
  BY DEF Restores, Goes, FollowsBack
<1>2. Held /\ surgeryHold \in Hold /\ hold \in Hold /\ hold.by = by /\ hold.verb = surgeryHold.verb
  BY <1>1, HoldFields, Advanced DEF HInv, At
<1> HIDE DEF hold, by
<1>3. /\ surgeryHold' \in Hold /\ surgeryHold'.at = "following"
      /\ surgeryHold'.by = by /\ surgeryHold'.verb = surgeryHold.verb
      /\ surgeryHold'.todo = Live \ {by} /\ surgeryHold'.failed = {}
  BY <1>1, <1>2, FollowFields
<1>4. /\ maintenance = "none" /\ refusing \subseteq Live /\ behind \subseteq Live
      /\ by \in Live
  BY <1>1, <1>2 DEF HInv, Types, Alone, Made, At, by
<1>5. Live' = Live
  BY <1>1 DEF Live, agents
<1>6. refusing' \subseteq Live /\ behind' \subseteq Live
  BY <1>1, <1>4
<1>7. behind' \subseteq refusing' \cup (Live \ {by})
  BY <1>1, <1>4
<1>8. Following'
  BY <1>3, <1>5, <1>7 DEF Following, At
<1> QED BY <1>1, <1>2, <1>3, <1>4, <1>6, <1>8, Moved DEF At, by

(* The hold is over.                                                        *)
LEMMA ReleaseStep == ASSUME HInv, Release PROVE HInv'
<1>1. /\ At("ending") /\ surgeryHold' = NoHold /\ replaying' = (writes.queue # <<>>)
      /\ UNCHANGED <<status, turn, gate, maintenance, refusing, behind, writes>>
      /\ Live' = Live
  BY DEF Release, agents, provider, Live
<1>2. ~Held' /\ surgeryHold'.at = "none"
  BY <1>1 DEF Held, NoHold
<1>3. Types'
  BY <1>1 DEF HInv, Types
<1>4. Alone' /\ Made'
  BY <1>2 DEF Alone, Made, At
<1>5. Following'
  BY <1>1, <1>2 DEF HInv, Following, At
<1>6. Destined'
  BY <1>1, <1>2 DEF HInv, Destined, At
<1>7. Sorted(writes)'
  BY <1>1 DEF HInv
<1> QED BY <1>3, <1>4, <1>5, <1>6, <1>7 DEF HInv

(* A write the hold kept is replayed.                                       *)
LEMMA ReplayNextStep == ASSUME HInv, ReplayNext PROVE HInv'
<1> DEFINE rest == [writes EXCEPT !.queue = Tail(@)]
<1>1. /\ replaying /\ writes' \in {Put(rest, Head(writes.queue), FALSE), Settle(rest, Head(writes.queue))}
      /\ replaying' = (rest.queue # <<>>)
      /\ UNCHANGED <<status, turn, gate, maintenance, surgeryHold, refusing, behind>>
      /\ Live' = Live
  BY DEF ReplayNext, agents, provider, surgery, Live
<1>2. writes.queue # <<>> /\ ~Held /\ Sorted(writes) /\ writes.kept \in Seq(Write)
  BY <1>1, WriteTypes DEF HInv, Destined, Sorted, Placed
<1>3. /\ Sorted(writes') /\ Waits(writes') \subseteq Waits(writes)
      /\ writes'.queue = rest.queue
      /\ \A d \in Has(writes'.kept) : d \in Has(writes.kept) \/ KeptForRecovery(writes, d.to)
  BY <1>1, <1>2, ReplaySorted
<1> HIDE DEF rest
<1>4. surgeryHold.at = "none" /\ ~Held' /\ surgeryHold'.at = "none"
  BY <1>1, <1>2, HoldFields DEF HInv, Held
<1>5. Types'
  BY <1>1 DEF HInv, Types
<1>6. Alone' /\ Made' /\ Following'
  BY <1>1, <1>4 DEF HInv, Alone, Made, Following, At
<1>7. \A d \in Has(writes'.kept) : d.to \in refusing
  BY <1>2, <1>3, <1>4, KeptMeans DEF HInv, Destined, At
<1>8. Destined'
  BY <1>1, <1>3, <1>4, <1>7 DEF HInv, Destined
<1> QED BY <1>3, <1>5, <1>6, <1>8 DEF HInv

(* An agent ends, while nothing replays.                                    *)
LEMMA EndsStep ==
    ASSUME HInv, NEW f \in Live \ {Primary}, Ends(f), ~replaying,
           ~Held \/ At("ending")
    PROVE  HInv' /\ (Held => writes'.landed = writes.landed)
<1>1. PICK taken \in SUBSET {e.n : e \in ToSet(Taken(writes, f))} :
        writes' = PassOn(Without(writes, f), Taken(writes, f), taken)
  BY DEF Ends, Taken, Without
<1>2. /\ status' = [status EXCEPT ![f] = "ended"]
      /\ refusing' = refusing \ {f} /\ behind' = behind \ {f}
      /\ UNCHANGED <<turn, gate, maintenance, surgeryHold, replaying>>
  BY DEF Ends, provider
<1>3. /\ Sorted(writes')
      /\ \A e \in Waits(writes') : e.to = Primary \/ (e \in Waits(writes) /\ e.to # f)
      /\ ~Held /\ ~replaying => writes'.queue = <<>>
      /\ Held => writes'.landed = writes.landed /\ Has(writes'.kept) \subseteq Has(writes.kept)
      /\ \A e \in Has(writes'.kept) : (e \in Has(writes.kept) /\ e.to # f)
                                      \/ (e.to = Primary /\ KeptForRecovery(writes, Primary))
  <2>1. taken \subseteq Numbers(ToSet(Taken(writes, f)))
    BY <1>1 DEF Numbers
  <2>2. ~Held /\ ~replaying => writes.queue = <<>>
    BY DEF HInv, Destined
  <2>3. Sorted(writes) /\ f # Primary
    BY DEF HInv
  <2> QED BY <1>1, <2>1, <2>2, <2>3, PassOnSorted
<1>4. /\ Live' = Live \ {f} /\ f \in Agent /\ Primary \in Live
  BY <1>2, HoldConstants DEF HInv, Types, Live
<1>5. ~At("following") /\ (Held <=> Held') /\ surgeryHold.at \in {"none", "ending"}
  BY <1>2, HoldFields DEF HInv, At, Held
<1>6. Types'
  <2>1. status' \in [Agent -> {"absent", "opening", "live", "ended"}] /\ status'[Primary] = "live"
    BY <1>2, <1>4, HoldConstants DEF HInv, Types
  <2> QED BY <2>1, <1>2, <1>4 DEF HInv, Types
<1>7. Alone'
  BY <1>2, <1>4, <1>5 DEF HInv, Types, Alone, Held, At
<1>8. Made'
  BY <1>2, <1>5 DEF HInv, Made, Held, At
<1>9. Following'
  BY <1>2, <1>5 DEF HInv, Following, At
<1>10. \A e \in Has(writes'.kept) : e.to \in refusing'
  <2>1. writes.kept \in Seq(Write)
    BY WriteTypes DEF HInv, Sorted, Placed
  <2> QED BY <2>1, <1>2, <1>3, <1>5, KeptMeans DEF HInv, Destined
<1>11. \A e \in Waits(writes') : e.to \in Live'
  BY <1>3, <1>4 DEF HInv, Destined
<1>12. Destined'
  BY <1>2, <1>3, <1>5, <1>10, <1>11 DEF HInv, Destined
<1> QED BY <1>3, <1>6, <1>7, <1>8, <1>9, <1>12 DEF HInv

-----------------------------------------------------------------------------
(* It holds at the start.                                                   *)
LEMMA HInvInit == Init => HInv
<1> SUFFICES ASSUME Init PROVE HInv
  OBVIOUS
<1>1. /\ surgeryHold = NoHold /\ refusing = {} /\ behind = {} /\ replaying = FALSE
      /\ writes = NoWrites /\ ~Held /\ surgeryHold.at = "none"
  BY DEF Init, Held, NoHold
<1>2. Types
  BY <1>1, HoldConstants DEF Init, Types
<1>3. Alone /\ Made /\ Following
  BY <1>1 DEF Alone, Made, Following, At
<1>4. /\ writes \in Writes /\ writes.accepted = 0 /\ writes.queue = <<>> /\ writes.kept = <<>>
      /\ writes.settled = {} /\ writes.landed = [a \in Agent |-> 0]
  BY <1>1, EmptyHas DEF NoWrites, Writes
<1>5. Waits(writes) = {}
  BY <1>4, EmptyHas DEF Waits
<1>6. Placed(writes)
  BY <1>4, <1>5, EmptyHas DEF Placed, Ahead
<1>7. Accounted(writes)
  BY <1>4, <1>5 DEF Accounted, Numbers
<1>8. Destined
  BY <1>1, <1>4, <1>5, EmptyHas DEF Destined
<1> QED BY <1>2, <1>3, <1>6, <1>7, <1>8 DEF HInv, Sorted

(* Every step keeps it.                                                     *)
LEMMA HInvStep == HInv /\ [Next]_vars => HInv'
<1> SUFFICES ASSUME HInv, [Next]_vars PROVE HInv'
  OBVIOUS
<1>1. CASE Moving
  BY <1>1, SettlesStep, MovesStep, FollowedStep, RemovesStep, RestoresStep, ReleaseStep,
     ReinitializesStep DEF Moving
<1>2. CASE ReplayNext
  BY <1>2, ReplayNextStep
<1>3. ASSUME NEW verb \in Verb, NEW by \in Agent \cup {NoAgent}, Reserve(verb, by) PROVE HInv'
  BY <1>3, ReserveStep
<1>4. ASSUME NEW a \in Agent, AddMessage(a) \/ TurnStarts(a) \/ TurnEnds(a) PROVE HInv'
  BY <1>4, AddMessageStep, TurnSteps
<1>5. ASSUME NEW f \in Agent, SpawnBegins(f) \/ SpawnEnds(f) PROVE HInv'
  BY <1>5, SpawnSteps
<1>6. ASSUME NEW f \in Agent, AgentEnds(f) PROVE HInv'
  BY <1>6, EndsStep DEF AgentEnds, Quiet
<1>7. ASSUME NEW f \in Agent, DisposesEmptied(f) PROVE HInv'
  BY <1>7, EndsStep DEF DisposesEmptied, Quiet
<1>8. CASE Unparks \/ CoolEnds
  BY <1>8, TurnSteps, HoldConstants
<1>9. CASE MaintenanceStarts \/ Maintaining
  BY <1>9, MaintenanceSteps
<1>10. CASE UNCHANGED vars
  <2>1. UNCHANGED <<status, turn, gate, maintenance, surgeryHold, refusing, behind, writes, replaying>>
    BY <1>10 DEF vars, agents, provider, surgery
  <2>2. Types'
    BY <2>1 DEF HInv, Types, Live
  <2>3. Alone' /\ Made' /\ Following'
    BY <2>1 DEF HInv, Alone, Made, Following, Live, Held, At
  <2>4. Sorted(writes)' /\ Destined'
    BY <2>1 DEF HInv, Destined, Live, Held, At
  <2> QED BY <2>2, <2>3, <2>4 DEF HInv
<1> QED BY <1>1, <1>2, <1>3, <1>4, <1>5, <1>6, <1>7, <1>8, <1>9, <1>10 DEF Next

(* The invariant holds of the specification.                                *)
THEOREM HoldInvariant == Spec => []HInv
<1>1. Init => HInv
  BY HInvInit
<1>2. HInv /\ [Next]_vars => HInv'
  BY HInvStep
<1> QED BY <1>1, <1>2, PTL DEF Spec

(* Once a surgery is over, every manager is on the store's branch or        *)
(* refuses its work, whatever threw and whether the store moved back        *)
(* (followBranchMove, restoreSourceBranch).                                 *)
THEOREM BranchFollowed == Spec => []FollowsOrRefuses
<1>1. HInv => FollowsOrRefuses
  <2> SUFFICES ASSUME HInv, ~Held PROVE behind \subseteq refusing
    BY DEF FollowsOrRefuses
  <2>1. surgeryHold.at = "none"
    BY HoldFields DEF HInv
  <2> QED BY <2>1 DEF HInv, Following, At
<1> QED BY <1>1, HoldInvariant, PTL

(* Every write accepted is stored, told of or waits, once, in order and for *)
(* a live agent; and what waits has a release or a refusing manager to wait *)
(* for (addMessage, recoverHeldWrites, replayHeldWrite, passHeldWritesOn).  *)
THEOREM WritesHeldInOrder == Spec => []HeldInOrder
<1>1. HInv => HeldInOrder
  <2> SUFFICES ASSUME HInv PROVE HeldInOrder
    OBVIOUS
  <2>1. /\ Sorted(writes) /\ writes.accepted \in Nat /\ writes.landed \in [Agent -> Nat]
        /\ writes.kept \in Seq(Write) /\ writes.queue \in Seq(Write)
    BY WriteTypes DEF HInv, Sorted, Placed
  <2>2. /\ Waiting \in Seq(Write) /\ Has(Waiting) = Waits(writes) /\ InOrder(Waiting)
        /\ ToSet(Waiting) = Waits(writes)
    BY <2>1, Joined, HasIsToSet DEF Waiting, Waits, Sorted, Placed
  <2>3. TypeOK
    <3>1. writes.landed \in [Agent -> 0..writes.accepted]
      BY <2>1 DEF Sorted, Placed
    <3> QED BY <2>1, <3>1 DEF TypeOK, HInv, Types
  <2>4. writes.settled \cup {e.n : e \in ToSet(Waiting)} = 1..writes.accepted
    BY <2>1, <2>2 DEF Sorted, Accounted, Numbers
  <2>5. \A e \in ToSet(Waiting) :
          e.n \notin writes.settled /\ e.to \in Live /\ e.n > writes.landed[e.to]
    BY <2>1, <2>2 DEF HInv, Destined, Sorted, Placed
  <2>6. \A i, j \in 1..Len(Waiting) :
          i < j /\ Waiting[i].to = Waiting[j].to => Waiting[i].n < Waiting[j].n
    BY <2>2 DEF InOrder
  <2>7. ~Held => ~At("following")
    BY HoldFields DEF HInv, At
  <2>8. ~Held /\ ~replaying => \A e \in ToSet(writes.kept) : e.to \in refusing
    BY <2>1, <2>7, HasIsToSet DEF HInv, Destined
  <2>9. writes.queue # <<>> => Held \/ replaying
    BY DEF HInv, Destined
  <2> QED BY <2>3, <2>4, <2>5, <2>6, <2>8, <2>9 DEF HeldInOrder
<1> QED BY <1>1, HoldInvariant, PTL

(* No step stores a row under a hold.                                       *)
LEMMA LandsFree ==
    ASSUME HInv, [Next]_vars, writes'.landed # writes.landed
    PROVE  ~Held /\ ~Held'
<1> USE DEF agents, provider, surgery
<1>0. Sorted(writes) /\ writes.kept \in Seq(Write)
  BY WriteTypes DEF HInv, Sorted, Placed
<1>1. CASE Moving
  <2>1. writes' = writes \/ \E u : writes' = Recovers(writes, u)
    BY <1>1 DEF Moving, Settles, Moves, Reinitializes, Followed, Removes, Restores, Release
  <2> QED BY <1>0, <2>1, RecoversSorted
<1>2. CASE ReplayNext
  <2>1. ~Held /\ surgeryHold' = surgeryHold
    BY <1>2 DEF ReplayNext, HInv, Destined
  <2> QED BY <2>1 DEF Held
<1>3. ASSUME NEW verb \in Verb, NEW by \in Agent \cup {NoAgent}, Reserve(verb, by) PROVE FALSE
  BY <1>3 DEF Reserve
<1>4. ASSUME NEW a \in Agent, AddMessage(a) PROVE ~Held /\ ~Held'
  <2>1. CASE writes' = Accept(writes, a, Held \/ replaying) /\ surgeryHold' = surgeryHold
    <3>1. (Held \/ replaying) \in BOOLEAN /\ ((Held \/ replaying) \/ writes.queue = <<>>)
      BY DEF HInv, Types, Held, Destined
    <3>2. ~(Held \/ replaying)
      BY <1>0, <2>1, <3>1, AcceptSorted
    <3> QED BY <2>1, <3>2 DEF Held
  <2>2. CASE AcceptAfterClock(a)
    <3>1. writes'.landed = writes.landed
      BY <1>0, <2>2, AcceptSorted DEF AcceptAfterClock
    <3> QED BY <3>1
  <2> QED BY <1>4, <2>1, <2>2 DEF AddMessage
<1>5. ASSUME NEW f \in Agent, AgentEnds(f) PROVE ~Held /\ ~Held'
  BY <1>5 DEF AgentEnds, Ends, Held
<1>6. ASSUME NEW f \in Agent, DisposesEmptied(f) PROVE FALSE
  <2>1. Held /\ Ends(f) /\ ~replaying /\ At("ending") /\ f \in Live \ {Primary}
    BY <1>6, HoldFields DEF DisposesEmptied, Quiet, HInv, At
  <2> QED BY <2>1, EndsStep
<1>7. CASE writes' = writes
  BY <1>7
<1>8. ASSUME NEW a \in Agent, TurnStarts(a) \/ TurnEnds(a) \/ SpawnBegins(a) \/ SpawnEnds(a)
      PROVE  writes' = writes
  BY <1>8 DEF TurnStarts, TurnEnds, SpawnBegins, SpawnEnds
<1>9. ASSUME Unparks \/ CoolEnds \/ MaintenanceStarts \/ Maintaining
      PROVE  writes' = writes
  BY <1>9 DEF Unparks, CoolEnds, MaintenanceStarts, Maintaining, AsksForCall, CallEnds,
              MaintenanceEnds, MaintenanceStep
<1>10. ASSUME UNCHANGED vars PROVE writes' = writes
  BY <1>10 DEF vars
<1> QED BY <1>1, <1>2, <1>3, <1>4, <1>5, <1>6, <1>7, <1>8, <1>9, <1>10 DEF Next

(* While a surgery holds the store no row lands in it, and while its branch *)
(* moves under the managers no turn runs, no maintenance ticks and no agent *)
(* is created (reserveStoreForSurgery, addMessage, the inference pass).     *)
THEOREM StoreStandsStill == Spec => StandsStill
<1> DEFINE Still ==
      /\ writes'.landed # writes.landed => ~Held /\ ~Held'
      /\ Held' /\ ~At("settling")' =>
            /\ maintenance' = "none"
            /\ \A a \in Agent : turn'[a] # "running" /\ status'[a] # "opening"
<1>1. HInv /\ [Next]_vars => [Still]_vars
  <2> SUFFICES ASSUME HInv, [Next]_vars PROVE Still
    OBVIOUS
  <2>1. HInv'
    BY HInvStep
  <2> QED BY <2>1, LandsFree DEF HInv, Alone
<1>2. HInv /\ [Next]_vars => HInv'
  BY HInvStep
<1>3. Init => HInv
  BY HInvInit
<1>4. Spec => [][Still]_vars
  BY <1>1, <1>2, <1>3, PTL DEF Spec
<1> QED BY <1>4 DEF StandsStill
=============================================================================
