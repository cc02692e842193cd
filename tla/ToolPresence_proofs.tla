------------------------ MODULE ToolPresence_proofs ------------------------
(***************************************************************************)
(* What the host has of a server's tools, proved for any tools, toolsets   *)
(* and bounds: a host that has settled shows what the server shows.        *)
(*                                                                         *)
(* The invariant is PresenceInv.  WireOK is what the line is good for,     *)
(* whatever of it is lost: the last it says of a tool or a toolset is so,  *)
(* the revs on it follow each other, and a tool no longer listed is spoken *)
(* of only before the notice of it; so the loss of any message but its     *)
(* last keeps it, and that of the last shows as a gap (AllInTurn).  Core:  *)
(* the host is right about all that the line will not tell it, or what it  *)
(* reads next shows a gap, or a recovery is to come, or a list was missed  *)
(* and no flow has read another since.  Gone: of a tool that is no longer  *)
(* listed a notice or a list is still to come.  Awaited: each flow waits   *)
(* for one answer.  A quiet host has an empty line and no flow, and what   *)
(* is left of Core and Gone is that it agrees.                             *)
(***************************************************************************)
EXTENDS ToolPresence, WellFoundedInduction, TLAPS

-----------------------------------------------------------------------------
(* Messages.                                                                *)

Kinds == {"hints", "noted", "toolsets", "tools", "error", "listChanged"}
Who == Flow \cup {"agent", "nobody"}
Messages ==
    [kind : Kinds, who : Who, rev : Nat, sets : [Toolset -> {"same", "open", "closed"}],
     shows : [Tool -> {"same", "shown", "hidden"}], tools : SUBSET Tool]

(* Statements take a rev; a list of tools has that of the last one.         *)
Statement(m) == m.kind \in {"hints", "noted", "toolsets"}
Change(m) == m.kind \in {"hints", "noted"}

(* What a message says of a tool: a statement that it is shown or not, the  *)
(* toolset's end, and a list that a tool outside the toolsets is not shown  *)
(* or that it has no such tool.                                             *)
Closes(m, t) == t \notin Loose /\ m.sets[SetOf[t]] = "closed"
Mentions(m, t) == m.kind = "toolsets" \/ (Change(m) /\ (m.shows[t] # "same" \/ Closes(m, t)))
Tells(m, t) == Mentions(m, t) \/ (m.kind = "tools" /\ (t \in Loose \/ t \notin m.tools))
MentionsSet(m, s) == m.kind = "toolsets" \/ (Change(m) /\ m.sets[s] # "same")
Naming(m, t) == t \in m.tools \/ m.shows[t] # "same"

Message1(m) ==
    /\ m \in Messages
    /\ \A t \in Tool : Closes(m, t) => m.shows[t] = "same"
    /\ m.kind = "toolsets" => \A s \in Toolset : m.sets[s] # "closed"
    /\ m.kind = "tools" => \A t \in Tool : m.shows[t] = "shown" => t \in Loose \cap m.tools

-----------------------------------------------------------------------------
(* What is on the wire w, of a server that has come to S and a host P.      *)

Sides == [rev : Nat, tools : SUBSET Tool, open : SUBSET Toolset, visible : SUBSET Tool,
          removed : SUBSET Tool]
Wires == Seq(Messages)

(* A tool never listed is not spoken of, and one no longer listed only      *)
(* before the notice of it.                                                 *)
Unheard(w, S, P) == \A t \in Tool \ (S.tools \cup S.removed) :
    t \notin P.tools /\ \A i \in 1..Len(w) : ~ Naming(w[i], t)
Announced(w, S) == \A t \in Tool \ S.tools : \A i \in 1..Len(w) :
    Naming(w[i], t) => \E j \in (i + 1)..Len(w) : w[j].kind = "listChanged"

(* The last that is said of a tool or a toolset is so.                      *)
ShowsTrue(w, S) == \A t \in S.tools : \A i \in 1..Len(w) :
    Tells(w[i], t) /\ (\A j \in (i + 1)..Len(w) : ~ Mentions(w[j], t)) =>
        (w[i].shows[t] = "shown" <=> t \in S.visible)
SetsTrue(w, S) == \A s \in Toolset : \A i \in 1..Len(w) :
    MentionsSet(w[i], s) /\ (\A j \in (i + 1)..Len(w) : ~ MentionsSet(w[j], s)) =>
        (w[i].sets[s] = "open" <=> s \in S.open)

(* What has read the first i messages and is at rev r misses nothing.       *)
InTurn(w, S, r, i) ==
    /\ \A j \in (i + 1)..Len(w) :
          Statement(w[j]) /\ (\A k \in (i + 1)..(j - 1) : ~ Statement(w[k])) => w[j].rev = r + 1
    /\ (\A j \in (i + 1)..Len(w) : ~ Statement(w[j])) => S.rev = r
AllInTurn(w, S) == \A i \in 1..Len(w) :
    Statement(w[i]) \/ w[i].kind = "tools" => InTurn(w, S, w[i].rev, i)

(* Revs rise, and the host's is behind them.                                *)
Rising(w, S, P) ==
    /\ P.rev \in Nat /\ P.rev <= S.rev
    /\ \A i \in 1..Len(w) : Statement(w[i]) => P.rev < w[i].rev
    /\ \A i \in 1..Len(w) : Statement(w[i]) \/ w[i].kind = "tools" =>
          w[i].rev <= S.rev /\ \A j \in (i + 1)..Len(w) : Statement(w[j]) => w[i].rev < w[j].rev

WireOK(w, S, P) ==
    /\ w \in Wires /\ \A i \in 1..Len(w) : Message1(w[i])
    /\ Unheard(w, S, P) /\ Announced(w, S) /\ ShowsTrue(w, S) /\ SetsTrue(w, S)
         /\ AllInTurn(w, S)
    /\ Rising(w, S, P)

(* The host is right about what nothing on the wire will tell it.           *)
Agrees(w, S, P) ==
    /\ \A t \in S.tools : (\A i \in 1..Len(w) : ~ Mentions(w[i], t)) =>
          (t \in P.visible <=> t \in S.visible)
    /\ \A s \in Toolset : (\A i \in 1..Len(w) : ~ MentionsSet(w[i], s)) =>
          (s \in P.open <=> s \in S.open)

-----------------------------------------------------------------------------
(* A server says m as it goes from S to T.                                  *)
Tracks(S, T, m) ==
    /\ Message1(m) /\ S.rev \in Nat
    /\ S.tools \cup S.removed \subseteq T.tools \cup T.removed
    /\ \A t \in Tool \ T.tools : ~ Naming(m, t)
    /\ \A t \in S.tools \ T.tools : m.kind = "listChanged"
    /\ \A t \in T.tools : t \in Tool /\ (t \in S.tools \/ t \notin S.removed)
    /\ \A t \in T.tools \ S.tools : t \notin T.visible
    /\ \A t \in T.tools : Tells(m, t) => (m.shows[t] = "shown" <=> t \in T.visible)
    /\ \A t \in T.tools \cap S.tools : ~ Mentions(m, t) => (t \in T.visible <=> t \in S.visible)
    /\ \A s \in Toolset : IF MentionsSet(m, s) THEN m.sets[s] = "open" <=> s \in T.open
                          ELSE s \in T.open <=> s \in S.open
    /\ IF Statement(m) THEN T.rev = S.rev + 1 /\ m.rev = T.rev ELSE T.rev = S.rev
    /\ m.kind = "tools" => m.rev = S.rev

LEMMA Appended ==
    ASSUME NEW w \in Wires, NEW m \in Messages
    PROVE  /\ Append(w, m) \in Wires /\ Len(Append(w, m)) = Len(w) + 1 /\ Len(w) \in Nat
           /\ \A i \in 1..Len(w) : Append(w, m)[i] = w[i]
           /\ Append(w, m)[Len(w) + 1] = m
BY DEF Wires

LEMMA AppendTurns ==
    ASSUME NEW w \in Wires, NEW m \in Messages, NEW S, NEW T, Tracks(S, T, m),
           NEW i \in 0..Len(w), NEW r \in Nat
    PROVE  InTurn(w, S, r, i) <=> InTurn(Append(w, m), T, r, i)
<1> DEFINE v == Append(w, m)
           n == Len(w)
<1>1. /\ Len(v) = n + 1 /\ n \in Nat
      /\ \A j \in 1..n : v[j] = w[j]
      /\ v[n + 1] = m
  BY Appended
<1> HIDE DEF v
<1> DEFINE later(u, k, j) == \A x \in (k + 1)..j : ~ Statement(u[x])
<1>2. /\ \A j \in (i + 1)..(n + 1) : later(v, i, j - 1) <=> later(w, i, j - 1)
      /\ later(v, i, n) <=> later(w, i, n)
  BY <1>1
<1>3. later(v, i, n + 1) <=> later(w, i, n) /\ ~ Statement(m)
  BY <1>1
<1>4. InTurn(v, T, r, i) <=>
        /\ \A j \in (i + 1)..n : Statement(w[j]) /\ later(w, i, j - 1) => w[j].rev = r + 1
        /\ Statement(m) /\ later(w, i, n) => m.rev = r + 1
        /\ ~ Statement(m) /\ later(w, i, n) => T.rev = r
  <2>1. InTurn(v, T, r, i) <=>
          /\ \A j \in (i + 1)..(n + 1) : Statement(v[j]) /\ later(v, i, j - 1)
               => v[j].rev = r + 1
          /\ later(v, i, n + 1) => T.rev = r
    BY <1>1 DEF InTurn
  <2>2. (\A j \in (i + 1)..(n + 1) : Statement(v[j]) /\ later(v, i, j - 1) => v[j].rev = r + 1) <=>
          /\ \A j \in (i + 1)..n : Statement(w[j]) /\ later(w, i, j - 1) => w[j].rev = r + 1
          /\ Statement(m) /\ later(w, i, n) => m.rev = r + 1
    <3> HIDE DEF later
    <3>1. (i + 1)..(n + 1) = (i + 1)..n \cup {n + 1} /\ n + 1 - 1 = n
      BY <1>1
    <3>2. \A j \in (i + 1)..n : v[j] = w[j] /\ (later(v, i, j - 1) <=> later(w, i, j - 1))
      BY <1>1, <1>2
    <3>3. (Statement(v[n + 1]) /\ later(v, i, n + 1 - 1) => v[n + 1].rev = r + 1) <=>
            (Statement(m) /\ later(w, i, n) => m.rev = r + 1)
      BY <1>1, <1>2, <3>1
    <3> DEFINE so(j) == Statement(v[j]) /\ later(v, i, j - 1) => v[j].rev = r + 1
               was(j) == Statement(w[j]) /\ later(w, i, j - 1) => w[j].rev = r + 1
    <3>4. \A j \in (i + 1)..n : so(j) <=> was(j)
      BY <3>2
    <3> HIDE DEF so, was
    <3>5. (\A j \in (i + 1)..(n + 1) : so(j)) <=> (\A j \in (i + 1)..n : so(j)) /\ so(n + 1)
      BY <3>1
    <3>6. (\A j \in (i + 1)..(n + 1) : so(j)) <=> (\A j \in (i + 1)..n : was(j)) /\ so(n + 1)
      BY <3>4, <3>5
    <3> QED  BY <3>3, <3>6 DEF so, was
  <2> HIDE DEF later
  <2> QED  BY <2>1, <2>2, <1>3
<1>5. InTurn(w, S, r, i) <=>
        /\ \A j \in (i + 1)..n : Statement(w[j]) /\ later(w, i, j - 1) => w[j].rev = r + 1
        /\ later(w, i, n) => S.rev = r
  BY DEF InTurn
<1>6. S.rev \in Nat /\ IF Statement(m) THEN T.rev = S.rev + 1
        /\ m.rev = T.rev ELSE T.rev = S.rev
  BY DEF Tracks
<1> HIDE DEF later, n
<1>7. (Statement(m) => m.rev = r + 1) /\ (~ Statement(m) => T.rev = r) <=> S.rev = r
  BY <1>6
<1> QED  BY <1>4, <1>5, <1>7 DEF v

LEMMA AppendOK ==
    ASSUME NEW w, NEW m, NEW S, NEW T, NEW P, WireOK(w, S, P), Tracks(S, T, m)
    PROVE  WireOK(Append(w, m), T, P)
<1>1. m \in Messages /\ Message1(m) /\ w \in Wires
  BY DEF Tracks, Message1, WireOK
<1> DEFINE v == Append(w, m)
           n == Len(w)
<1>2. /\ v \in Wires /\ Len(v) = n + 1 /\ n \in Nat
      /\ \A i \in 1..n : v[i] = w[i]
      /\ v[n + 1] = m
  BY <1>1, Appended
<1> HIDE DEF v
<1>3. \A i \in 1..Len(v) : Message1(v[i])
  BY <1>1, <1>2 DEF WireOK
<1>4. Unheard(v, T, P)
  BY <1>2 DEF Tracks, WireOK, Unheard
<1>5. Announced(v, T)
  <2> SUFFICES ASSUME NEW t \in Tool \ T.tools, NEW i \in 1..Len(v), Naming(v[i], t)
               PROVE  \E j \in (i + 1)..Len(v) : v[j].kind = "listChanged"
    BY DEF Announced
  <2>1. i \in 1..n /\ Naming(w[i], t)
    BY <1>2 DEF Tracks
  <2>2. CASE t \in S.tools
    BY <1>2, <2>1, <2>2 DEF Tracks
  <2>3. CASE t \notin S.tools
    <3>1. PICK j \in (i + 1)..n : w[j].kind = "listChanged"
      BY <2>1, <2>3 DEF WireOK, Announced
    <3> QED  BY <1>2, <3>1, <2>1
  <2> QED  BY <2>2, <2>3
<1>6. ShowsTrue(v, T)
  <2> SUFFICES ASSUME NEW t \in T.tools, NEW i \in 1..Len(v), Tells(v[i], t),
                      \A j \in (i + 1)..Len(v) : ~ Mentions(v[j], t)
               PROVE  v[i].shows[t] = "shown" <=> t \in T.visible
    BY DEF ShowsTrue
  <2>1. CASE i = n + 1
    BY <1>2, <2>1 DEF Tracks
  <2>2. CASE i \in 1..n
    <3>1. ~ Mentions(m, t) /\ \A j \in (i + 1)..n : ~ Mentions(w[j], t)
      BY <1>2, <2>2
    <3>2. CASE t \in S.tools
      <4>1. w[i].shows[t] = "shown" <=> t \in S.visible
        BY <1>2, <2>2, <3>1, <3>2 DEF WireOK, ShowsTrue
      <4> QED  BY <4>1, <3>1, <3>2, <1>2, <2>2 DEF Tracks
    <3>3. CASE t \notin S.tools
      <4>1. ~ Naming(w[i], t) /\ t \notin T.visible
        BY <3>3, <2>2 DEF Tracks, WireOK, Unheard
      <4> QED  BY <4>1, <1>2, <2>2 DEF Naming
    <3> QED  BY <3>2, <3>3
  <2> QED  BY <2>1, <2>2, <1>2
<1>7. SetsTrue(v, T)
  <2> SUFFICES ASSUME NEW s \in Toolset, NEW i \in 1..Len(v), MentionsSet(v[i], s),
                      \A j \in (i + 1)..Len(v) : ~ MentionsSet(v[j], s)
               PROVE  v[i].sets[s] = "open" <=> s \in T.open
    BY DEF SetsTrue
  <2>1. CASE i = n + 1
    BY <1>2, <2>1 DEF Tracks
  <2>2. CASE i \in 1..n
    <3>1. ~ MentionsSet(m, s) /\ \A j \in (i + 1)..n : ~ MentionsSet(w[j], s)
      BY <1>2, <2>2
    <3>2. w[i].sets[s] = "open" <=> s \in S.open
      BY <1>2, <2>2, <3>1 DEF WireOK, SetsTrue
    <3> QED  BY <3>1, <3>2, <1>2, <2>2 DEF Tracks
  <2> QED  BY <2>1, <2>2, <1>2
<1>8. AllInTurn(v, T)
  <2> SUFFICES ASSUME NEW i \in 1..Len(v), Statement(v[i]) \/ v[i].kind = "tools"
               PROVE  InTurn(v, T, v[i].rev, i)
    BY DEF AllInTurn
  <2>1. CASE i = n + 1
    <3>1. m.rev = T.rev
      BY <1>2, <2>1 DEF Tracks, Statement
    <3> QED  BY <1>2, <2>1, <3>1 DEF InTurn
  <2>2. CASE i \in 1..n
    <3>1. InTurn(w, S, w[i].rev, i)
      BY <1>2, <2>2 DEF WireOK, AllInTurn
    <3>2. w[i].rev \in Nat
      BY <2>2 DEF WireOK, Message1, Messages
    <3> QED  BY <3>1, <3>2, <1>1, <1>2, <2>2, AppendTurns DEF v
  <2> QED  BY <2>1, <2>2, <1>2
<1>9. Rising(v, T, P)
  <2>1. /\ S.rev \in Nat /\ S.rev <= T.rev /\ T.rev \in Nat
        /\ Statement(m) => m.rev = T.rev /\ S.rev < T.rev
        /\ m.kind = "tools" => m.rev <= T.rev
    BY DEF Tracks, Statement
  <2>2. \A i \in 1..n : w[i].rev \in Nat
    BY DEF WireOK, Message1, Messages
  <2>3. Rising(w, S, P)
    BY DEF WireOK
  <2>4. P.rev \in Nat /\ P.rev <= T.rev
    BY <2>1, <2>3 DEF Rising
  <2>5. \A i \in 1..(n + 1) : Statement(v[i]) => P.rev < v[i].rev
    BY <2>1, <2>3, <2>4, <1>2 DEF Rising
  <2>6. ASSUME NEW i \in 1..(n + 1), Statement(v[i]) \/ v[i].kind = "tools"
        PROVE  v[i].rev <= T.rev /\ \A j \in (i + 1)..(n + 1) : Statement(v[j])
                 => v[i].rev < v[j].rev
    <3>1. CASE i = n + 1
      BY <3>1, <2>1, <2>6, <1>2
    <3>2. CASE i \in 1..n
      <4>1. /\ w[i].rev <= S.rev /\ w[i].rev \in Nat
            /\ \A j \in (i + 1)..n : Statement(w[j]) => w[i].rev < w[j].rev
        BY <3>2, <2>2, <2>3, <2>6, <1>2 DEF Rising
      <4> QED  BY <4>1, <3>2, <2>1, <1>2
    <3> QED  BY <3>1, <3>2, <1>2
  <2> QED  BY <2>4, <2>5, <2>6, <1>2 DEF Rising
<1> QED  BY <1>2, <1>3, <1>4, <1>5, <1>6, <1>7, <1>8, <1>9 DEF WireOK, v

(* The host is as right as it was, or as late.                              *)
LEMMA AppendAgrees ==
    ASSUME NEW w, NEW m, NEW S, NEW T, NEW P, WireOK(w, S, P), Tracks(S, T, m), Agrees(w, S, P),
           P.visible \subseteq P.tools
    PROVE  Agrees(Append(w, m), T, P)
<1>1. m \in Messages /\ w \in Wires
  BY DEF Tracks, Message1, WireOK
<1> DEFINE v == Append(w, m)
           n == Len(w)
<1>2. /\ Len(v) = n + 1 /\ n \in Nat
      /\ \A i \in 1..n : v[i] = w[i]
      /\ v[n + 1] = m
  BY <1>1, Appended
<1> HIDE DEF v
<1>3. ASSUME NEW t \in T.tools, \A i \in 1..Len(v) : ~ Mentions(v[i], t)
      PROVE  t \in P.visible <=> t \in T.visible
  <2>1. ~ Mentions(m, t) /\ \A i \in 1..n : ~ Mentions(w[i], t)
    BY <1>2, <1>3
  <2>2. CASE t \in S.tools
    BY <2>1, <2>2 DEF Tracks, Agrees
  <2>3. CASE t \notin S.tools
    <3>1. t \notin P.tools /\ t \notin T.visible
      BY <2>3 DEF Tracks, WireOK, Unheard
    <3> QED  BY <3>1
  <2> QED  BY <2>2, <2>3
<1>4. ASSUME NEW s \in Toolset, \A i \in 1..Len(v) : ~ MentionsSet(v[i], s)
      PROVE  s \in P.open <=> s \in T.open
  <2>1. ~ MentionsSet(m, s) /\ \A i \in 1..n : ~ MentionsSet(w[i], s)
    BY <1>2, <1>4
  <2> QED  BY <2>1 DEF Tracks, Agrees
<1> QED  BY <1>3, <1>4 DEF Agrees, v

-----------------------------------------------------------------------------
(* The first message leaves the wire.                                       *)

LEMMA Tailed ==
    ASSUME NEW w \in Wires, w # <<>>
    PROVE  /\ Tail(w) \in Wires /\ Len(Tail(w)) = Len(w) - 1 /\ Len(w) \in Nat /\ Len(w) >= 1
           /\ \A i \in 1..(Len(w) - 1) : Tail(w)[i] = w[i + 1]
           /\ Head(w) = w[1] /\ w[1] \in Messages
BY DEF Wires

LEMMA TailTurns ==
    ASSUME NEW w \in Wires, w # <<>>, NEW S, NEW r \in Nat, NEW i \in 0..(Len(w) - 1)
    PROVE  InTurn(w, S, r, i + 1) <=> InTurn(Tail(w), S, r, i)
<1> DEFINE v == Tail(w)
           n == Len(w)
<1>1. /\ Len(v) = n - 1 /\ n \in Nat
      /\ \A j \in 1..(n - 1) : v[j] = w[j + 1]
  BY Tailed
<1> HIDE DEF v
<1>2. ASSUME InTurn(w, S, r, i + 1) PROVE InTurn(v, S, r, i)
  <2>1. ASSUME NEW j \in (i + 1)..(n - 1), Statement(v[j]), \A k \in (i + 1)..(j - 1) : ~ Statement(v[k])
        PROVE  v[j].rev = r + 1
    <3>1. j + 1 \in (i + 2)..n /\ v[j] = w[j + 1]
      BY <1>1
    <3>2. \A k \in (i + 2)..j : ~ Statement(w[k])
      <4> SUFFICES ASSUME NEW k \in (i + 2)..j PROVE ~ Statement(w[k])
        OBVIOUS
      <4>1. k - 1 \in (i + 1)..(j - 1) /\ k - 1 \in 1..(n - 1) /\ k - 1 + 1 = k
        BY <1>1
      <4> QED  BY <4>1, <2>1, <1>1
    <3>3. i + 1 + 1 = i + 2 /\ j + 1 - 1 = j
      BY <1>1
    <3> QED  BY <3>1, <3>2, <3>3, <2>1, <1>2 DEF InTurn
  <2>2. ASSUME \A j \in (i + 1)..(n - 1) : ~ Statement(v[j]) PROVE S.rev = r
    <3>1. \A j \in (i + 2)..n : ~ Statement(w[j])
      <4> SUFFICES ASSUME NEW j \in (i + 2)..n PROVE ~ Statement(w[j])
        OBVIOUS
      <4>1. j - 1 \in (i + 1)..(n - 1) /\ j - 1 \in 1..(n - 1) /\ j - 1 + 1 = j
        BY <1>1
      <4> QED  BY <4>1, <2>2, <1>1
    <3>2. i + 1 + 1 = i + 2
      OBVIOUS
    <3> QED  BY <3>1, <3>2, <1>2 DEF InTurn
  <2> QED  BY <2>1, <2>2, <1>1 DEF InTurn
<1>3. ASSUME InTurn(v, S, r, i) PROVE InTurn(w, S, r, i + 1)
  <2>1. ASSUME NEW j \in (i + 2)..n, Statement(w[j]), \A k \in (i + 2)..(j - 1) : ~ Statement(w[k])
        PROVE  w[j].rev = r + 1
    <3>1. j - 1 \in (i + 1)..(n - 1) /\ v[j - 1] = w[j]
      BY <1>1
    <3>2. \A k \in (i + 1)..(j - 1 - 1) : ~ Statement(v[k])
      BY <1>1, <2>1
    <3> QED  BY <3>1, <3>2, <2>1, <1>1, <1>3 DEF InTurn
  <2>2. ASSUME \A j \in (i + 2)..n : ~ Statement(w[j]) PROVE S.rev = r
    <3>1. \A j \in (i + 1)..(n - 1) : ~ Statement(v[j])
      BY <1>1, <2>2
    <3> QED  BY <3>1, <1>1, <1>3 DEF InTurn
  <2>3. i + 1 + 1 = i + 2
    OBVIOUS
  <2> QED  BY <2>1, <2>2, <2>3 DEF InTurn
<1> QED  BY <1>2, <1>3 DEF v

LEMMA HeadTurn ==
    ASSUME NEW w \in Wires, w # <<>>, NEW S, NEW r \in Nat
    PROVE  IF Statement(w[1]) THEN InTurn(w, S, r, 0) <=> w[1].rev = r + 1
           ELSE InTurn(w, S, r, 0) <=> InTurn(Tail(w), S, r, 0)
<1>1. Len(w) \in Nat /\ Len(w) >= 1
  BY Tailed
<1>2. CASE Statement(w[1])
  <2>1. 1 \in 1..Len(w) /\ \A j \in 1..Len(w) : (\A k \in 1..(j - 1) : ~ Statement(w[k]))
          => j = 1
    BY <1>1, <1>2
  <2>2. ~ \A j \in 1..Len(w) : ~ Statement(w[j])
    BY <2>1, <1>2
  <2>3. \A k \in 1..(1 - 1) : ~ Statement(w[k])
    OBVIOUS
  <2> QED  BY <2>1, <2>2, <2>3, <1>2 DEF InTurn
<1>3. CASE ~ Statement(w[1])
  <2>1. InTurn(w, S, r, 1) <=> InTurn(Tail(w), S, r, 0)
    BY <1>1, TailTurns
  <2>2. InTurn(w, S, r, 0) <=> InTurn(w, S, r, 1)
    <3>1. \A j \in 1..Len(w) :
            (\A k \in 1..(j - 1) : ~ Statement(w[k])) <=> (\A k \in 2..(j - 1) : ~ Statement(w[k]))
      BY <1>3, <1>1
    <3>2. (\A j \in 1..Len(w) : ~ Statement(w[j])) <=> (\A j \in 2..Len(w) : ~ Statement(w[j]))
      BY <1>3, <1>1
    <3>3. (\A j \in 1..Len(w) : Statement(w[j]) /\ (\A k \in 1..(j - 1) : ~ Statement(w[k]))
            => w[j].rev = r + 1)
          <=> (\A j \in 2..Len(w) : Statement(w[j]) /\ (\A k \in 2..(j - 1) : ~ Statement(w[k]))
            => w[j].rev = r + 1)
      BY <3>1, <1>3, <1>1
    <3> QED  BY <3>2, <3>3 DEF InTurn
  <2> QED  BY <2>1, <2>2, <1>3
<1> QED  BY <1>2, <1>3

LEMMA Least == ASSUME NEW T, T \subseteq Nat, T # {} PROVE \E n \in T : \A k \in T : n <= k
<1> DEFINE R == {p \in Nat \X Nat : p[1] < p[2]}
<1>1. R = OpToRel(<, Nat)
  BY DEF OpToRel
<1>2. IsWellFoundedOn(R, Nat)
  <2> HIDE DEF R
  <2> QED  BY <1>1, NatLessThanWellFounded
<1>3. PICK n \in T : \A k \in T : ~ (<<k, n>> \in R)
  <2> HIDE DEF R
  <2> QED  BY <1>2, WFMin
<1>4. ASSUME NEW k \in T PROVE n <= k
  <2>1. k \in Nat /\ n \in Nat /\ ~ (<<k, n>> \in R)
    BY <1>3
  <2>2. ~ (k < n)
    <3> SUFFICES ASSUME k < n PROVE FALSE
      OBVIOUS
    <3> QED  BY <2>1
  <2> QED  BY <2>1, <2>2
<1> QED  BY <1>4

LEMMA OneTurn ==
    ASSUME NEW w \in Wires, NEW S, NEW r \in Nat,
           NEW q \in Nat, InTurn(w, S, r, 0), InTurn(w, S, q, 0)
    PROVE  r = q
<1> DEFINE at == {j \in 1..Len(w) : Statement(w[j])}
<1>1. CASE at = {}
  <2>1. \A j \in (0 + 1)..Len(w) : ~ Statement(w[j])
    BY <1>1
  <2> QED  BY <2>1 DEF InTurn
<1>2. CASE at # {}
  <2>1. at \subseteq Nat
    BY DEF Wires
  <2>2. PICK j \in at : \A k \in at : j <= k
    <3> HIDE DEF at
    <3> QED  BY <2>1, <1>2, Least
  <2>3. j \in (0 + 1)..Len(w) /\ Statement(w[j])
          /\ \A k \in (0 + 1)..(j - 1) : ~ Statement(w[k])
    BY <2>2 DEF Wires
  <2>4. w[j].rev = r + 1 /\ w[j].rev = q + 1
    BY <2>3 DEF InTurn
  <2> QED  BY <2>4
<1> QED  BY <1>1, <1>2

LEMMA TailOK ==
    ASSUME NEW w, NEW S, NEW P, NEW Q, WireOK(w, S, P), w # <<>>,
           Q.tools \subseteq P.tools \cup w[1].tools,
           Q.rev = P.rev \/ (Q.rev = w[1].rev /\ (Statement(w[1]) \/ w[1].kind = "tools"))
    PROVE  WireOK(Tail(w), S, Q)
<1> DEFINE v == Tail(w)
           n == Len(w)
<1>1. w \in Wires
  BY DEF WireOK
<1>2. /\ v \in Wires /\ Len(v) = n - 1 /\ n \in Nat /\ n >= 1
      /\ \A i \in 1..(n - 1) : v[i] = w[i + 1]
  BY <1>1, Tailed
<1> HIDE DEF v
<1>3. \A i \in 1..Len(v) : i + 1 \in 1..n /\ v[i] = w[i + 1]
  BY <1>2
<1>4. ASSUME NEW i \in 1..Len(v), NEW j \in (i + 1 + 1)..n
      PROVE  j - 1 \in (i + 1)..Len(v) /\ v[j - 1] = w[j]
  BY <1>2
<1>5. \A i \in 1..Len(v) : Message1(v[i])
  BY <1>3 DEF WireOK
<1>6. Unheard(v, S, Q)
  <2> SUFFICES ASSUME NEW t \in Tool \ (S.tools \cup S.removed)
               PROVE  t \notin Q.tools /\ \A i \in 1..Len(v) : ~ Naming(v[i], t)
    BY DEF Unheard
  <2>1. t \notin P.tools /\ \A i \in 1..n : ~ Naming(w[i], t)
    BY DEF WireOK, Unheard
  <2>2. 1 \in 1..n
    BY <1>2
  <2> QED  BY <2>1, <2>2, <1>3 DEF Naming
<1>7. Announced(v, S)
  <2> SUFFICES ASSUME NEW t \in Tool \ S.tools, NEW i \in 1..Len(v), Naming(v[i], t)
               PROVE  \E j \in (i + 1)..Len(v) : v[j].kind = "listChanged"
    BY DEF Announced
  <2>1. PICK j \in (i + 1 + 1)..n : w[j].kind = "listChanged"
    BY <1>3 DEF WireOK, Announced
  <2> QED  BY <2>1, <1>4
<1>8. ShowsTrue(v, S)
  <2> SUFFICES ASSUME NEW t \in S.tools, NEW i \in 1..Len(v), Tells(v[i], t),
                      \A j \in (i + 1)..Len(v) : ~ Mentions(v[j], t)
               PROVE  v[i].shows[t] = "shown" <=> t \in S.visible
    BY DEF ShowsTrue
  <2>1. \A j \in (i + 1 + 1)..n : ~ Mentions(w[j], t)
    BY <1>4
  <2> QED  BY <2>1, <1>3 DEF WireOK, ShowsTrue
<1>9. SetsTrue(v, S)
  <2> SUFFICES ASSUME NEW s \in Toolset, NEW i \in 1..Len(v), MentionsSet(v[i], s),
                      \A j \in (i + 1)..Len(v) : ~ MentionsSet(v[j], s)
               PROVE  v[i].sets[s] = "open" <=> s \in S.open
    BY DEF SetsTrue
  <2>1. \A j \in (i + 1 + 1)..n : ~ MentionsSet(w[j], s)
    BY <1>4
  <2> QED  BY <2>1, <1>3 DEF WireOK, SetsTrue
<1>10. AllInTurn(v, S)
  <2> SUFFICES ASSUME NEW i \in 1..Len(v), Statement(v[i]) \/ v[i].kind = "tools"
               PROVE  InTurn(v, S, v[i].rev, i)
    BY DEF AllInTurn
  <2>1. InTurn(w, S, w[i + 1].rev, i + 1) /\ w[i + 1].rev \in Nat
    BY <1>3 DEF WireOK, AllInTurn, Message1, Messages
  <2>2. i \in 0..(n - 1)
    BY <1>2
  <2> QED  BY <2>1, <2>2, <1>1, <1>3, TailTurns DEF v
<1>11. Rising(v, S, Q)
  <2>1. Rising(w, S, P) /\ \A i \in 1..n : w[i].rev \in Nat
    BY DEF WireOK, Message1, Messages
  <2>2. Q.rev \in Nat /\ Q.rev <= S.rev
    BY <2>1, <1>2 DEF Rising
  <2>3. ASSUME NEW i \in 1..Len(v), Statement(v[i]) PROVE Q.rev < v[i].rev
    <3>1. i + 1 \in (1 + 1)..n /\ 1 \in 1..n
      BY <1>2
    <3> QED  BY <3>1, <2>1, <2>3, <1>3 DEF Rising
  <2>4. ASSUME NEW i \in 1..Len(v), Statement(v[i]) \/ v[i].kind = "tools"
        PROVE  v[i].rev <= S.rev /\ \A j \in (i + 1)..Len(v) : Statement(v[j])
                 => v[i].rev < v[j].rev
    <3>1. /\ w[i + 1].rev <= S.rev
          /\ \A j \in (i + 1 + 1)..n : Statement(w[j]) => w[i + 1].rev < w[j].rev
      BY <2>1, <2>4, <1>3 DEF Rising
    <3>2. \A j \in (i + 1)..Len(v) : j + 1 \in (i + 1 + 1)..n /\ v[j] = w[j + 1]
      BY <1>2
    <3> QED  BY <3>1, <3>2, <1>3
  <2> QED  BY <2>2, <2>3, <2>4 DEF Rising
<1> QED  BY <1>2, <1>5, <1>6, <1>7, <1>8, <1>9, <1>10, <1>11 DEF WireOK, v

(* What the first message is known to say.                                  *)
NoticeOn(w) == \E i \in 1..Len(w) : w[i].kind = "listChanged"
Untold(w, t) == \A i \in 1..Len(w) : ~ Mentions(w[i], t)
UntoldSet(w, s) == \A i \in 1..Len(w) : ~ MentionsSet(w[i], s)

LEMMA HeadFacts ==
    ASSUME NEW w, NEW S, NEW P, WireOK(w, S, P), w # <<>>
    PROVE  /\ Message1(w[1]) /\ w \in Wires
           /\ Statement(w[1]) => P.rev < w[1].rev
           /\ \A t \in S.tools : Untold(Tail(w), t) /\ Tells(w[1], t) =>
                (w[1].shows[t] = "shown" <=> t \in S.visible)
           /\ \A s \in Toolset : UntoldSet(Tail(w), s) /\ MentionsSet(w[1], s) =>
                (w[1].sets[s] = "open" <=> s \in S.open)
           /\ \A t : Untold(Tail(w), t) /\ ~ Mentions(w[1], t) => Untold(w, t)
           /\ \A s : UntoldSet(Tail(w), s) /\ ~ MentionsSet(w[1], s) => UntoldSet(w, s)
           /\ \A t \in Tool \ S.tools : Naming(w[1], t) => NoticeOn(Tail(w))
           /\ NoticeOn(w) /\ w[1].kind # "listChanged" => NoticeOn(Tail(w))
<1> DEFINE v == Tail(w)
           n == Len(w)
<1>1. w \in Wires
  BY DEF WireOK
<1>2. /\ Len(v) = n - 1 /\ n \in Nat /\ n >= 1
      /\ \A i \in 1..(n - 1) : v[i] = w[i + 1]
  BY <1>1, Tailed
<1> HIDE DEF v
<1>3. 1 \in 1..n /\ \A j \in (1 + 1)..n : j - 1 \in 1..Len(v) /\ v[j - 1] = w[j]
  BY <1>2
<1>4. Message1(w[1]) /\ (Statement(w[1]) => P.rev < w[1].rev)
  BY <1>3 DEF WireOK, Rising
<1>5. ASSUME NEW t \in S.tools, Untold(v, t), Tells(w[1], t)
      PROVE  w[1].shows[t] = "shown" <=> t \in S.visible
  <2>1. \A j \in (1 + 1)..n : ~ Mentions(w[j], t)
    BY <1>3, <1>5 DEF Untold
  <2> QED  BY <2>1, <1>3, <1>5 DEF WireOK, ShowsTrue
<1>6. ASSUME NEW s \in Toolset, UntoldSet(v, s), MentionsSet(w[1], s)
      PROVE  w[1].sets[s] = "open" <=> s \in S.open
  <2>1. \A j \in (1 + 1)..n : ~ MentionsSet(w[j], s)
    BY <1>3, <1>6 DEF UntoldSet
  <2> QED  BY <2>1, <1>3, <1>6 DEF WireOK, SetsTrue
<1>7. \A i \in 1..n : i = 1 \/ i \in (1 + 1)..n
  BY <1>2
<1>8. \A t : Untold(v, t) /\ ~ Mentions(w[1], t) => Untold(w, t)
  BY <1>3, <1>7 DEF Untold
<1>9. \A s : UntoldSet(v, s) /\ ~ MentionsSet(w[1], s) => UntoldSet(w, s)
  BY <1>3, <1>7 DEF UntoldSet
<1>10. ASSUME NEW t \in Tool \ S.tools, Naming(w[1], t) PROVE NoticeOn(v)
  <2>1. PICK j \in (1 + 1)..n : w[j].kind = "listChanged"
    BY <1>3, <1>10 DEF WireOK, Announced
  <2> QED  BY <2>1, <1>3 DEF NoticeOn
<1>11. NoticeOn(w) /\ w[1].kind # "listChanged" => NoticeOn(v)
  BY <1>3, <1>7 DEF NoticeOn
<1> QED  BY <1>1, <1>4, <1>5, <1>6, <1>8, <1>9, <1>10, <1>11 DEF v

-----------------------------------------------------------------------------
(* What the host makes of the first message.                                *)

AppliedTo(p, h) == IF h.rev <= p.rev THEN p ELSE [ApplyBody(p, h) EXCEPT !.rev = h.rev]
Heard(p, h) == IF h.kind = "noted" THEN Noted(AppliedTo(p, h), h) ELSE AppliedTo(p, h)

Sided(p) == p \in Side /\ p.visible \subseteq p.tools

LEMMA NotedIs ==
    ASSUME NEW p \in Side, NEW h \in Messages, PresenceConstants
    PROVE  /\ Noted(p, h) \in Side
           /\ Noted(p, h).rev = p.rev /\ Noted(p, h).tools = p.tools
           /\ \A t \in Tool : t \in Noted(p, h).visible <=> t \in p.visible /\ ~ Closes(h, t)
           /\ \A s \in Toolset : s \in Noted(p, h).open <=>
                (s \in p.open \/ h.sets[s] = "open") /\ h.sets[s] # "closed"
<1>1. \A t \in Tool : (\E s \in Toolset : h.sets[s] = "closed"
        /\ t \in ToolsOf(s)) <=> Closes(h, t)
  BY DEF PresenceConstants, Closes, Loose, ToolsOf
<1>2. \A t \in Tool :
        t \in UNION {ToolsOf(s) : s \in {x \in Toolset : h.sets[x] = "closed"}} <=> Closes(h, t)
  BY <1>1
<1> HIDE DEF Closes, ToolsOf
<1>3. Noted(p, h) = [p EXCEPT
        !.open = (@ \cup {s \in Toolset : h.sets[s] = "open"}) \ {s \in Toolset : h.sets[s] = "closed"},
        !.visible = @ \ UNION {ToolsOf(s) : s \in {x \in Toolset : h.sets[x] = "closed"}}]
  BY DEF Noted
<1>4. /\ p.open \subseteq Toolset /\ p.visible \subseteq Tool /\ p.tools \subseteq Tool
           /\ p.rev \in Nat
      /\ p = [rev |-> p.rev, tools |-> p.tools, open |-> p.open, visible |-> p.visible]
  BY DEF Side
<1> DEFINE lost == UNION {ToolsOf(s) : s \in {x \in Toolset : h.sets[x] = "closed"}}
           opens == (p.open \cup {s \in Toolset : h.sets[s] = "open"})
                       \ {s \in Toolset : h.sets[s] = "closed"}
<1>5. Noted(p, h) = [rev |-> p.rev, tools |-> p.tools, open |-> opens, visible |-> p.visible \ lost]
  <2> HIDE DEF lost, opens
  <2>1. Noted(p, h) = [p EXCEPT !.open = opens, !.visible = p.visible \ lost]
    BY <1>3 DEF lost, opens
  <2> QED  BY <2>1, <1>4
<1>6. \A t \in Tool : t \in lost <=> Closes(h, t)
  BY <1>2
<1>7. opens \subseteq Toolset
  BY <1>4
<1>8. \A s \in Toolset : s \in opens <=> (s \in p.open \/ h.sets[s] = "open")
        /\ h.sets[s] # "closed"
  OBVIOUS
<1> HIDE DEF lost, opens
<1> QED  BY <1>4, <1>5, <1>6, <1>7, <1>8 DEF Side

LEMMA BodyIs ==
    ASSUME NEW p \in Side, NEW h \in Messages, PresenceConstants
    PROVE  /\ ApplyBody(p, h) \in Side
           /\ ApplyBody(p, h).rev = p.rev /\ ApplyBody(p, h).tools = p.tools
           /\ \A t \in Tool : t \in ApplyBody(p, h).visible <=>
                \/ t \in p.tools /\ h.shows[t] = "shown"
                \/ t \in p.visible /\ ~ Closes(h, t)
                     /\ ~ (t \in p.tools /\ h.shows[t] = "hidden")
           /\ \A s \in Toolset : s \in ApplyBody(p, h).open <=>
                (s \in p.open \/ h.sets[s] = "open") /\ h.sets[s] # "closed"
<1> DEFINE q == Noted(p, h)
           seen == (q.visible \cup {t \in p.tools : h.shows[t] = "shown"})
                      \ {t \in p.tools : h.shows[t] = "hidden"}
<1>1. /\ q \in Side /\ q.rev = p.rev /\ q.tools = p.tools
      /\ \A t \in Tool : t \in q.visible <=> t \in p.visible /\ ~ Closes(h, t)
      /\ \A s \in Toolset : s \in q.open <=> (s \in p.open \/ h.sets[s] = "open")
           /\ h.sets[s] # "closed"
  BY NotedIs
<1>2. ApplyBody(p, h) = [q EXCEPT !.visible = seen]
  BY DEF ApplyBody
<1> HIDE DEF q
<1>3. seen \subseteq Tool
  BY <1>1 DEF Side
<1>4. \A t \in Tool : t \in seen <=>
        \/ t \in p.tools /\ h.shows[t] = "shown"
        \/ t \in p.visible /\ ~ Closes(h, t) /\ ~ (t \in p.tools /\ h.shows[t] = "hidden")
  <2> HIDE DEF Closes
  <2> QED  BY <1>1
<1> HIDE DEF seen
<1>5. ApplyBody(p, h) = [rev |-> q.rev, tools |-> q.tools, open |-> q.open, visible |-> seen]
  BY <1>1, <1>2 DEF Side
<1> HIDE DEF Closes
<1> QED  BY <1>1, <1>3, <1>4, <1>5 DEF Side

LEMMA HeardIs ==
    ASSUME NEW p, Sided(p), NEW h, Message1(h), PresenceConstants
    PROVE  /\ Sided(Heard(p, h)) /\ Heard(p, h).tools = p.tools
           /\ Heard(p, h).rev \in {p.rev, h.rev}
           /\ \A t \in Tool : t \in Heard(p, h).visible => t \in p.visible \/ Naming(h, t)
           /\ p.rev < h.rev =>
                /\ Heard(p, h).rev = h.rev
                /\ \A t \in Tool : t \in Heard(p, h).visible <=>
                      \/ t \in p.tools /\ h.shows[t] = "shown"
                      \/ t \in p.visible /\ ~ Closes(h, t)
                           /\ ~ (t \in p.tools /\ h.shows[t] = "hidden")
                /\ \A s \in Toolset : s \in Heard(p, h).open <=>
                      (s \in p.open \/ h.sets[s] = "open") /\ h.sets[s] # "closed"
<1>1. /\ p \in Side /\ p.visible \subseteq p.tools /\ h \in Messages
      /\ p.rev \in Nat /\ h.rev \in Nat /\ p.tools \subseteq Tool
      /\ \A t \in Tool : Closes(h, t) => h.shows[t] = "same"
  BY DEF Sided, Message1, Side, Messages
<1> DEFINE a == AppliedTo(p, h)
           b == ApplyBody(p, h)
<1> HIDE DEF Closes
<1>2. /\ b \in Side /\ b.rev = p.rev /\ b.tools = p.tools
      /\ \A t \in Tool : t \in b.visible <=>
            \/ t \in p.tools /\ h.shows[t] = "shown"
            \/ t \in p.visible /\ ~ Closes(h, t) /\ ~ (t \in p.tools /\ h.shows[t] = "hidden")
      /\ \A s \in Toolset : s \in b.open <=> (s \in p.open \/ h.sets[s] = "open")
           /\ h.sets[s] # "closed"
  BY <1>1, BodyIs
<1>3. a = IF h.rev <= p.rev THEN p ELSE [b EXCEPT !.rev = h.rev]
  BY DEF AppliedTo
<1> HIDE DEF b
<1>4. b.open \subseteq Toolset /\ b.visible \subseteq Tool
  BY <1>2 DEF Side
<1>5. CASE h.rev <= p.rev
  <2>1. a = p /\ ~ (p.rev < h.rev)
    BY <1>1, <1>3, <1>5
  <2> HIDE DEF a
  <2>2. CASE h.kind = "noted"
    <3>1. Heard(p, h) = Noted(p, h)
      BY <2>1, <2>2 DEF Heard, a
    <3>2. /\ Noted(p, h) \in Side /\ Noted(p, h).rev = p.rev /\ Noted(p, h).tools = p.tools
          /\ \A t \in Tool : t \in Noted(p, h).visible <=> t \in p.visible /\ ~ Closes(h, t)
      BY <1>1, NotedIs
    <3>3. Noted(p, h).visible \subseteq Tool
      BY <3>2 DEF Side
    <3> QED  BY <1>1, <2>1, <3>1, <3>2, <3>3 DEF Sided
  <2>3. CASE h.kind # "noted"
    BY <1>1, <2>1, <2>3 DEF Heard, Sided, a
  <2> QED  BY <2>2, <2>3
<1>6. CASE ~ (h.rev <= p.rev)
  <2>1. a = [rev |-> h.rev, tools |-> p.tools, open |-> b.open, visible |-> b.visible]
    BY <1>2, <1>3, <1>6 DEF Side
  <2> HIDE DEF a
  <2>2. a \in Side /\ a.visible \subseteq a.tools
    BY <2>1, <1>1, <1>2, <1>4 DEF Side
  <2>3. CASE h.kind = "noted"
    <3>1. Heard(p, h) = Noted(a, h)
      BY <2>3 DEF Heard, a
    <3>2. /\ Noted(a, h) \in Side /\ Noted(a, h).rev = a.rev /\ Noted(a, h).tools = a.tools
          /\ \A t \in Tool : t \in Noted(a, h).visible <=> t \in a.visible /\ ~ Closes(h, t)
          /\ \A s \in Toolset : s \in Noted(a, h).open <=>
                (s \in a.open \/ h.sets[s] = "open") /\ h.sets[s] # "closed"
      BY <1>1, <2>2, NotedIs
    <3>3. Noted(a, h).visible \subseteq Tool
      BY <3>2 DEF Side
    <3>4. \A t \in Tool : t \in Noted(a, h).visible <=>
            \/ t \in p.tools /\ h.shows[t] = "shown"
            \/ t \in p.visible /\ ~ Closes(h, t) /\ ~ (t \in p.tools /\ h.shows[t] = "hidden")
      BY <1>1, <1>2, <2>1, <3>2
    <3>5. \A s \in Toolset : s \in Noted(a, h).open <=>
            (s \in p.open \/ h.sets[s] = "open") /\ h.sets[s] # "closed"
      BY <1>2, <2>1, <3>2
    <3>6. Noted(a, h).rev = h.rev /\ Noted(a, h).tools = p.tools
      BY <2>1, <3>2
    <3>7. Sided(Noted(a, h))
      BY <3>2, <3>3, <2>2 DEF Sided
    <3>8. \A t \in Tool : t \in Noted(a, h).visible => t \in p.visible \/ Naming(h, t)
      BY <3>4 DEF Naming
    <3> QED  BY <3>1, <3>4, <3>5, <3>6, <3>7, <3>8
  <2>4. CASE h.kind # "noted"
    <3>1. Heard(p, h) = a
      BY <2>4 DEF Heard, a
    <3>2. \A t \in Tool : t \in a.visible => t \in p.visible \/ Naming(h, t)
      BY <1>2, <2>1 DEF Naming
    <3>3. Sided(a)
      BY <2>2 DEF Sided
    <3> QED  BY <3>1, <3>2, <3>3, <1>2, <2>1
  <2> QED  BY <2>3, <2>4
<1> QED  BY <1>5, <1>6

(* A change in its turn that names no tool unlisted leaves the host right.  *)
LEMMA ChangeAgrees ==
    ASSUME NEW w, NEW S,
           NEW P, WireOK(w, S, P), w # <<>>, Change(w[1]), Sided(P), S.tools \subseteq Tool,
           Agrees(w, S, P), ~ NamesUnlisted(P, w[1]), PresenceConstants
    PROVE  Agrees(Tail(w), S, Heard(P, w[1]))
<1> DEFINE h == w[1]
           Q == Heard(P, h)
<1>1. /\ Message1(h) /\ P.rev < h.rev
      /\ \A t \in S.tools : Untold(Tail(w), t) /\ Tells(h, t)
           => (h.shows[t] = "shown" <=> t \in S.visible)
      /\ \A s \in Toolset : UntoldSet(Tail(w), s) /\ MentionsSet(h, s)
           => (h.sets[s] = "open" <=> s \in S.open)
      /\ \A t : Untold(Tail(w), t) /\ ~ Mentions(h, t) => Untold(w, t)
      /\ \A s : UntoldSet(Tail(w), s) /\ ~ MentionsSet(h, s) => UntoldSet(w, s)
  BY HeadFacts DEF Change, Statement
<1> HIDE DEF h
<1>2. /\ \A t \in Tool : t \in Q.visible <=>
            \/ t \in P.tools /\ h.shows[t] = "shown"
            \/ t \in P.visible /\ ~ Closes(h, t) /\ ~ (t \in P.tools /\ h.shows[t] = "hidden")
      /\ \A s \in Toolset : s \in Q.open <=> (s \in P.open \/ h.sets[s] = "open")
           /\ h.sets[s] # "closed"
  BY <1>1, HeardIs
<1> HIDE DEF Q
<1>3. Change(h) /\ h.kind # "toolsets" /\ \A t \in Tool : t \notin P.tools
        => h.shows[t] = "same"
  BY DEF Change, NamesUnlisted, h
<1>4. /\ h \in Messages /\ P.visible \subseteq P.tools
      /\ \A t \in Tool : Closes(h, t) => h.shows[t] = "same"
      /\ \A t \in Tool : h.shows[t] \in {"same", "shown", "hidden"}
      /\ \A s \in Toolset : h.sets[s] \in {"same", "open", "closed"}
  BY <1>1 DEF Message1, Messages, Sided
<1>5. ASSUME NEW t \in S.tools, Untold(Tail(w), t) PROVE t \in Q.visible <=> t \in S.visible
  <2>1. t \in Tool
    OBVIOUS
  <2>2. CASE Mentions(h, t)
    <3>1. h.shows[t] = "shown" <=> t \in S.visible
      BY <1>1, <1>5, <2>2 DEF Tells
    <3>2. h.shows[t] # "same" \/ Closes(h, t)
      BY <1>3, <2>2 DEF Mentions
    <3> QED  BY <3>1, <3>2, <2>1, <1>2, <1>3, <1>4
  <2>3. CASE ~ Mentions(h, t)
    <3>1. t \in P.visible <=> t \in S.visible
      BY <1>1, <1>5, <2>3 DEF Agrees, Untold
    <3>2. h.shows[t] = "same" /\ ~ Closes(h, t)
      BY <1>3, <2>3 DEF Mentions
    <3> QED  BY <3>1, <3>2, <2>1, <1>2
  <2> QED  BY <2>2, <2>3
<1>6. ASSUME NEW s \in Toolset, UntoldSet(Tail(w), s) PROVE s \in Q.open <=> s \in S.open
  <2>1. CASE MentionsSet(h, s)
    BY <1>1, <1>2, <1>3, <1>4, <1>6, <2>1 DEF MentionsSet
  <2>2. CASE ~ MentionsSet(h, s)
    <3>1. s \in P.open <=> s \in S.open
      BY <1>1, <1>6, <2>2 DEF Agrees, UntoldSet
    <3> QED  BY <3>1, <2>2, <1>2, <1>3 DEF MentionsSet
  <2> QED  BY <2>1, <2>2
<1> QED  BY <1>5, <1>6 DEF Agrees, Untold, UntoldSet, Q, h

LEMMA AdoptedIs ==
    ASSUME NEW p, Sided(p), NEW h, Message1(h), PresenceConstants
    PROVE  /\ Sided(Adopted(p, h)) /\ Adopted(p, h).tools = p.tools
           /\ Adopted(p, h).rev \in {p.rev, h.rev}
           /\ \A t \in Tool : t \in Adopted(p, h).visible <=> t \in p.tools
                /\ h.shows[t] = "shown"
           /\ \A s \in Toolset : s \in Adopted(p, h).open <=> h.sets[s] = "open"
           /\ p.rev < h.rev => Adopted(p, h).rev = h.rev
<1> DEFINE e == [p EXCEPT !.open = {}, !.visible = {}]
           b == ApplyBody(e, h)
<1>1. p \in Side /\ h \in Messages /\ p.rev \in Nat /\ h.rev \in Nat
  BY DEF Sided, Message1, Side, Messages
<1>2. e \in Side /\ e.rev = p.rev /\ e.tools = p.tools /\ e.open = {} /\ e.visible = {}
  BY <1>1 DEF Side
<1> HIDE DEF e
<1>3. /\ b \in Side /\ b.rev = p.rev /\ b.tools = p.tools
      /\ \A t \in Tool : t \in b.visible <=> t \in p.tools /\ h.shows[t] = "shown"
      /\ \A s \in Toolset : s \in b.open <=> h.sets[s] = "open"
  <2>1. \A s \in Toolset : h.sets[s] = "open" => h.sets[s] # "closed"
    OBVIOUS
  <2> QED  BY <1>1, <1>2, <2>1, BodyIs
<1>4. Adopted(p, h) = [b EXCEPT !.rev = Later(b.rev, h.rev)]
  <2>1. Adopted(p, h) = [b EXCEPT !.rev = Later(@, h.rev)]
    BY DEF Adopted, e
  <2> HIDE DEF b
  <2> QED  BY <2>1, <1>3 DEF Side
<1> HIDE DEF b
<1>5. Later(b.rev, h.rev) \in {p.rev, h.rev} /\ (p.rev < h.rev => Later(b.rev, h.rev) = h.rev)
  BY <1>1, <1>3 DEF Later
<1> DEFINE r == Later(b.rev, h.rev)
<1> HIDE DEF r
<1>6. r \in {p.rev, h.rev} /\ (p.rev < h.rev => r = h.rev)
        /\ Adopted(p, h) = [b EXCEPT !.rev = r]
  BY <1>4, <1>5 DEF r
<1>7. Adopted(p, h) = [rev |-> r, tools |-> b.tools, open |-> b.open, visible |-> b.visible]
  BY <1>3, <1>6 DEF Side
<1>8. b.visible \subseteq p.tools /\ b.visible \subseteq Tool
  BY <1>3 DEF Side
<1>9. Adopted(p, h) \in Side
  BY <1>1, <1>3, <1>6, <1>7 DEF Side
<1> QED  BY <1>3, <1>6, <1>7, <1>8, <1>9 DEF Sided

LEMMA FullAgrees ==
    ASSUME NEW w, NEW S, NEW P, WireOK(w, S, P), w # <<>>, w[1].kind = "toolsets", Sided(P),
           S.tools \subseteq Tool, ~ NamesUnlisted(P, w[1]), PresenceConstants
    PROVE  Agrees(Tail(w), S, Adopted(P, w[1]))
<1>1. /\ Message1(w[1])
      /\ \A t \in S.tools : Untold(Tail(w), t) /\ Tells(w[1], t)
           => (w[1].shows[t] = "shown" <=> t \in S.visible)
      /\ \A s \in Toolset : UntoldSet(Tail(w), s) /\ MentionsSet(w[1], s) =>
            (w[1].sets[s] = "open" <=> s \in S.open)
  BY HeadFacts
<1>2. \A t \in Tool : Tells(w[1], t)
  BY DEF Tells, Mentions
<1>3. \A s \in Toolset : MentionsSet(w[1], s)
  BY DEF MentionsSet
<1>4. \A t \in Tool : w[1].shows[t] = "shown" => t \in P.tools
  BY DEF NamesUnlisted
<1>5. /\ \A t \in Tool : t \in Adopted(P, w[1]).visible <=> t \in P.tools
           /\ w[1].shows[t] = "shown"
      /\ \A s \in Toolset : s \in Adopted(P, w[1]).open <=> w[1].sets[s] = "open"
  BY <1>1, AdoptedIs
<1> QED  BY <1>1, <1>2, <1>3, <1>4, <1>5 DEF Agrees, Untold, UntoldSet

LEMMA ListedIs ==
    ASSUME NEW p, Sided(p), NEW h, Message1(h), h.kind = "tools"
    PROVE  /\ Sided(SetTools(p, h)) /\ SetTools(p, h).tools = h.tools
           /\ SetTools(p, h).rev \in {p.rev, h.rev} /\ SetTools(p, h).open = p.open
           /\ h.rev <= p.rev => SetTools(p, h).rev = p.rev
           /\ \A t \in Tool : t \in SetTools(p, h).visible <=>
                t \in h.tools /\ ((t \in p.visible /\ t \notin Loose) \/ h.shows[t] = "shown")
<1> DEFINE seen == (p.visible \cap (h.tools \ Loose)) \cup {t \in h.tools : h.shows[t] = "shown"}
           r == Later(p.rev, h.rev)
<1>1. /\ p \in Side /\ p.rev \in Nat /\ h.rev \in Nat /\ h.tools \subseteq Tool
      /\ p.open \subseteq Toolset /\ p.visible \subseteq Tool
  BY DEF Sided, Message1, Side, Messages
<1>2. SetTools(p, h) = [rev |-> r, tools |-> h.tools, open |-> p.open, visible |-> seen]
  <2>1. SetTools(p, h) = [p EXCEPT !.tools = h.tools, !.visible = seen, !.rev = r]
    BY DEF SetTools
  <2> HIDE DEF seen, r
  <2> QED  BY <2>1, <1>1 DEF Side
<1>3. r \in {p.rev, h.rev} /\ (h.rev <= p.rev => r = p.rev)
  BY <1>1 DEF Later
<1>4. seen \subseteq h.tools
  OBVIOUS
<1>5. \A t \in Tool : t \in seen <=> t \in h.tools
        /\ ((t \in p.visible /\ t \notin Loose) \/ h.shows[t] = "shown")
  OBVIOUS
<1> HIDE DEF seen, r
<1>6. SetTools(p, h) \in Side
  BY <1>1, <1>2, <1>3, <1>4 DEF Side
<1> QED  BY <1>2, <1>3, <1>4, <1>5, <1>6 DEF Sided

LEMMA ListAgrees ==
    ASSUME NEW w, NEW S, NEW P, WireOK(w, S, P), w # <<>>, w[1].kind = "tools", Sided(P),
           S.tools \subseteq Tool, Agrees(w, S, P)
    PROVE  Agrees(Tail(w), S, SetTools(P, w[1]))
<1> DEFINE h == w[1]
<1>1. /\ Message1(h)
      /\ \A t \in S.tools : Untold(Tail(w), t) /\ Tells(h, t)
           => (h.shows[t] = "shown" <=> t \in S.visible)
      /\ \A t : Untold(Tail(w), t) /\ ~ Mentions(h, t) => Untold(w, t)
      /\ \A s : UntoldSet(Tail(w), s) /\ ~ MentionsSet(h, s) => UntoldSet(w, s)
  BY HeadFacts
<1>2. h.kind = "tools"
  OBVIOUS
<1> HIDE DEF h
<1>3. /\ SetTools(P, h).open = P.open
      /\ \A t \in Tool : t \in SetTools(P, h).visible <=>
            t \in h.tools /\ ((t \in P.visible /\ t \notin Loose) \/ h.shows[t] = "shown")
  BY <1>1, <1>2, ListedIs
<1>4. /\ \A t \in Tool : ~ Mentions(h, t) /\ (Tells(h, t) <=> t \in Loose \/ t \notin h.tools)
      /\ \A s \in Toolset : ~ MentionsSet(h, s)
      /\ \A t \in Tool : h.shows[t] = "shown" => t \in Loose /\ t \in h.tools
  BY <1>1, <1>2 DEF Mentions, MentionsSet, Tells, Change, Message1
<1>5. ASSUME NEW t \in S.tools, Untold(Tail(w), t)
      PROVE  t \in SetTools(P, h).visible <=> t \in S.visible
  <2>1. t \in P.visible <=> t \in S.visible
    BY <1>1, <1>4, <1>5 DEF Agrees, Untold
  <2>2. t \in Loose \/ t \notin h.tools => (h.shows[t] = "shown" <=> t \in S.visible)
    BY <1>1, <1>4, <1>5
  <2> QED  BY <2>1, <2>2, <1>3, <1>4
<1>6. ASSUME NEW s \in Toolset, UntoldSet(Tail(w), s)
      PROVE  s \in SetTools(P, h).open <=> s \in S.open
  BY <1>1, <1>3, <1>4, <1>6 DEF Agrees, UntoldSet
<1> QED  BY <1>5, <1>6 DEF Agrees, Untold, UntoldSet, h

(* Any other message, or one lost, says nothing of what the host has.       *)
LEMMA RestAgrees ==
    ASSUME NEW w, NEW S, NEW P, WireOK(w, S, P), w # <<>>, ~ Statement(w[1]), Agrees(w, S, P)
    PROVE  Agrees(Tail(w), S, P)
<1>1. /\ \A t : Untold(Tail(w), t) /\ ~ Mentions(w[1], t) => Untold(w, t)
      /\ \A s : UntoldSet(Tail(w), s) /\ ~ MentionsSet(w[1], s) => UntoldSet(w, s)
  BY HeadFacts
<1>2. (\A t : ~ Mentions(w[1], t)) /\ (\A s : ~ MentionsSet(w[1], s))
  BY DEF Mentions, MentionsSet, Change, Statement
<1> QED  BY <1>1, <1>2 DEF Agrees, Untold, UntoldSet

(* A statement lost leaves a gap.                                           *)
LEMMA LostTurn ==
    ASSUME NEW w, NEW S, NEW P, WireOK(w, S, P), w # <<>>, Statement(w[1])
    PROVE  ~ InTurn(Tail(w), S, P.rev, 0)
<1>1. /\ w \in Wires /\ 1 \in 1..Len(w) /\ Tail(w) \in Wires /\ Len(w) \in Nat
  BY Tailed DEF WireOK
<1>2. /\ w[1].rev \in Nat /\ P.rev \in Nat /\ P.rev < w[1].rev /\ InTurn(w, S, w[1].rev, 1)
  BY <1>1 DEF WireOK, Message1, Messages, AllInTurn, Rising
<1>3. InTurn(Tail(w), S, w[1].rev, 0)
  <2>1. 0 \in 0..(Len(w) - 1) /\ 0 + 1 = 1
    BY <1>1
  <2> QED  BY <2>1, <1>1, <1>2, TailTurns
<1> QED  BY <1>1, <1>2, <1>3, OneTurn

-----------------------------------------------------------------------------
(* Messages that no one waits for any more are the same to the host's view. *)
Same(w, v) ==
    /\ w \in Wires /\ v \in Wires /\ Len(v) = Len(w)
    /\ \A i \in 1..Len(w) : /\ v[i].kind = w[i].kind /\ v[i].rev = w[i].rev /\ v[i].sets = w[i].sets
                            /\ v[i].shows = w[i].shows /\ v[i].tools = w[i].tools

LEMMA SameOK ==
    ASSUME NEW w, NEW v, Same(w, v), NEW S, NEW P, WireOK(w, S, P)
    PROVE  WireOK(v, S, P)
<1>1. /\ v \in Wires /\ Len(v) = Len(w) /\ Len(w) \in Nat
      /\ \A i \in 1..Len(w) :
            /\ v[i] \in Messages
            /\ \A t : (Closes(v[i], t) <=> Closes(w[i], t)) /\ (Mentions(v[i], t) <=> Mentions(w[i], t))
                               /\ (Tells(v[i], t) <=> Tells(w[i], t))
                                    /\ (Naming(v[i], t) <=> Naming(w[i], t))
            /\ \A s \in Toolset : MentionsSet(v[i], s) <=> MentionsSet(w[i], s)
            /\ Statement(v[i]) <=> Statement(w[i])
  BY DEF Same, Wires, Closes, Mentions, Tells, Naming, MentionsSet, Statement, Change
<1>2. \A i \in 1..Len(w) : /\ v[i].kind = w[i].kind /\ v[i].rev = w[i].rev /\ v[i].sets = w[i].sets
                           /\ v[i].shows = w[i].shows /\ v[i].tools = w[i].tools
  BY DEF Same
<1>3. ASSUME NEW i \in 1..Len(v) PROVE Message1(v[i])
  <2>1. Message1(w[i]) /\ v[i] \in Messages /\ \A t : Closes(v[i], t) <=> Closes(w[i], t)
    BY <1>1 DEF WireOK
  <2> QED  BY <2>1, <1>1, <1>2 DEF Message1
<1>4. Unheard(v, S, P)
  BY <1>1 DEF WireOK, Unheard
<1>5. Announced(v, S)
  <2> SUFFICES ASSUME NEW t \in Tool \ S.tools, NEW i \in 1..Len(v), Naming(v[i], t)
               PROVE  \E j \in (i + 1)..Len(v) : v[j].kind = "listChanged"
    BY DEF Announced
  <2>1. i \in 1..Len(w) /\ Naming(w[i], t)
    BY <1>1
  <2>2. PICK j \in (i + 1)..Len(w) : w[j].kind = "listChanged"
    BY <2>1 DEF WireOK, Announced
  <2>3. j \in 1..Len(w)
    BY <1>1, <2>1
  <2>4. v[j].kind = "listChanged" /\ j \in (i + 1)..Len(v)
    BY <1>1, <1>2, <2>2, <2>3
  <2> QED  BY <2>4
<1>6. ASSUME NEW i \in 0..Len(w), NEW j \in (i + 1)..Len(w) PROVE j \in 1..Len(w)
  BY <1>1
<1>7. ShowsTrue(v, S)
  <2> SUFFICES ASSUME NEW t \in S.tools, NEW i \in 1..Len(v), Tells(v[i], t),
                      \A j \in (i + 1)..Len(v) : ~ Mentions(v[j], t)
               PROVE  v[i].shows[t] = "shown" <=> t \in S.visible
    BY DEF ShowsTrue
  <2>1. Tells(w[i], t) /\ \A j \in (i + 1)..Len(w) : ~ Mentions(w[j], t)
    <3>1. \A j \in (i + 1)..Len(w) : j \in 1..Len(w)
      BY <1>1, <1>6
    <3> QED  BY <3>1, <1>1
  <2> QED  BY <2>1, <1>1, <1>2 DEF WireOK, ShowsTrue
<1>8. SetsTrue(v, S)
  BY <1>1, <1>2, <1>6 DEF WireOK, SetsTrue
<1>9. AllInTurn(v, S)
  <2> SUFFICES ASSUME NEW i \in 1..Len(v), Statement(v[i]) \/ v[i].kind = "tools"
               PROVE  InTurn(v, S, v[i].rev, i)
    BY DEF AllInTurn
  <2>1. i \in 1..Len(w) /\ i \in 0..Len(w) /\ v[i].rev = w[i].rev /\ v[i].kind = w[i].kind
          /\ (Statement(v[i]) <=> Statement(w[i]))
    BY <1>1, <1>2
  <2>2. InTurn(w, S, w[i].rev, i)
    BY <2>1 DEF WireOK, AllInTurn
  <2>3. \A j \in (i + 1)..Len(w) : j \in 1..Len(w)
    BY <1>6, <2>1
  <2>4. \A j \in (i + 1)..Len(w) : (Statement(v[j]) <=> Statement(w[j])) /\ v[j].rev = w[j].rev
    BY <1>1, <1>2, <2>3
  <2>5. ASSUME NEW j \in (i + 1)..Len(v), Statement(v[j]),
               \A k \in (i + 1)..(j - 1) : ~ Statement(v[k])
        PROVE  v[j].rev = w[i].rev + 1
    <3>1. j \in (i + 1)..Len(w) /\ Statement(w[j]) /\ v[j].rev = w[j].rev
      BY <1>1, <2>4, <2>5
    <3>2. \A k \in (i + 1)..(j - 1) : k \in (i + 1)..Len(w)
      BY <1>1, <2>1, <3>1
    <3>3. \A k \in (i + 1)..(j - 1) : ~ Statement(w[k])
      BY <2>4, <2>5, <3>2
    <3> QED  BY <2>2, <3>1, <3>3 DEF InTurn
  <2>6. (\A j \in (i + 1)..Len(v) : ~ Statement(v[j])) => S.rev = w[i].rev
    BY <1>1, <2>2, <2>4 DEF InTurn
  <2> QED  BY <2>1, <2>5, <2>6 DEF InTurn
<1>10. Rising(v, S, P)
  BY <1>1, <1>2, <1>6 DEF WireOK, Rising
<1> QED  BY <1>1, <1>3, <1>4, <1>5, <1>7, <1>8, <1>9, <1>10 DEF WireOK

-----------------------------------------------------------------------------
(* What the flows wait for: each of one answer, which is still to be given  *)
(* or on the wire, and no other is.                                         *)
Stages == {"no", "tools", "toolsRead", "toolsets", "toolsetsRead"}
Asking == {"tools", "toolsets"}
Asks == [kind : {"tools", "toolsets", "open", "close"}, who : Who]

Awaited(w, fl, as) ==
    /\ \A ask \in as : ask.who \in Flow => fl[ask.who] = ask.kind /\ ask.kind \in Asking
    /\ \A i \in 1..Len(w) : w[i].who \in Flow =>
          /\ fl[w[i].who] \in Asking
          /\ w[i].kind \in {fl[w[i].who], "error"}
          /\ \A ask \in as : ask.who # w[i].who
          /\ \A j \in 1..Len(w) : w[j].who = w[i].who => j = i

LEMMA AwaitedSays ==
    ASSUME NEW w \in Wires, NEW fl, NEW as \in SUBSET Asks, NEW bs,
           NEW m \in Messages, Awaited(w, fl, as),
           \/ m.who \notin Flow /\ bs \subseteq as
           \/ \E a \in as : bs = as \ {a} /\ m.who = a.who /\ m.kind \in {a.kind, "error"}
    PROVE  Awaited(Append(w, m), fl, bs)
<1> DEFINE v == Append(w, m)
           n == Len(w)
<1>1. /\ Len(v) = n + 1 /\ n \in Nat
      /\ \A i \in 1..n : v[i] = w[i]
      /\ v[n + 1] = m
  BY Appended
<1> HIDE DEF v
<1>2. bs \subseteq as
  OBVIOUS
<1>3. m.who \in Flow => /\ fl[m.who] \in Asking /\ m.kind \in {fl[m.who], "error"}
                        /\ \A ask \in bs : ask.who # m.who
                        /\ \A i \in 1..n : w[i].who # m.who
  <2> SUFFICES ASSUME m.who \in Flow
               PROVE  /\ fl[m.who] \in Asking /\ m.kind \in {fl[m.who], "error"}
                      /\ \A ask \in bs : ask.who # m.who
                      /\ \A i \in 1..n : w[i].who # m.who
    OBVIOUS
  <2>1. PICK a \in as : bs = as \ {a} /\ m.who = a.who /\ m.kind \in {a.kind, "error"}
    OBVIOUS
  <2>2. fl[a.who] = a.kind /\ a.kind \in Asking
    BY <2>1 DEF Awaited
  <2>3. ASSUME NEW ask \in bs PROVE ask.who # m.who
    <3> SUFFICES ASSUME ask.who = m.who PROVE FALSE
      OBVIOUS
    <3>1. ask.kind = a.kind /\ ask.who = a.who /\ ask \in Asks /\ a \in Asks
      BY <2>1, <2>2, <2>3 DEF Awaited
    <3>2. ask = a
      BY <3>1 DEF Asks
    <3> QED  BY <3>2, <2>1, <2>3
  <2>4. ASSUME NEW i \in 1..n PROVE w[i].who # m.who
    <3> SUFFICES ASSUME w[i].who = a.who PROVE FALSE
      BY <2>1
    <3>1. w[i].who \in Flow
      BY <2>1
    <3>2. \A ask \in as : ask.who # w[i].who
      BY <3>1 DEF Awaited
    <3> QED  BY <3>2
  <2> QED  BY <2>1, <2>2, <2>3, <2>4
<1>4. \A i \in 1..Len(v) : i \in 1..n \/ i = n + 1
  BY <1>1
<1>5. \A ask \in bs : ask.who \in Flow => fl[ask.who] = ask.kind /\ ask.kind \in Asking
  BY <1>2 DEF Awaited
<1>6. ASSUME NEW i \in 1..Len(v), v[i].who \in Flow
      PROVE  /\ fl[v[i].who] \in Asking /\ v[i].kind \in {fl[v[i].who], "error"}
             /\ \A ask \in bs : ask.who # v[i].who
             /\ \A j \in 1..Len(v) : v[j].who = v[i].who => j = i
  <2>1. CASE i \in 1..n
    <3>1. v[i] = w[i] /\ w[i].who \in Flow
      BY <1>1, <1>6, <2>1
    <3>2. /\ fl[w[i].who] \in Asking /\ w[i].kind \in {fl[w[i].who], "error"}
          /\ \A ask \in as : ask.who # w[i].who
          /\ \A j \in 1..n : w[j].who = w[i].who => j = i
      BY <2>1, <3>1 DEF Awaited
    <3>3. ASSUME NEW j \in 1..Len(v), v[j].who = v[i].who PROVE j = i
      <4>1. CASE j \in 1..n
        BY <1>1, <3>1, <3>2, <3>3, <4>1
      <4>2. CASE j = n + 1
        <5>1. m.who = w[i].who
          BY <1>1, <3>1, <3>3, <4>2
        <5> QED  BY <1>3, <2>1, <3>1, <5>1
      <4> QED  BY <1>4, <4>1, <4>2
    <3> QED  BY <1>2, <3>1, <3>2, <3>3
  <2>2. CASE i = n + 1
    BY <1>1, <1>3, <1>4, <1>6, <2>2
  <2> QED  BY <1>4, <2>1, <2>2
<1> QED  BY <1>5, <1>6 DEF Awaited, v

LEMMA AwaitedRead ==
    ASSUME NEW w \in Wires, w # <<>>, NEW fl, NEW gl, NEW as, Awaited(w, fl, as),
           \A f \in Flow : f # w[1].who => gl[f] = fl[f]
    PROVE  Awaited(Tail(w), gl, as)
<1> DEFINE v == Tail(w)
           n == Len(w)
<1>1. /\ Len(v) = n - 1 /\ n \in Nat /\ n >= 1
      /\ \A i \in 1..(n - 1) : v[i] = w[i + 1]
  BY Tailed
<1> HIDE DEF v
<1>2. 1 \in 1..n /\ \A i \in 1..Len(v) : i + 1 \in 1..n /\ i + 1 # 1 /\ v[i] = w[i + 1]
  BY <1>1
<1>3. ASSUME NEW i \in 1..Len(v), v[i].who \in Flow
      PROVE  /\ v[i].who # w[1].who
             /\ fl[v[i].who] \in Asking /\ v[i].kind \in {fl[v[i].who], "error"}
             /\ \A ask \in as : ask.who # v[i].who
             /\ \A j \in 1..n : w[j].who = w[i + 1].who => j = i + 1
  <2>1. i + 1 \in 1..n /\ i + 1 # 1 /\ v[i] = w[i + 1] /\ w[i + 1].who \in Flow
    BY <1>2, <1>3
  <2>2. /\ fl[w[i + 1].who] \in Asking /\ w[i + 1].kind \in {fl[w[i + 1].who], "error"}
        /\ \A ask \in as : ask.who # w[i + 1].who
        /\ \A j \in 1..n : w[j].who = w[i + 1].who => j = i + 1
    BY <2>1 DEF Awaited
  <2> QED  BY <2>1, <2>2, <1>2
<1>4. ASSUME NEW ask \in as, ask.who \in Flow
      PROVE  gl[ask.who] = ask.kind /\ ask.kind \in Asking
  <2>1. CASE ask.who = w[1].who
    BY <1>2, <1>4, <2>1 DEF Awaited
  <2>2. CASE ask.who # w[1].who
    BY <1>4, <2>2 DEF Awaited
  <2> QED  BY <2>1, <2>2
<1>5. ASSUME NEW i \in 1..Len(v), v[i].who \in Flow
      PROVE  /\ gl[v[i].who] \in Asking /\ v[i].kind \in {gl[v[i].who], "error"}
             /\ \A ask \in as : ask.who # v[i].who
             /\ \A j \in 1..Len(v) : v[j].who = v[i].who => j = i
  <2>1. gl[v[i].who] = fl[v[i].who]
    BY <1>3, <1>5
  <2>2. /\ fl[v[i].who] \in Asking /\ v[i].kind \in {fl[v[i].who], "error"}
        /\ \A ask \in as : ask.who # v[i].who
        /\ \A j \in 1..n : w[j].who = w[i + 1].who => j = i + 1
    BY <1>3, <1>5
  <2>3. ASSUME NEW j \in 1..Len(v), v[j].who = v[i].who PROVE j = i
    <3>1. j + 1 = i + 1
      BY <1>2, <2>2, <2>3
    <3> QED  BY <3>1, <1>1
  <2> QED  BY <2>1, <2>2, <2>3
<1> QED  BY <1>4, <1>5 DEF Awaited, v

(* Flows that wait for nothing go on, and those of F ask.                   *)
WithAsks(as, gl, F) == as \cup {Ask(gl[f], f) : f \in F}

LEMMA AwaitedGoes ==
    ASSUME NEW w, NEW fl, NEW gl, NEW as, NEW F \in SUBSET Flow, Awaited(w, fl, as),
           \A f \in Flow : fl[f] \in Asking => gl[f] = fl[f],
           \A f \in F : fl[f] \notin Asking /\ gl[f] \in Asking
    PROVE  Awaited(w, gl, WithAsks(as, gl, F))
<1> DEFINE bs == WithAsks(as, gl, F)
<1>1. ASSUME NEW ask \in bs PROVE ask \in as \/ (ask.who \in F /\ ask.kind = gl[ask.who])
  <2> SUFFICES ASSUME NEW f \in F, ask = Ask(gl[f], f)
               PROVE  ask.who \in F /\ ask.kind = gl[ask.who]
    BY DEF WithAsks
  <2> QED  BY DEF Ask
<1> HIDE DEF bs
<1>2. \A ask \in bs : ask.who \in Flow => gl[ask.who] = ask.kind /\ ask.kind \in Asking
  BY <1>1 DEF Awaited
<1>3. ASSUME NEW i \in 1..Len(w), w[i].who \in Flow
      PROVE  /\ gl[w[i].who] \in Asking /\ w[i].kind \in {gl[w[i].who], "error"}
             /\ \A ask \in bs : ask.who # w[i].who
             /\ \A j \in 1..Len(w) : w[j].who = w[i].who => j = i
  <2>1. /\ fl[w[i].who] \in Asking /\ gl[w[i].who] = fl[w[i].who] /\ w[i].who \notin F
        /\ w[i].kind \in {fl[w[i].who], "error"}
        /\ \A ask \in as : ask.who # w[i].who
        /\ \A j \in 1..Len(w) : w[j].who = w[i].who => j = i
    BY <1>3 DEF Awaited
  <2> QED  BY <2>1, <1>1
<1> QED  BY <1>2, <1>3 DEF Awaited, bs

Late(m, f) == IF m.who = f THEN [m EXCEPT !.who = "nobody"] ELSE m

LEMMA AwaitedLate ==
    ASSUME NEW w \in Wires, NEW fl, NEW gl, NEW as \in SUBSET Asks,
           NEW f \in Flow, Awaited(w, fl, as),
           \A g \in Flow : g # f => gl[g] = fl[g]
    PROVE  /\ Awaited([i \in DOMAIN w |-> Late(w[i], f)], gl, {Late(ask, f) : ask \in as})
           /\ Same(w, [i \in DOMAIN w |-> Late(w[i], f)])
           /\ {Late(ask, f) : ask \in as} \subseteq Asks
<1> DEFINE v == [i \in DOMAIN w |-> Late(w[i], f)]
           bs == {Late(ask, f) : ask \in as}
<1>1. ASSUME NEW m \in Messages
      PROVE  /\ Late(m, f) \in Messages /\ Late(m, f).who # f
             /\ m.who # f => Late(m, f) = m
             /\ m.who = f => Late(m, f).who = "nobody"
             /\ Late(m, f).kind = m.kind /\ Late(m, f).rev = m.rev /\ Late(m, f).sets = m.sets
             /\ Late(m, f).shows = m.shows /\ Late(m, f).tools = m.tools
  BY DEF Late, Messages, Who, Flow
<1>2. ASSUME NEW ask \in Asks
      PROVE  /\ Late(ask, f) \in Asks /\ Late(ask, f).who # f
             /\ ask.who # f => Late(ask, f) = ask
             /\ ask.who = f => Late(ask, f).who = "nobody"
  BY DEF Late, Asks, Who, Flow
<1>3. DOMAIN w = 1..Len(w) /\ Len(w) \in Nat /\ \A i \in 1..Len(w) : w[i] \in Messages
  BY DEF Wires
<1>4. v \in Wires /\ Len(v) = Len(w) /\ \A i \in 1..Len(w) : v[i] = Late(w[i], f)
  <2>1. v = [i \in 1..Len(w) |-> Late(w[i], f)]
          /\ \A i \in 1..Len(w) : Late(w[i], f) \in Messages
    BY <1>1, <1>3
  <2> QED  BY <2>1, <1>3 DEF Wires
<1> HIDE DEF v
<1>5. Same(w, v)
  BY <1>1, <1>3, <1>4 DEF Same
<1>6. bs \subseteq Asks
  BY <1>2
<1>7. "nobody" \notin Flow
  BY DEF Flow
<1>8. ASSUME NEW b \in bs, b.who \in Flow PROVE b \in as /\ b.who # f
  <2>1. PICK ask \in as : b = Late(ask, f)
    OBVIOUS
  <2> QED  BY <2>1, <1>2, <1>7, <1>8
<1> HIDE DEF bs
<1>9. \A b \in bs : b.who \in Flow => gl[b.who] = b.kind /\ b.kind \in Asking
  BY <1>8 DEF Awaited
<1>10. ASSUME NEW i \in 1..Len(w), v[i].who \in Flow PROVE v[i] = w[i] /\ w[i].who # f
  BY <1>1, <1>3, <1>4, <1>7, <1>10
<1>11. ASSUME NEW i \in 1..Len(v), v[i].who \in Flow
       PROVE  /\ gl[v[i].who] \in Asking /\ v[i].kind \in {gl[v[i].who], "error"}
              /\ \A ask \in bs : ask.who # v[i].who
              /\ \A j \in 1..Len(v) : v[j].who = v[i].who => j = i
  <2>1. i \in 1..Len(w) /\ v[i] = w[i] /\ w[i].who # f /\ w[i].who \in Flow
    BY <1>4, <1>10, <1>11
  <2>2. /\ fl[w[i].who] \in Asking /\ w[i].kind \in {fl[w[i].who], "error"}
        /\ \A ask \in as : ask.who # w[i].who
        /\ \A j \in 1..Len(w) : w[j].who = w[i].who => j = i
    BY <2>1 DEF Awaited
  <2>3. gl[w[i].who] = fl[w[i].who]
    BY <2>1
  <2>4. \A ask \in bs : ask.who # v[i].who
    BY <2>1, <2>2, <1>8
  <2>5. ASSUME NEW j \in 1..Len(v), v[j].who = v[i].who PROVE j = i
    <3>1. j \in 1..Len(w) /\ v[j] = w[j]
      BY <2>1, <2>5, <1>4, <1>10, <1>11
    <3> QED  BY <3>1, <2>1, <2>2, <2>5
  <2> QED  BY <2>1, <2>2, <2>3, <2>4, <2>5
<1> QED  BY <1>5, <1>6, <1>9, <1>11 DEF Awaited, v, bs

-----------------------------------------------------------------------------
(* The invariant.  Missed: a list was not read, or a notice, and nothing    *)
(* read since covers it; Covered and ListCovered: but what is being read    *)
(* will.  UnderDoubt: a recovery is to come or reads, or ignored something. *)
Readers == {"connect", "recovery"}
Missed == stale \/ \E f \in failed : flow[f] # "no"
Covered == \E f \in Readers \ failed : flow[f] = "toolsetsRead"
ListCovered == \E f \in Readers \ failed : flow[f] \in {"toolsRead", "toolsets", "toolsetsRead"}
UnderDoubt == \/ ~ settled \/ timer \/ again["recovery"] \/ ignored
              \/ \E f \in Readers : flow[f] \in {"tools", "toolsRead", "toolsets"}

Typed ==
    /\ server \in Sides /\ server.visible \subseteq server.tools /\ Sided(presence)
    /\ connected \in BOOLEAN /\ settled \in BOOLEAN /\ timer \in BOOLEAN /\ stale \in BOOLEAN
         /\ ignored \in BOOLEAN
    /\ asks \subseteq Asks
    /\ flow \in [Flow -> Stages] /\ again \in [Flow -> BOOLEAN] /\ failed \subseteq Flow
    /\ ~ connected => ~ settled /\ wire = <<>> /\ asks = {} /\ \A f \in Flow : flow[f] = "no"

Pends ==
    /\ timer => flow["recovery"] = "no"
    /\ ~ again["connect"] /\ \A f \in Flow : again[f] => flow[f] # "no"
    /\ flow["refresh"] \notin {"toolsets", "toolsetsRead"}

(* The host is right about what it will not be told, or a gap will show, or *)
(* a recovery is to come, or a list was missed.                             *)
Core ==
    \/ UnderDoubt \/ (Missed /\ ~ Covered)
    \/ ~ InTurn(wire, server, presence.rev, 0)
    \/ Agrees(wire, server, presence)

(* A tool the server lists no more is forgotten: a notice or a list without *)
(* it is still to come.                                                     *)
ListComes(t) ==
    \E f \in Flow : flow[f] = "tools" /\ \A i \in 1..Len(wire) : wire[i].who = f
      => t \notin wire[i].tools
Gone == \A t \in presence.visible \ server.tools :
    \/ ~ settled \/ (Missed /\ ~ ListCovered)
    \/ NoticeOn(wire) \/ again["refresh"] \/ ListComes(t)

PresenceInv ==
    /\ Typed /\ Pends /\ Awaited(wire, flow, asks)
    /\ WireOK(wire, server, presence) /\ Core /\ Gone

LEMMA InvSame ==
    ASSUME PresenceInv, Quiet, ~ ignored
    PROVE  /\ presence.open = server.open /\ presence.visible = server.visible
           /\ presence.visible \subseteq presence.tools /\ server.visible \subseteq server.tools
<1>1. /\ settled /\ ~ timer /\ ~ stale /\ wire = <<>> /\ presence.rev = server.rev
      /\ \A f \in Flow : flow[f] = "no"
  BY DEF Quiet, Running
<1>2. /\ server \in Sides /\ server.visible \subseteq server.tools /\ Sided(presence)
      /\ \A f \in Flow : ~ again[f]
      /\ failed \subseteq Flow
  BY <1>1 DEF PresenceInv, Typed, Pends
<1>3. ~ Missed
  BY <1>1, <1>2 DEF Missed
<1>4. ~ UnderDoubt
  BY <1>1, <1>2 DEF UnderDoubt, Readers, Flow
<1>5. Len(wire) = 0 /\ 1..0 = {}
  BY <1>1
<1>6. InTurn(wire, server, presence.rev, 0)
  BY <1>1, <1>5 DEF InTurn
<1>7. /\ \A t \in server.tools : t \in presence.visible <=> t \in server.visible
      /\ \A s \in Toolset : s \in presence.open <=> s \in server.open
  <2>1. Agrees(wire, server, presence)
    BY <1>3, <1>4, <1>6 DEF PresenceInv, Core
  <2> QED  BY <2>1, <1>5 DEF Agrees
<1>8. ASSUME NEW t \in presence.visible PROVE t \in server.tools
  <2> SUFFICES ASSUME t \notin server.tools PROVE FALSE
    OBVIOUS
  <2>1. NoticeOn(wire) \/ again["refresh"] \/ ListComes(t)
    BY <1>1, <1>3 DEF PresenceInv, Gone
  <2>2. ~ NoticeOn(wire)
    BY <1>5 DEF NoticeOn
  <2>3. ~ ListComes(t)
    BY <1>1 DEF ListComes
  <2> QED  BY <2>1, <2>2, <2>3, <1>2 DEF Flow
<1>9. presence.open \subseteq Toolset /\ server.open \subseteq Toolset
  BY <1>2 DEF Sided, Side, Sides
<1> QED  BY <1>2, <1>7, <1>8, <1>9 DEF Sided

LEMMA InvAgrees == PresenceInv => SettledAgrees
<1> SUFFICES ASSUME PresenceInv, Quiet, ~ ignored PROVE View(presence) = View(server)
  BY DEF SettledAgrees
<1> QED  BY InvSame DEF View, Shown

LEMMA EmptyOK ==
    ASSUME NEW S, NEW P, P.rev \in Nat, P.rev <= S.rev, P.tools \subseteq S.tools \cup S.removed
    PROVE  WireOK(<<>>, S, P)
<1>1. <<>> \in Wires /\ Len(<<>>) = 0 /\ 1..0 = {}
  BY DEF Wires
<1> QED  BY <1>1 DEF WireOK, Unheard, Announced, ShowsTrue, SetsTrue, AllInTurn, Rising

LEMMA InvInit == ASSUME PresenceConstants, Init PROVE PresenceInv
<1>1. /\ wire = <<>> /\ asks = {} /\ ~ settled
           /\ presence = [rev |-> 0, tools |-> {}, open |-> {}, visible |-> {}]
      /\ flow = [f \in Flow |-> "no"] /\ again = [f \in Flow |-> FALSE] /\ ~ timer
  BY DEF Init
<1>2. PICK tools \in SUBSET Tool :
        server = [rev |-> 0, tools |-> tools, open |-> {}, visible |-> {}, removed |-> {}]
  BY DEF Init
<1>3. Typed
  <2>1. server \in Sides /\ server.visible \subseteq server.tools
    BY <1>2 DEF Sides
  <2>2. Sided(presence)
    BY <1>1 DEF Sided, Side
  <2>3. flow \in [Flow -> Stages] /\ again \in [Flow -> BOOLEAN]
          /\ \A f \in Flow : flow[f] = "no"
    BY <1>1 DEF Stages
  <2>4. /\ connected \in BOOLEAN /\ settled \in BOOLEAN /\ timer \in BOOLEAN
             /\ stale \in BOOLEAN
        /\ ignored \in BOOLEAN /\ asks \subseteq Asks /\ failed \subseteq Flow
    BY DEF Init
  <2> QED  BY <1>1, <2>1, <2>2, <2>3, <2>4 DEF Typed
<1>4. Pends
  BY <1>1 DEF Pends, Flow
<1>5. Awaited(wire, flow, asks)
  BY <1>1 DEF Awaited
<1>6. WireOK(wire, server, presence)
  BY <1>1, <1>2, EmptyOK
<1>7. Core /\ Gone
  BY <1>1 DEF Core, UnderDoubt, Gone
<1> QED  BY <1>3, <1>4, <1>5, <1>6, <1>7 DEF PresenceInv

-----------------------------------------------------------------------------
(* The server says m.                                                       *)
LEMMA SaysStep ==
    ASSUME PresenceInv, NEW m, Says(m), Tracks(server, server', m),
           server' \in Sides, server'.visible \subseteq server'.tools,
           UNCHANGED <<connected, settled, host>>,
           \/ m.who \notin Flow /\ asks' \subseteq asks
           \/ \E a \in asks : asks' = asks \ {a} /\ m.who = a.who
                /\ m.kind \in {a.kind, "error"}
    PROVE  PresenceInv'
<1> USE DEF host
<1>1. asks' \subseteq asks
  OBVIOUS
<1>2. /\ m \in Messages /\ wire \in Wires /\ presence.rev \in Nat /\ asks \subseteq Asks
      /\ presence.tools \subseteq server'.tools \cup server'.removed
           /\ presence.rev <= server'.rev
  <2>1. m \in Messages /\ wire \in Wires /\ asks \subseteq Asks
    BY DEF Tracks, Message1, PresenceInv, Typed, WireOK
  <2>2. presence.tools \subseteq server.tools \cup server.removed
    BY DEF PresenceInv, WireOK, Unheard, Typed, Sided, Side
  <2>3. presence.rev \in Nat /\ presence.rev <= server.rev /\ server.rev \in Nat
    BY DEF PresenceInv, WireOK, Rising, Tracks
  <2>4. presence.rev <= server'.rev
    BY <2>3 DEF Tracks
  <2> QED  BY <2>1, <2>2, <2>3, <2>4 DEF Tracks
<1>3. Typed'
  BY <1>1 DEF PresenceInv, Typed, Says
<1>4. Pends'
  BY DEF PresenceInv, Pends
<1>5. CASE ~ connected
  <2>1. wire = <<>> /\ wire' = <<>> /\ ~ settled' /\ asks' = {}
    BY <1>1, <1>5 DEF PresenceInv, Typed, Says
  <2>2. WireOK(wire, server, presence)'
    BY <1>2, <2>1, EmptyOK
  <2>3. Awaited(wire, flow, asks)'
    BY <2>1 DEF Awaited
  <2>4. Core' /\ Gone'
    BY <2>1 DEF Core, UnderDoubt, Gone
  <2> QED  BY <1>3, <1>4, <2>2, <2>3, <2>4 DEF PresenceInv
<1>6. CASE connected
  <2>1. wire' = Append(wire, m)
    BY <1>6 DEF Says
  <2>2. WireOK(wire, server, presence)'
    BY <2>1, AppendOK DEF PresenceInv
  <2>3. Awaited(wire, flow, asks)'
    BY <2>1, <1>2, AwaitedSays DEF PresenceInv
  <2>4. (Missed' <=> Missed) /\ (Covered' <=> Covered) /\ (ListCovered' <=> ListCovered)
          /\ (UnderDoubt' <=> UnderDoubt)
    BY DEF Missed, Covered, ListCovered, UnderDoubt
  <2>5. Core'
    <3>1. InTurn(wire, server, presence.rev, 0)' <=> InTurn(wire, server, presence.rev, 0)
      <4>1. 0 \in 0..Len(wire)
        BY <1>2 DEF Wires
      <4> QED  BY <4>1, <1>2, <2>1, AppendTurns
    <3>2. Agrees(wire, server, presence) => Agrees(wire, server, presence)'
      BY <2>1, AppendAgrees DEF PresenceInv, Typed, Sided
    <3> QED  BY <3>1, <3>2, <2>4 DEF PresenceInv, Core
  <2>6. Gone'
    <3> SUFFICES ASSUME NEW t \in presence.visible, t \notin server'.tools,
                        settled, ~ (Missed /\ ~ ListCovered), ~ again["refresh"]
                 PROVE  NoticeOn(wire') \/ ListComes(t)'
      BY <2>4 DEF Gone
    <3>1. /\ Len(wire') = Len(wire) + 1 /\ Len(wire) \in Nat
          /\ \A i \in 1..Len(wire) : wire'[i] = wire[i]
          /\ wire'[Len(wire) + 1] = m
      BY <1>2, <2>1, Appended
    <3>2. CASE t \in server.tools
      <4>1. m.kind = "listChanged"
        BY <3>2 DEF Tracks
      <4> QED  BY <3>1, <4>1 DEF NoticeOn
    <3>3. CASE t \notin server.tools
      <4>1. NoticeOn(wire) \/ ListComes(t)
        BY <3>3 DEF PresenceInv, Gone
      <4>2. NoticeOn(wire) => NoticeOn(wire')
        BY <3>1 DEF NoticeOn
      <4>3. t \notin m.tools
        BY DEF Tracks, Naming, PresenceInv, Typed, Sided, Side
      <4>4. ASSUME ListComes(t) PROVE ListComes(t)'
        <5>1. PICK f \in Flow : flow[f] = "tools" /\ \A i \in 1..Len(wire) : wire[i].who = f
                     => t \notin wire[i].tools
          BY <4>4 DEF ListComes
        <5>2. \A i \in 1..Len(wire') : wire'[i].who = f => t \notin wire'[i].tools
          BY <3>1, <4>3, <5>1
        <5> QED  BY <5>1, <5>2 DEF ListComes
      <4> QED  BY <4>1, <4>2, <4>4
    <3> QED  BY <3>2, <3>3
  <2> QED  BY <1>3, <1>4, <2>2, <2>3, <2>5, <2>6 DEF PresenceInv
<1>7. connected \in BOOLEAN
  BY DEF PresenceInv, Typed
<1> QED  BY <1>5, <1>6, <1>7

LEMMA ChangeTracks ==
    ASSUME NEW S \in Sides,
           NEW q \in Sides, S.visible \subseteq S.tools, q.visible \subseteq q.tools,
           q.rev = S.rev, q.tools = S.tools, q.removed = S.removed,
           NEW kind \in {"hints", "noted"}, NEW who \in Who,
           NEW sets \in [Toolset -> {"same", "open", "closed"}],
           NEW shows \in [Tool -> {"same", "shown", "hidden"}],
           \A t \in Tool \ S.tools : shows[t] = "same",
           \A t \in Tool : t \notin Loose /\ sets[SetOf[t]] = "closed" => shows[t] = "same",
           \A t \in S.tools : IF shows[t] # "same" \/ (t \notin Loose /\ sets[SetOf[t]] = "closed")
                              THEN shows[t] = "shown" <=> t \in q.visible
                              ELSE t \in q.visible <=> t \in S.visible,
           \A s \in Toolset : IF sets[s] # "same" THEN sets[s] = "open" <=> s \in q.open
                              ELSE s \in q.open <=> s \in S.open
    PROVE  /\ Tracks(S, [q EXCEPT !.rev = @ + 1], Message(kind, who, S.rev + 1, sets, shows, {}))
           /\ [q EXCEPT !.rev = @ + 1] \in Sides
           /\ [q EXCEPT !.rev = @ + 1].visible \subseteq [q EXCEPT !.rev = @ + 1].tools
<1> DEFINE T == [q EXCEPT !.rev = @ + 1]
           m == Message(kind, who, S.rev + 1, sets, shows, {})
<1>1. /\ T \in Sides /\ T.rev = S.rev + 1 /\ T.tools = S.tools /\ T.open = q.open
           /\ T.visible = q.visible
      /\ T.removed = S.removed /\ S.rev \in Nat /\ S.tools \subseteq Tool
  BY DEF Sides
<1>2. /\ m \in Messages /\ m.kind = kind /\ m.who = who /\ m.rev = S.rev + 1 /\ m.sets = sets
      /\ m.shows = shows /\ m.tools = {}
  BY <1>1 DEF Message, Messages, Kinds
<1> HIDE DEF T, m
<1>3. /\ \A t : (Closes(m, t) <=> t \notin Loose /\ sets[SetOf[t]] = "closed")
      /\ \A t : (Mentions(m, t) <=> shows[t] # "same" \/ Closes(m, t))
      /\ \A t : Tells(m, t) <=> Mentions(m, t)
      /\ \A s : MentionsSet(m, s) <=> sets[s] # "same"
      /\ \A t : Naming(m, t) <=> shows[t] # "same"
      /\ Statement(m)
  BY <1>2 DEF Closes, Mentions, Tells, MentionsSet, Naming, Statement, Change
<1>4. Message1(m)
  BY <1>2, <1>3 DEF Message1
<1>5. m.kind # "listChanged" /\ m.kind # "tools"
  BY <1>2
<1>6. \A t \in T.tools : (Tells(m, t) => (m.shows[t] = "shown" <=> t \in T.visible))
                         /\ (~ Mentions(m, t) => (t \in T.visible <=> t \in S.visible))
  BY <1>1, <1>2, <1>3
<1>7. \A s \in Toolset : IF MentionsSet(m, s) THEN m.sets[s] = "open" <=> s \in T.open
                         ELSE s \in T.open <=> s \in S.open
  BY <1>1, <1>2, <1>3
<1>8. Tracks(S, T, m)
  BY <1>1, <1>2, <1>3, <1>4, <1>5, <1>6, <1>7 DEF Tracks
<1> QED  BY <1>1, <1>8 DEF T, m

LEMMA SetIs ==
    ASSUME PresenceConstants, NEW s \in Toolset
    PROVE  /\ \A t \in Tool : t \in ToolsOf(s) <=> SetOf[t] = s
           /\ \A t \in Tool : t \in Loose <=> SetOf[t] = NoToolset
           /\ ToolsOf(s) \cap Loose = {} /\ ToolsOf(s) \subseteq Tool
           /\ \A t \in Tool : t \notin Loose => SetOf[t] \in Toolset
BY DEF PresenceConstants, ToolsOf, Loose

LEMMA OpensTracks ==
    ASSUME PresenceConstants, PresenceInv, NEW s \in Toolset, NEW shown,
           shown \subseteq ToolsOf(s) \cap server.tools, NEW kind \in {"hints", "noted"},
           NEW who \in Who
    PROVE  LET T == [WithOpen(s, shown) EXCEPT !.rev = @ + 1]
           IN  /\ Tracks(server, T, Message(kind, who, server.rev + 1, [NoSets EXCEPT ![s] = "open"],
                                            ShowsFor(s, shown), {}))
               /\ T \in Sides /\ T.visible \subseteq T.tools
<1> DEFINE q == WithOpen(s, shown)
           sets == [NoSets EXCEPT ![s] = "open"]
           shows == ShowsFor(s, shown)
<1>1. server \in Sides /\ server.visible \subseteq server.tools /\ server.tools \subseteq Tool
  BY DEF PresenceInv, Typed, Sides
<1>2. /\ q \in Sides /\ q.rev = server.rev /\ q.tools = server.tools
           /\ q.removed = server.removed
      /\ q.open = server.open \cup {s} /\ q.visible = (server.visible \ ToolsOf(s)) \cup shown
  BY <1>1 DEF WithOpen, Sides
<1>3. /\ sets \in [Toolset -> {"same", "open", "closed"}]
      /\ \A x \in Toolset : sets[x] = IF x = s THEN "open" ELSE "same"
  BY DEF NoSets
<1>4. /\ shows \in [Tool -> {"same", "shown", "hidden"}]
      /\ \A t \in Tool : shows[t] = IF t \notin ToolsOf(s) \cap server.tools THEN "same"
                                    ELSE IF t \in shown THEN "shown" ELSE "hidden"
  BY DEF ShowsFor
<1> HIDE DEF q, sets, shows
<1>5. \A t \in Tool : ~ (t \notin Loose /\ sets[SetOf[t]] = "closed")
  BY <1>3, SetIs
<1>6. \A t \in server.tools : IF shows[t] # "same" \/ (t \notin Loose /\ sets[SetOf[t]] = "closed")
                              THEN shows[t] = "shown" <=> t \in q.visible
                              ELSE t \in q.visible <=> t \in server.visible
  BY <1>1, <1>2, <1>4, <1>5
<1>7. \A x \in Toolset : IF sets[x] # "same" THEN sets[x] = "open" <=> x \in q.open
                         ELSE x \in q.open <=> x \in server.open
  BY <1>2, <1>3
<1>8. q.visible \subseteq q.tools /\ \A t \in Tool \ server.tools : shows[t] = "same"
  BY <1>1, <1>2, <1>4
<1>9. \A t \in Tool : t \notin Loose /\ sets[SetOf[t]] = "closed" => shows[t] = "same"
  BY <1>5
<1>10. /\ Tracks(server, [q EXCEPT !.rev = @ + 1], Message(kind, who, server.rev + 1, sets, shows, {}))
       /\ [q EXCEPT !.rev = @ + 1] \in Sides
       /\ [q EXCEPT !.rev = @ + 1].visible \subseteq [q EXCEPT !.rev = @ + 1].tools
  BY <1>1, <1>2, <1>3, <1>4, <1>6, <1>7, <1>8, <1>9, ChangeTracks
<1> QED  BY <1>10 DEF q, sets, shows

LEMMA ClosesTracks ==
    ASSUME PresenceConstants, PresenceInv, NEW s \in Toolset,
           NEW kind \in {"hints", "noted"}, NEW who \in Who
    PROVE  LET T == [WithClosed(s) EXCEPT !.rev = @ + 1]
           IN  /\ Tracks(server, T, Message(kind, who, server.rev + 1, [NoSets EXCEPT ![s] = "closed"],
                                            NoShows, {}))
               /\ T \in Sides /\ T.visible \subseteq T.tools
<1> DEFINE q == WithClosed(s)
           sets == [NoSets EXCEPT ![s] = "closed"]
<1>1. server \in Sides /\ server.visible \subseteq server.tools /\ server.tools \subseteq Tool
  BY DEF PresenceInv, Typed, Sides
<1>2. /\ q \in Sides /\ q.rev = server.rev /\ q.tools = server.tools
           /\ q.removed = server.removed
      /\ q.open = server.open \ {s} /\ q.visible = server.visible \ ToolsOf(s)
  BY <1>1 DEF WithClosed, Sides
<1>3. /\ sets \in [Toolset -> {"same", "open", "closed"}]
      /\ \A x \in Toolset : sets[x] = IF x = s THEN "closed" ELSE "same"
  BY DEF NoSets
<1>4. /\ NoShows \in [Tool -> {"same", "shown", "hidden"}]
      /\ \A t \in Tool : NoShows[t] = "same"
  BY DEF NoShows
<1> HIDE DEF q, sets
<1>5. \A t \in Tool : t \notin Loose /\ sets[SetOf[t]] = "closed" <=> t \in ToolsOf(s)
  BY <1>3, SetIs
<1>6. \A t \in server.tools : IF NoShows[t] # "same" \/ (t \notin Loose /\ sets[SetOf[t]] = "closed")
                              THEN NoShows[t] = "shown" <=> t \in q.visible
                              ELSE t \in q.visible <=> t \in server.visible
  BY <1>1, <1>2, <1>4, <1>5
<1>7. \A x \in Toolset : IF sets[x] # "same" THEN sets[x] = "open" <=> x \in q.open
                         ELSE x \in q.open <=> x \in server.open
  BY <1>2, <1>3
<1>8. q.visible \subseteq q.tools
  BY <1>1, <1>2
<1>9. \A t \in Tool : t \notin Loose /\ sets[SetOf[t]] = "closed" => NoShows[t] = "same"
  BY <1>4
<1>10. /\ Tracks(server, [q EXCEPT !.rev = @ + 1], Message(kind, who, server.rev + 1, sets, NoShows, {}))
       /\ [q EXCEPT !.rev = @ + 1] \in Sides
       /\ [q EXCEPT !.rev = @ + 1].visible \subseteq [q EXCEPT !.rev = @ + 1].tools
  BY <1>1, <1>2, <1>3, <1>4, <1>6, <1>7, <1>8, <1>9, ChangeTracks
<1> QED  BY <1>10 DEF q, sets

LEMMA ShowsTracks ==
    ASSUME PresenceConstants, PresenceInv, NEW t \in server.tools, NEW q,
           \/ q = [server EXCEPT !.visible = @ \cup {t}]
           \/ q = [server EXCEPT !.visible = @ \ {t}]
    PROVE  LET T == [q EXCEPT !.rev = @ + 1]
               word == IF t \in q.visible THEN "shown" ELSE "hidden"
           IN  /\ Tracks(server, T, Message("hints", "nobody", server.rev + 1, NoSets,
                                            [NoShows EXCEPT ![t] = word], {}))
               /\ T \in Sides /\ T.visible \subseteq T.tools
<1> DEFINE word == IF t \in q.visible THEN "shown" ELSE "hidden"
           shows == [NoShows EXCEPT ![t] = word]
<1>1. server \in Sides /\ server.visible \subseteq server.tools /\ server.tools \subseteq Tool
  BY DEF PresenceInv, Typed, Sides
<1>2. /\ q \in Sides /\ q.rev = server.rev /\ q.tools = server.tools
           /\ q.removed = server.removed
      /\ q.open = server.open /\ q.visible \subseteq q.tools
      /\ \A x \in Tool : x # t => (x \in q.visible <=> x \in server.visible)
  BY <1>1 DEF Sides
<1>3. /\ NoSets \in [Toolset -> {"same", "open", "closed"}]
      /\ \A x \in Toolset : NoSets[x] = "same"
  BY DEF NoSets
<1>4. /\ shows \in [Tool -> {"same", "shown", "hidden"}]
      /\ \A x \in Tool : shows[x] = IF x = t THEN word ELSE "same"
  BY <1>1 DEF NoShows
<1>5. word # "same" /\ (word = "shown" <=> t \in q.visible)
  OBVIOUS
<1> HIDE DEF shows, word
<1>6. \A x \in Tool : ~ (x \notin Loose /\ NoSets[SetOf[x]] = "closed")
  BY <1>3 DEF PresenceConstants, Loose, ToolsOf
<1>7. \A x \in server.tools : IF shows[x] # "same" \/ (x \notin Loose /\ NoSets[SetOf[x]] = "closed")
                              THEN shows[x] = "shown" <=> x \in q.visible
                              ELSE x \in q.visible <=> x \in server.visible
  BY <1>1, <1>2, <1>4, <1>5, <1>6
<1>8. "nobody" \in Who
  BY DEF Who
<1>9. \A x \in Tool : x \notin Loose /\ NoSets[SetOf[x]] = "closed" => shows[x] = "same"
  BY <1>6
<1>10. /\ Tracks(server, [q EXCEPT !.rev = @ + 1],
                 Message("hints", "nobody", server.rev + 1, NoSets, shows, {}))
       /\ [q EXCEPT !.rev = @ + 1] \in Sides
       /\ [q EXCEPT !.rev = @ + 1].visible \subseteq [q EXCEPT !.rev = @ + 1].tools
  BY <1>1, <1>2, <1>3, <1>4, <1>7, <1>8, <1>9, ChangeTracks
<1> QED  BY <1>10 DEF shows, word

LEMMA MessageIs ==
    ASSUME NEW kind, NEW who, NEW rev, NEW sets, NEW shows, NEW tools
    PROVE  /\ Message(kind, who, rev, sets, shows, tools).who = who
           /\ Message(kind, who, rev, sets, shows, tools).kind = kind
BY DEF Message

LEMMA StatesStep ==
    ASSUME PresenceInv, NEW sets, NEW shows, NEW next, States(sets, shows, next),
           LET T == [next EXCEPT !.rev = @ + 1]
           IN  /\ Tracks(server, T, Message("hints", "nobody", server.rev + 1, sets, shows, {}))
               /\ T \in Sides /\ T.visible \subseteq T.tools
    PROVE  PresenceInv'
<1> DEFINE m == Message("hints", "nobody", server.rev + 1, sets, shows, {})
<1>1. m.who \notin Flow
  BY MessageIs DEF Flow
<1>2. /\ Says(m) /\ Tracks(server, server', m) /\ server' \in Sides
           /\ server'.visible \subseteq server'.tools
      /\ UNCHANGED <<connected, settled, host>> /\ asks' \subseteq asks
  BY DEF States
<1> HIDE DEF m
<1> QED  BY <1>1, <1>2, SaysStep

LEMMA ServerChanges ==
    ASSUME PresenceConstants, PresenceInv,
           \/ \E s \in Toolset, shown \in SUBSET Tool : ServerOpens(s, shown)
           \/ \E s \in Toolset : ServerCloses(s)
           \/ \E t \in Tool : ServerShows(t) \/ ServerHides(t)
    PROVE  PresenceInv'
<1>1. "nobody" \in Who
  BY DEF Who
<1>2. ASSUME NEW s \in Toolset, NEW shown \in SUBSET Tool, ServerOpens(s, shown)
      PROVE  PresenceInv'
  BY <1>1, <1>2, OpensTracks, StatesStep DEF ServerOpens
<1>3. ASSUME NEW s \in Toolset, ServerCloses(s) PROVE PresenceInv'
  BY <1>1, <1>3, ClosesTracks, StatesStep DEF ServerCloses
<1>4. ASSUME NEW t \in Tool, ServerShows(t) PROVE PresenceInv'
  <2> DEFINE q == [server EXCEPT !.visible = @ \cup {t}]
  <2>1. t \in q.visible
    BY DEF PresenceInv, Typed, Sides
  <2>2. t \in server.tools /\ States(NoSets, [NoShows EXCEPT ![t] = "shown"], q)
    BY <1>4 DEF ServerShows
  <2>3. \/ q = [server EXCEPT !.visible = @ \cup {t}]
        \/ q = [server EXCEPT !.visible = @ \ {t}]
    OBVIOUS
  <2> HIDE DEF q
  <2> QED  BY <2>1, <2>2, <2>3, ShowsTracks, StatesStep
<1>5. ASSUME NEW t \in Tool, ServerHides(t) PROVE PresenceInv'
  <2> DEFINE q == [server EXCEPT !.visible = @ \ {t}]
  <2>1. t \notin q.visible
    BY DEF PresenceInv, Typed, Sides
  <2>2. t \in server.tools /\ States(NoSets, [NoShows EXCEPT ![t] = "hidden"], q)
    BY <1>5 DEF ServerHides, PresenceInv, Typed
  <2>3. \/ q = [server EXCEPT !.visible = @ \cup {t}]
        \/ q = [server EXCEPT !.visible = @ \ {t}]
    OBVIOUS
  <2> HIDE DEF q
  <2> QED  BY <2>1, <2>2, <2>3, ShowsTracks, StatesStep
<1> QED  BY <1>2, <1>3, <1>4, <1>5

LEMMA PlainTracks ==
    ASSUME PresenceInv, NEW T \in Sides,
           NEW m \in Messages, m.kind \in {"error", "listChanged"},
           m.tools = {}, \A t \in Tool : m.shows[t] = "same",
           \A s \in Toolset : m.sets[s] = "same", PresenceConstants,
           T.rev = server.rev, T.open = server.open,
           server.tools \cup server.removed \subseteq T.tools \cup T.removed,
           server.tools \subseteq T.tools \/ m.kind = "listChanged",
           \A t \in T.tools : t \in server.tools \/ t \notin server.removed,
           T.visible = server.visible \cap T.tools
    PROVE  Tracks(server, T, m)
<1>1. /\ \A t : ~ Mentions(m, t) /\ ~ Tells(m, t)
      /\ \A s : ~ MentionsSet(m, s)
      /\ \A t \in Tool : ~ Naming(m, t)
      /\ ~ Statement(m) /\ m.kind # "tools" /\ m.kind # "toolsets"
  BY DEF Mentions, Tells, MentionsSet, Naming, Statement, Change
<1>2. Message1(m)
  BY <1>1 DEF Message1
<1>3. /\ server.rev \in Nat /\ server.visible \subseteq server.tools /\ T.tools \subseteq Tool
  BY DEF PresenceInv, Typed, Sides
<1> QED  BY <1>1, <1>2, <1>3 DEF Tracks

LEMMA ListsStep ==
    ASSUME PresenceConstants, PresenceInv, NEW tools \in SUBSET Tool, Lists(tools),
           \A t \in tools : t \in server.tools \/ t \notin server.removed
    PROVE  PresenceInv'
<1>1. server \in Sides /\ server.visible \subseteq server.tools
  BY DEF PresenceInv, Typed
<1>2. server' = [server EXCEPT !.tools = tools, !.visible = @ \cap tools,
                               !.removed = @ \cup (server.tools \ tools)]
  BY DEF Lists
<1>3. /\ server' \in Sides /\ server'.rev = server.rev /\ server'.tools = tools
           /\ server'.open = server.open
      /\ server'.visible = server.visible \cap tools
      /\ server'.removed = server.removed \cup (server.tools \ tools)
  BY <1>1, <1>2 DEF Sides
<1>4. /\ Notice \in Messages /\ Notice.kind = "listChanged" /\ Notice.tools = {}
           /\ Notice.who \notin Flow
      /\ \A t \in Tool : Notice.shows[t] = "same"
      /\ \A s \in Toolset : Notice.sets[s] = "same"
  BY DEF Notice, Message, Messages, Kinds, Who, Flow, NoSets, NoShows
<1>5. Tracks(server, server', Notice)
  BY <1>3, <1>4, PlainTracks
<1>6. Says(Notice) /\ UNCHANGED <<connected, settled, host>> /\ asks' \subseteq asks
  BY DEF Lists
<1>7. server'.visible \subseteq server'.tools
  BY <1>3
<1> QED  BY <1>3, <1>4, <1>5, <1>6, <1>7, SaysStep

LEMMA ServerListsStep ==
    ASSUME PresenceConstants, PresenceInv, NEW t \in Tool, ServerLists(t) \/ ServerRemoves(t)
    PROVE  PresenceInv'
<1>1. server.tools \subseteq Tool
  BY DEF PresenceInv, Typed, Sides
<1>2. CASE ServerLists(t)
  <2>1. /\ Lists(server.tools \cup {t}) /\ server.tools \cup {t} \in SUBSET Tool
        /\ \A x \in server.tools \cup {t} : x \in server.tools \/ x \notin server.removed
    BY <1>1, <1>2 DEF ServerLists
  <2> QED  BY <2>1, ListsStep
<1>3. CASE ServerRemoves(t)
  <2>1. /\ Lists(server.tools \ {t}) /\ server.tools \ {t} \in SUBSET Tool
        /\ \A x \in server.tools \ {t} : x \in server.tools \/ x \notin server.removed
    BY <1>1, <1>3 DEF ServerRemoves
  <2> QED  BY <2>1, ListsStep
<1> QED  BY <1>2, <1>3

LEMMA AnswersStep ==
    ASSUME PresenceConstants, PresenceInv, NEW ask \in asks,
           \/ AnswersTools(ask) \/ AnswersToolsets(ask) \/ AnswersError(ask)
           \/ \E s \in Toolset : \/ AnswersClose(ask, s)
                                 \/ \E shown \in SUBSET Tool : AnswersOpen(ask, s, shown)
    PROVE  PresenceInv'
<1>1. /\ server \in Sides /\ server.visible \subseteq server.tools
           /\ server.tools \subseteq Tool
      /\ server.rev \in Nat /\ ask \in Asks /\ ask.who \in Who
      /\ ask.kind \notin Asking => ask.who \notin Flow
  BY DEF PresenceInv, Typed, Sides, Asks, Awaited
<1>2. CASE AnswersTools(ask)
  <2> DEFINE shows == [t \in Tool |-> IF t \in Loose \cap server.visible THEN "shown" ELSE "same"]
             m == Message("tools", ask.who, server.rev, NoSets, shows, server.tools)
  <2>1. /\ Says(m) /\ asks' = asks \ {ask} /\ ask.kind = "tools" /\ server' = server
        /\ UNCHANGED <<connected, settled, host>>
    BY <1>2 DEF AnswersTools, Answers
  <2>2. /\ m \in Messages /\ m.kind = "tools" /\ m.who = ask.who /\ m.rev = server.rev
        /\ m.tools = server.tools /\ m.sets = NoSets /\ m.shows = shows
    BY <1>1 DEF Message, Messages, Kinds, NoSets
  <2>3. \A t \in Tool : m.shows[t] = "shown" <=> t \in Loose \cap server.visible
    BY <2>2
  <2>4. \A t \in Tool : m.shows[t] # "same" => t \in server.visible
    BY <2>2
  <2> HIDE DEF m
  <2>5. Message1(m)
    <3>1. \A t \in Tool : ~ Closes(m, t)
      BY <2>2 DEF Closes, NoSets, PresenceConstants, Loose, ToolsOf
    <3> QED  BY <3>1, <2>2, <2>3, <1>1 DEF Message1
  <2>6. Tracks(server, server', m)
    <3>1. /\ \A t : ~ Mentions(m, t) /\ (Tells(m, t) <=> t \in Loose \/ t \notin server.tools)
          /\ \A s : ~ MentionsSet(m, s)
          /\ ~ Statement(m)
      BY <2>2 DEF Mentions, Tells, MentionsSet, Statement, Change
    <3>2. \A t \in Tool : Naming(m, t) => t \in server.tools
      BY <2>2, <2>4, <1>1 DEF Naming
    <3> QED  BY <3>1, <3>2, <2>1, <2>2, <2>3, <2>5, <1>1 DEF Tracks
  <2> QED  BY <1>1, <2>1, <2>2, <2>6, SaysStep
<1>3. CASE AnswersToolsets(ask)
  <2> DEFINE sets == [s \in Toolset |-> IF s \in server.open THEN "open" ELSE "same"]
             shows == [t \in Tool |-> IF t \in server.visible THEN "shown" ELSE "same"]
             m == Message("toolsets", ask.who, server.rev + 1, sets, shows, {})
  <2>1. /\ Says(m) /\ asks' = asks \ {ask} /\ ask.kind = "toolsets"
        /\ server' = [server EXCEPT !.rev = @ + 1]
        /\ UNCHANGED <<connected, settled, host>>
    BY <1>3 DEF AnswersToolsets, Answers
  <2>2. /\ server' \in Sides /\ server'.rev = server.rev + 1 /\ server'.tools = server.tools
        /\ server'.open = server.open /\ server'.visible = server.visible
             /\ server'.removed = server.removed
    BY <1>1, <2>1 DEF Sides
  <2>3. /\ m \in Messages /\ m.kind = "toolsets" /\ m.who = ask.who /\ m.rev = server.rev + 1
        /\ m.tools = {} /\ m.sets = sets /\ m.shows = shows
    BY <1>1 DEF Message, Messages, Kinds
  <2>4. /\ \A t \in Tool : (m.shows[t] = "shown" <=> t \in server.visible)
             /\ (m.shows[t] # "same" => t \in server.visible)
        /\ \A s \in Toolset : (m.sets[s] = "open" <=> s \in server.open) /\ m.sets[s] # "closed"
    BY <2>3
  <2> HIDE DEF m
  <2>5. Message1(m)
    <3>1. \A t \in Tool : ~ Closes(m, t)
      BY <2>4, SetIs DEF Closes, PresenceConstants, Loose, ToolsOf
    <3> QED  BY <3>1, <2>3, <2>4 DEF Message1
  <2>6. Tracks(server, server', m)
    <3>1. /\ \A t : Mentions(m, t) /\ Tells(m, t)
          /\ \A s : MentionsSet(m, s)
          /\ Statement(m)
      BY <2>3 DEF Mentions, Tells, MentionsSet, Statement
    <3>2. \A t \in Tool : Naming(m, t) => t \in server.tools
      BY <2>3, <2>4, <1>1 DEF Naming
    <3> QED  BY <3>1, <3>2, <2>2, <2>3, <2>4, <2>5, <1>1 DEF Tracks
  <2>7. server'.visible \subseteq server'.tools
    BY <1>1, <2>2
  <2> QED  BY <2>1, <2>2, <2>3, <2>6, <2>7, SaysStep
<1>4. CASE AnswersError(ask)
  <2> DEFINE m == Message("error", ask.who, 0, NoSets, NoShows, {})
  <2>1. /\ Says(m) /\ asks' = asks \ {ask} /\ server' = server
             /\ UNCHANGED <<connected, settled, host>>
    BY <1>4 DEF AnswersError
  <2>2. /\ m \in Messages /\ m.kind = "error" /\ m.who = ask.who /\ m.tools = {}
        /\ \A t \in Tool : m.shows[t] = "same"
        /\ \A s \in Toolset : m.sets[s] = "same"
    BY <1>1 DEF Message, Messages, Kinds, NoSets, NoShows
  <2> HIDE DEF m
  <2>3. Tracks(server, server', m)
    BY <1>1, <2>1, <2>2, PlainTracks
  <2> QED  BY <1>1, <2>1, <2>2, <2>3, SaysStep
<1>5. ASSUME NEW s \in Toolset, AnswersClose(ask, s) PROVE PresenceInv'
  <2> DEFINE T == [WithClosed(s) EXCEPT !.rev = @ + 1]
             m == Message("noted", ask.who, server.rev + 1, [NoSets EXCEPT ![s] = "closed"], NoShows, {})
  <2>1. /\ Says(m) /\ asks' = asks \ {ask} /\ ask.kind = "close" /\ server' = T
        /\ UNCHANGED <<connected, settled, host>>
    BY <1>5 DEF AnswersClose, Answers
  <2>2. Tracks(server, T, m) /\ T \in Sides /\ T.visible \subseteq T.tools
    BY <1>1, ClosesTracks
  <2>3. m.who = ask.who
    BY MessageIs
  <2> HIDE DEF T, m
  <2>4. m.who \notin Flow
    BY <1>1, <2>1, <2>3 DEF Asking
  <2> QED  BY <2>1, <2>2, <2>4, SaysStep
<1>6. ASSUME NEW s \in Toolset, NEW shown \in SUBSET Tool, AnswersOpen(ask, s, shown)
      PROVE  PresenceInv'
  <2> DEFINE T == [WithOpen(s, shown) EXCEPT !.rev = @ + 1]
             m == Message("noted", ask.who, server.rev + 1, [NoSets EXCEPT ![s] = "open"],
                          ShowsFor(s, shown), {})
  <2>1. /\ Says(m) /\ asks' = asks \ {ask} /\ ask.kind = "open" /\ server' = T
        /\ UNCHANGED <<connected, settled, host>>
             /\ shown \subseteq ToolsOf(s) \cap server.tools
    BY <1>6 DEF AnswersOpen, Answers
  <2>2. Tracks(server, T, m) /\ T \in Sides /\ T.visible \subseteq T.tools
    BY <1>1, <2>1, OpensTracks
  <2>3. m.who = ask.who
    BY MessageIs
  <2> HIDE DEF T, m
  <2>4. m.who \notin Flow
    BY <1>1, <2>1, <2>3 DEF Asking
  <2> QED  BY <2>1, <2>2, <2>4, SaysStep
<1> QED  BY <1>2, <1>3, <1>4, <1>5, <1>6

-----------------------------------------------------------------------------
(* The host reads.                                                          *)

LEMMA Up ==
    ASSUME PresenceInv, wire # <<>>
    PROVE  /\ connected /\ wire \in Wires /\ Message1(wire[1]) /\ Head(wire) = wire[1]
           /\ wire[1].rev \in Nat /\ wire[1].tools \subseteq Tool /\ wire[1].who \in Who
           /\ Sided(presence) /\ server.tools \subseteq Tool /\ presence.rev \in Nat
<1>1. wire \in Wires /\ connected \in BOOLEAN /\ (~ connected => wire = <<>>)
  BY DEF PresenceInv, Typed, WireOK
<1>2. Message1(wire[1]) /\ Head(wire) = wire[1]
  BY <1>1, HeadFacts, Tailed DEF PresenceInv
<1> QED  BY <1>1, <1>2 DEF PresenceInv, Typed, Sided, Side, Sides, Message1, Messages

LEMMA ReadHintsStep == ASSUME PresenceConstants, PresenceInv, ReadHints PROVE PresenceInv'
<1> DEFINE h == wire[1]
<1>1. /\ wire # <<>> /\ Head(wire).kind \in {"hints", "noted"} /\ Reads(Head(wire).kind)
      /\ presence' = IF Head(wire).kind = "noted" THEN Noted(Applied(Head(wire)), Head(wire))
                     ELSE Applied(Head(wire))
      /\ ScheduledIf(InDoubt(Head(wire)))
      /\ UNCHANGED <<asks, flow, failed, stale, ignored>>
  BY DEF ReadHints
<1>2. /\ connected /\ wire \in Wires /\ Message1(h) /\ Head(wire) = h /\ h.rev \in Nat
           /\ h.tools \subseteq Tool
      /\ Sided(presence) /\ server.tools \subseteq Tool /\ presence.rev \in Nat
  BY <1>1, Up
<1> HIDE DEF h
<1>3. presence' = Heard(presence, h)
  BY <1>1, <1>2 DEF Heard, AppliedTo, Applied, Behind
<1>4. /\ wire' = Tail(wire)
           /\ UNCHANGED <<server, connected, settled, asks, flow, failed, stale, ignored>>
  BY <1>1 DEF Reads
<1>5. /\ Sided(presence') /\ presence'.tools = presence.tools
           /\ presence'.rev \in {presence.rev, h.rev}
      /\ \A t \in Tool : t \in presence'.visible => t \in presence.visible \/ Naming(h, t)
      /\ presence.rev < h.rev => presence'.rev = h.rev
  BY <1>2, <1>3, HeardIs
<1>6. Change(h) /\ Statement(h) /\ h.kind # "listChanged"
  BY <1>1, <1>2 DEF Change, Statement
<1>7. /\ timer' = (timer \/ (InDoubt(h) /\ flow["recovery"] = "no"))
      /\ again' = [again EXCEPT !["recovery"] = @ \/ (InDoubt(h) /\ flow["recovery"] # "no")]
  BY <1>1, <1>2 DEF ScheduledIf
<1>8. again \in [Flow -> BOOLEAN] /\ "recovery" \in Flow /\ timer \in BOOLEAN
        /\ InDoubt(h) \in BOOLEAN
  BY DEF PresenceInv, Typed, Flow, InDoubt, Skips, NamesUnlisted
<1>9. /\ timer' \in BOOLEAN /\ (timer' <=> timer \/ (InDoubt(h) /\ flow["recovery"] = "no"))
      /\ again' \in [Flow -> BOOLEAN] /\ again'["refresh"] = again["refresh"]
      /\ again'["recovery"] <=> again["recovery"] \/ (InDoubt(h) /\ flow["recovery"] # "no")
      /\ \A f \in Flow : f # "recovery" => again'[f] = again[f]
  <2> HIDE DEF InDoubt
  <2>1. "refresh" \in Flow /\ "refresh" # "recovery"
    BY DEF Flow
  <2> QED  BY <1>7, <1>8, <2>1
<1>10. Typed'
  BY <1>2, <1>4, <1>5, <1>9 DEF PresenceInv, Typed
<1>11. Pends'
  BY <1>4, <1>9 DEF PresenceInv, Pends, Flow
<1>12. Awaited(wire, flow, asks)'
  BY <1>1, <1>2, <1>4, AwaitedRead DEF PresenceInv
<1>13. WireOK(wire, server, presence)'
  BY <1>1, <1>4, <1>5, <1>6, TailOK DEF PresenceInv, h
<1>14. (Missed' <=> Missed) /\ (Covered' <=> Covered) /\ (ListCovered' <=> ListCovered)
         /\ (UnderDoubt => UnderDoubt')
  BY <1>4, <1>9 DEF Missed, Covered, ListCovered, UnderDoubt
<1>15. Core'
  <2>1. CASE InDoubt(h)
    BY <1>9, <2>1 DEF Core, UnderDoubt
  <2>2. CASE ~ InDoubt(h)
    <3>1. h.rev = presence.rev + 1 /\ ~ NamesUnlisted(presence, h)
      BY <2>2 DEF InDoubt, Skips
    <3>2. InTurn(wire, server, presence.rev, 0)
      BY <1>1, <1>2, <1>6, <3>1, HeadTurn DEF h
    <3>3. Agrees(wire, server, presence) => Agrees(wire, server, presence)'
      BY <1>1, <1>2, <1>3, <1>4, <1>6, <3>1, ChangeAgrees DEF PresenceInv, h
    <3> QED  BY <1>14, <3>2, <3>3 DEF PresenceInv, Core
  <2> QED  BY <2>1, <2>2
<1>16. Gone'
  <2> SUFFICES ASSUME NEW t \in presence'.visible, t \notin server.tools,
                      settled, ~ (Missed /\ ~ ListCovered), ~ again["refresh"]
               PROVE  NoticeOn(wire') \/ ListComes(t)'
    BY <1>4, <1>9, <1>14 DEF Gone
  <2>1. t \in Tool
    BY <1>5 DEF Sided, Side
  <2>2. CASE Naming(h, t)
    BY <1>1, <1>4, <2>1, <2>2, HeadFacts DEF PresenceInv, h
  <2>3. CASE t \in presence.visible
    <3>1. NoticeOn(wire) \/ ListComes(t)
      BY <2>3 DEF PresenceInv, Gone
    <3>2. NoticeOn(wire) => NoticeOn(wire')
      BY <1>1, <1>4, <1>6, HeadFacts DEF PresenceInv, h
    <3>3. ListComes(t) => ListComes(t)'
      BY <1>1, <1>2, <1>4, Tailed DEF ListComes
    <3> QED  BY <3>1, <3>2, <3>3
  <2> QED  BY <1>5, <2>1, <2>2, <2>3
<1> QED  BY <1>10, <1>11, <1>12, <1>13, <1>15, <1>16 DEF PresenceInv

(* The flow that waits for the first message, if one does, has its answer.  *)
LEMMA AnsweredIs ==
    ASSUME PresenceInv, wire # <<>>, NEW ok \in BOOLEAN, AnswersFlow(wire[1].who, ok)
    PROVE  /\ flow' \in [Flow -> Stages] /\ failed' \subseteq Flow
           /\ \A f \in Flow : f # wire[1].who => flow'[f] = flow[f]
           /\ wire[1].who \in Flow =>
                /\ flow[wire[1].who] \in Asking
                /\ flow'[wire[1].who] = IF flow[wire[1].who] = "tools" THEN "toolsRead"
                                        ELSE "toolsetsRead"
                /\ wire[1].kind \in {flow[wire[1].who], "error"}
           /\ failed' = IF wire[1].who \in Flow /\ ~ ok THEN failed \cup Running ELSE failed
           /\ \A f \in Flow : flow'[f] = "no" <=> flow[f] = "no"
           /\ flow'["refresh"] \notin {"toolsets", "toolsetsRead"}
<1>1. /\ flow \in [Flow -> Stages] /\ failed \subseteq Flow
           /\ flow["refresh"] \notin {"toolsets", "toolsetsRead"}
  BY DEF PresenceInv, Typed, Pends
<1>2. 1 \in 1..Len(wire)
  BY Tailed DEF PresenceInv, WireOK
<1>3. wire[1].who \in Flow => flow[wire[1].who] \in Asking
        /\ wire[1].kind \in {flow[wire[1].who], "error"}
  BY <1>2 DEF PresenceInv, Awaited
<1>4. /\ flow' = IF wire[1].who \in Flow THEN [flow EXCEPT ![wire[1].who] = Answered[@]] ELSE flow
      /\ failed' = IF wire[1].who \in Flow /\ ~ ok THEN failed \cup Running ELSE failed
  BY DEF AnswersFlow
<1>5. Answered["tools"] = "toolsRead" /\ Answered["toolsets"] = "toolsetsRead"
  BY DEF Answered
<1>6. Running \subseteq Flow
  BY DEF Running
<1> DEFINE who == wire[1].who
<1> HIDE DEF who, Answered
<1>7. CASE who \in Flow
  <2>1. flow' = [flow EXCEPT ![who] = Answered[flow[who]]] /\ flow[who] \in Asking
    BY <1>1, <1>3, <1>4, <1>7 DEF who
  <2>2. Answered[flow[who]] = IF flow[who] = "tools" THEN "toolsRead" ELSE "toolsetsRead"
    BY <1>5, <2>1 DEF Asking
  <2>3. /\ flow' \in [Flow -> Stages]
        /\ \A f \in Flow : f # who => flow'[f] = flow[f]
        /\ flow'[who] = IF flow[who] = "tools" THEN "toolsRead" ELSE "toolsetsRead"
    BY <1>1, <1>7, <2>1, <2>2 DEF Stages
  <2>4. \A f \in Flow : flow'[f] = "no" <=> flow[f] = "no"
    BY <2>1, <2>3 DEF Asking
  <2>5. flow'["refresh"] \notin {"toolsets", "toolsetsRead"}
    <3>1. "refresh" \in Flow
      BY DEF Flow
    <3>2. CASE who = "refresh"
      BY <1>1, <2>1, <2>3, <3>2 DEF Asking
    <3>3. CASE who # "refresh"
      BY <1>1, <2>3, <3>1, <3>3
    <3> QED  BY <3>2, <3>3
  <2>6. failed' \subseteq Flow
    BY <1>1, <1>4, <1>6
  <2> QED  BY <1>3, <1>4, <2>1, <2>3, <2>4, <2>5, <2>6 DEF who
<1>8. CASE who \notin Flow
  BY <1>1, <1>4, <1>8 DEF who
<1> QED  BY <1>7, <1>8

LEMMA ScheduledIs ==
    ASSUME PresenceInv, NEW doubt \in BOOLEAN, ScheduledIf(doubt)
    PROVE  /\ timer' \in BOOLEAN /\ (timer' <=> timer \/ (doubt /\ flow["recovery"] = "no"))
           /\ again' \in [Flow -> BOOLEAN] /\ again'["refresh"] = again["refresh"]
           /\ again'["recovery"] <=> again["recovery"] \/ (doubt /\ flow["recovery"] # "no")
           /\ \A f \in Flow : f # "recovery" => again'[f] = again[f]
<1>1. again \in [Flow -> BOOLEAN] /\ "recovery" \in Flow /\ timer \in BOOLEAN
  BY DEF PresenceInv, Typed, Flow
<1>2. "refresh" \in Flow /\ "refresh" # "recovery"
  BY DEF Flow
<1> QED  BY <1>1, <1>2 DEF ScheduledIf

LEMMA ReadToolListStep == ASSUME PresenceConstants, PresenceInv, ReadToolList PROVE PresenceInv'
<1> DEFINE h == wire[1]
           mine == h.who \in Flow
<1>1. /\ wire # <<>> /\ Head(wire).kind = "tools" /\ wire' = Tail(wire)
      /\ presence' = IF Head(wire).who \in Flow THEN SetTools(presence, Head(wire)) ELSE presence
      /\ ScheduledIf(Head(wire).who \in Flow /\ Head(wire).rev > presence.rev)
      /\ AnswersFlow(Head(wire).who, TRUE)
      /\ UNCHANGED <<server, connected, settled, asks, stale, ignored>>
  BY DEF ReadToolList, Reads
<1>2. /\ connected /\ wire \in Wires /\ Message1(h) /\ Head(wire) = h /\ h.rev \in Nat
           /\ h.tools \subseteq Tool
      /\ Sided(presence) /\ server.tools \subseteq Tool /\ presence.rev \in Nat
  BY <1>1, Up
<1>3. /\ h.kind = "tools" /\ ~ Statement(h)
      /\ presence' = IF mine THEN SetTools(presence, h) ELSE presence
      /\ ScheduledIf(mine /\ h.rev > presence.rev)
      /\ AnswersFlow(h.who, TRUE)
  BY <1>1, <1>2 DEF Statement
<1>4. /\ flow' \in [Flow -> Stages]
      /\ \A f \in Flow : f # h.who => flow'[f] = flow[f]
      /\ mine => flow[h.who] = "tools" /\ flow'[h.who] = "toolsRead"
      /\ failed' = failed
      /\ \A f \in Flow : flow'[f] = "no" <=> flow[f] = "no"
      /\ flow'["refresh"] \notin {"toolsets", "toolsetsRead"}
  <2>1. AnswersFlow(wire[1].who, TRUE) /\ wire[1].kind = "tools"
    BY <1>3
  <2> QED  BY <1>1, <2>1, AnsweredIs
<1>5. /\ timer' \in BOOLEAN
           /\ (timer' <=> timer \/ ((mine /\ h.rev > presence.rev) /\ flow["recovery"] = "no"))
      /\ again' \in [Flow -> BOOLEAN] /\ again'["refresh"] = again["refresh"]
      /\ again'["recovery"] <=> again["recovery"]
           \/ ((mine /\ h.rev > presence.rev) /\ flow["recovery"] # "no")
      /\ \A f \in Flow : f # "recovery" => again'[f] = again[f]
  <2>1. (mine /\ h.rev > presence.rev) \in BOOLEAN
    OBVIOUS
  <2> QED  BY <1>3, <2>1, ScheduledIs
<1>6. /\ Sided(presence')
      /\ presence'.tools \subseteq presence.tools \cup h.tools
           /\ presence'.rev \in {presence.rev, h.rev}
      /\ h.rev <= presence.rev => presence'.rev = presence.rev
      /\ mine => \A t \in Tool : t \in presence'.visible => t \in h.tools
  <2>1. CASE mine
    BY <1>2, <1>3, <2>1, ListedIs
  <2>2. CASE ~ mine
    BY <1>2, <1>3, <2>2
  <2> QED  BY <2>1, <2>2
<1> HIDE DEF h, mine
<1>7. Typed'
  BY <1>1, <1>2, <1>4, <1>5, <1>6 DEF PresenceInv, Typed
<1>8. Pends'
  BY <1>4, <1>5 DEF PresenceInv, Pends, Flow
<1>9. Awaited(wire, flow, asks)'
  BY <1>1, <1>2, <1>4, AwaitedRead DEF PresenceInv, h
<1>10. WireOK(wire, server, presence)'
  BY <1>1, <1>3, <1>6, TailOK DEF PresenceInv, h
<1>11. /\ Missed' <=> Missed
       /\ Covered' <=> Covered
       /\ UnderDoubt => UnderDoubt'
  <2>1. \A f \in Flow : f # h.who \/ (mine /\ flow[f] = "tools" /\ flow'[f] = "toolsRead")
    BY <1>4 DEF mine
  <2>2. Missed' <=> Missed
    BY <1>1, <1>4 DEF Missed, PresenceInv, Typed
  <2>3. Readers \subseteq Flow
    BY DEF Readers, Flow
  <2>4. Covered' <=> Covered
    BY <1>4, <2>1, <2>3 DEF Covered
  <2>5. UnderDoubt => UnderDoubt'
    BY <1>1, <1>4, <1>5, <2>1, <2>3 DEF UnderDoubt
  <2> QED  BY <2>2, <2>4, <2>5
<1>12. Core'
  <2>1. CASE mine /\ h.rev > presence.rev
    BY <1>5, <2>1 DEF Core, UnderDoubt
  <2>2. CASE ~ (mine /\ h.rev > presence.rev)
    <3>1. presence'.rev = presence.rev
      BY <1>2, <1>3, <1>6, <2>2
    <3>2. InTurn(wire, server, presence.rev, 0)' <=> InTurn(wire, server, presence.rev, 0)
      BY <1>1, <1>2, <1>3, <3>1, HeadTurn DEF h
    <3>3. Agrees(wire, server, presence) => Agrees(wire, server, presence)'
      <4>1. CASE mine
        BY <1>1, <1>2, <1>3, <4>1, ListAgrees DEF PresenceInv, h
      <4>2. CASE ~ mine
        BY <1>1, <1>3, <4>2, RestAgrees DEF PresenceInv, h
      <4> QED  BY <4>1, <4>2
    <3> QED  BY <1>11, <3>2, <3>3 DEF PresenceInv, Core
  <2> QED  BY <2>1, <2>2
<1>13. Gone'
  <2>1. CASE mine
    <3> SUFFICES ASSUME NEW t \in presence'.visible, t \notin server.tools PROVE NoticeOn(wire')
      BY <1>1 DEF Gone
    <3>1. t \in Tool /\ Naming(h, t)
      BY <1>6, <2>1 DEF Sided, Side, Naming
    <3> QED  BY <1>1, <3>1, HeadFacts DEF PresenceInv, h
  <2>2. CASE ~ mine
    <3>1. \A f \in Flow : flow'[f] = flow[f]
      BY <1>4, <2>2 DEF mine
    <3>2. ListCovered' <=> ListCovered
      BY <1>4, <3>1 DEF ListCovered, Readers, Flow
    <3>3. NoticeOn(wire) => NoticeOn(wire')
      BY <1>1, <1>3, HeadFacts DEF PresenceInv, h
    <3>4. \A t : ListComes(t) => ListComes(t)'
      BY <1>1, <1>2, <3>1, Tailed DEF ListComes
    <3> QED  BY <1>1, <1>3, <1>5, <1>11, <2>2, <3>2, <3>3, <3>4 DEF PresenceInv, Gone
  <2> QED  BY <2>1, <2>2
<1> QED  BY <1>7, <1>8, <1>9, <1>10, <1>12, <1>13 DEF PresenceInv

LEMMA ReadToolsetListStep == ASSUME PresenceConstants, PresenceInv, ReadToolsetList
                             PROVE  PresenceInv'
<1> DEFINE h == wire[1]
           told == InDoubt(wire[1])
<1>1. /\ wire # <<>> /\ Head(wire).kind = "toolsets" /\ wire' = Tail(wire)
      /\ presence' = Adopted(presence, Head(wire))
      /\ ScheduledIf(flow["recovery"] = "no" /\ InDoubt(Head(wire)))
      /\ AnswersFlow(Head(wire).who, TRUE)
      /\ ignored' = (ignored \/ (flow["recovery"] # "no" /\ InDoubt(Head(wire))))
      /\ UNCHANGED <<server, connected, settled, asks, stale>>
  BY DEF ReadToolsetList, Reads
<1>2. /\ connected /\ wire \in Wires /\ Message1(h) /\ Head(wire) = h /\ h.rev \in Nat
           /\ h.tools \subseteq Tool
      /\ Sided(presence) /\ server.tools \subseteq Tool /\ presence.rev \in Nat
  BY <1>1, Up
<1>3. /\ h.kind = "toolsets" /\ Statement(h)
      /\ presence' = Adopted(presence, h)
      /\ ScheduledIf(flow["recovery"] = "no" /\ told)
      /\ AnswersFlow(h.who, TRUE)
      /\ ignored' = (ignored \/ (flow["recovery"] # "no" /\ told))
  BY <1>1, <1>2 DEF Statement
<1>4. told \in BOOLEAN /\ (~ told => h.rev = presence.rev + 1 /\ ~ NamesUnlisted(presence, h))
  BY DEF InDoubt, Skips, NamesUnlisted
<1> HIDE DEF told
<1>5. /\ flow' \in [Flow -> Stages]
      /\ \A f \in Flow : f # h.who => flow'[f] = flow[f]
      /\ h.who \in Flow => flow[h.who] = "toolsets" /\ flow'[h.who] = "toolsetsRead"
      /\ failed' = failed
      /\ \A f \in Flow : flow'[f] = "no" <=> flow[f] = "no"
      /\ flow'["refresh"] \notin {"toolsets", "toolsetsRead"}
  <2>1. AnswersFlow(wire[1].who, TRUE) /\ wire[1].kind = "toolsets"
    BY <1>3
  <2> QED  BY <1>1, <2>1, AnsweredIs
<1>6. /\ timer' \in BOOLEAN /\ (timer' <=> timer \/ (flow["recovery"] = "no" /\ told))
      /\ again' \in [Flow -> BOOLEAN] /\ again'["refresh"] = again["refresh"]
      /\ \A f \in Flow : again'[f] = again[f]
  <2>1. (flow["recovery"] = "no" /\ told) \in BOOLEAN
    OBVIOUS
  <2>2. again \in [Flow -> BOOLEAN]
    BY DEF PresenceInv, Typed
  <2> DEFINE d == flow["recovery"] = "no" /\ told
  <2>3. d \in BOOLEAN /\ ScheduledIf(d) /\ (d => flow["recovery"] = "no" /\ told)
          /\ (flow["recovery"] = "no" /\ told => d)
    BY <1>3, <2>1
  <2> HIDE DEF d
  <2>4. /\ timer' \in BOOLEAN /\ (timer' <=> timer \/ (d /\ flow["recovery"] = "no"))
        /\ again' \in [Flow -> BOOLEAN] /\ again'["refresh"] = again["refresh"]
        /\ again'["recovery"] <=> again["recovery"] \/ (d /\ flow["recovery"] # "no")
        /\ \A f \in Flow : f # "recovery" => again'[f] = again[f]
    BY <2>3, ScheduledIs
  <2>5. again'["recovery"] = again["recovery"]
    <3>1. "recovery" \in Flow
      BY DEF Flow
    <3>2. again'["recovery"] <=> again["recovery"]
      BY <2>3, <2>4
    <3> QED  BY <2>2, <2>4, <3>1, <3>2
  <2> QED  BY <2>3, <2>4, <2>5
<1>7. /\ Sided(presence') /\ presence'.tools = presence.tools
           /\ presence'.rev \in {presence.rev, h.rev}
      /\ \A t \in Tool : t \in presence'.visible => h.shows[t] = "shown"
  BY <1>2, <1>3, AdoptedIs
<1> HIDE DEF h
<1>8. ignored' \in BOOLEAN
  BY <1>3, <1>4 DEF PresenceInv, Typed
<1>9. Typed'
  BY <1>1, <1>2, <1>5, <1>6, <1>7, <1>8 DEF PresenceInv, Typed
<1>10. Pends'
  BY <1>5, <1>6 DEF PresenceInv, Pends, Flow
<1>11. Awaited(wire, flow, asks)'
  BY <1>1, <1>2, <1>5, AwaitedRead DEF PresenceInv, h
<1>12. WireOK(wire, server, presence)'
  BY <1>1, <1>3, <1>7, TailOK DEF PresenceInv, h
<1>13. Core'
  <2>1. CASE told
    <3>1. timer' \/ ignored'
      BY <1>3, <1>6, <2>1
    <3> QED  BY <3>1 DEF Core, UnderDoubt
  <2>2. CASE ~ told
    <3>1. Agrees(wire, server, presence)'
      BY <1>1, <1>2, <1>3, <1>4, <2>2, FullAgrees DEF PresenceInv, h
    <3> QED  BY <3>1 DEF Core
  <2> QED  BY <2>1, <2>2
<1>14. Gone'
  <2> SUFFICES ASSUME NEW t \in presence'.visible, t \notin server.tools PROVE NoticeOn(wire')
    BY <1>1 DEF Gone
  <2>1. t \in Tool /\ Naming(h, t)
    BY <1>7 DEF Sided, Side, Naming
  <2> QED  BY <1>1, <2>1, HeadFacts DEF PresenceInv, h
<1> QED  BY <1>9, <1>10, <1>11, <1>12, <1>13, <1>14 DEF PresenceInv

LEMMA Amiss ==
    ASSUME failed' = failed \cup Running, NEW f \in Flow, flow[f] # "no", flow'[f] # "no",
           \A g \in Flow : g # f => flow'[g] = flow[g] 
    PROVE  Missed' /\ ~ Covered' /\ ~ ListCovered'
<1>1. f \in failed' /\ \A g \in Flow : flow[g] # "no" => g \in failed'
  BY DEF Running
<1>2. Readers \subseteq Flow
  BY DEF Readers, Flow
<1> QED  BY <1>1, <1>2 DEF Missed, Covered, ListCovered

LEMMA ReadErrorStep == ASSUME PresenceConstants, PresenceInv, ReadError PROVE PresenceInv'
<1> DEFINE h == wire[1]
           mine == h.who \in Flow
<1>1. /\ wire # <<>> /\ Head(wire).kind = "error" /\ wire' = Tail(wire)
      /\ AnswersFlow(Head(wire).who, FALSE)
      /\ UNCHANGED <<server, connected, settled, presence, asks, again, timer, stale, ignored>>
  BY DEF ReadError, Reads
<1>2. /\ connected /\ wire \in Wires /\ Head(wire) = h /\ presence.rev \in Nat
  BY <1>1, Up
<1>3. h.kind = "error" /\ ~ Statement(h) /\ AnswersFlow(h.who, FALSE)
  BY <1>1, <1>2 DEF Statement
<1>4. /\ flow' \in [Flow -> Stages] /\ failed' \subseteq Flow
      /\ \A f \in Flow : f # h.who => flow'[f] = flow[f]
      /\ mine => flow[h.who] \in Asking /\ flow'[h.who] \in {"toolsRead", "toolsetsRead"}
      /\ failed' = IF mine THEN failed \cup Running ELSE failed
      /\ \A f \in Flow : flow'[f] = "no" <=> flow[f] = "no"
      /\ flow'["refresh"] \notin {"toolsets", "toolsetsRead"}
  <2>1. AnswersFlow(wire[1].who, FALSE)
    BY <1>3
  <2> QED  BY <1>1, <2>1, AnsweredIs
<1> HIDE DEF h, mine
<1>5. Typed'
  BY <1>1, <1>2, <1>4 DEF PresenceInv, Typed
<1>6. Pends'
  BY <1>1, <1>4 DEF PresenceInv, Pends, Flow
<1>7. Awaited(wire, flow, asks)'
  BY <1>1, <1>2, <1>4, AwaitedRead DEF PresenceInv, h
<1>8. WireOK(wire, server, presence)'
  BY <1>1, TailOK DEF PresenceInv
<1>9. CASE mine
  <2>1. Missed' /\ ~ Covered' /\ ~ ListCovered'
    <3>1. h.who \in Flow /\ flow[h.who] # "no" /\ flow'[h.who] # "no"
      BY <1>4, <1>9 DEF mine, Asking
    <3> QED  BY <1>4, <1>9, <3>1, Amiss
  <2> QED  BY <1>5, <1>6, <1>7, <1>8, <2>1 DEF PresenceInv, Core, Gone
<1>10. CASE ~ mine
  <2>1. (\A f \in Flow : flow'[f] = flow[f]) /\ failed' = failed
    BY <1>4, <1>10 DEF mine
  <2>2. (Missed' <=> Missed) /\ (Covered' <=> Covered) /\ (ListCovered' <=> ListCovered)
          /\ (UnderDoubt' <=> UnderDoubt)
    <3>1. failed \subseteq Flow
      BY DEF PresenceInv, Typed
    <3>2. Readers \subseteq Flow /\ "recovery" \in Flow
      BY DEF Readers, Flow
    <3> QED  BY <1>1, <2>1, <3>1, <3>2 DEF Missed, Covered, ListCovered, UnderDoubt
  <2>3. InTurn(wire, server, presence.rev, 0)' <=> InTurn(wire, server, presence.rev, 0)
    BY <1>1, <1>2, <1>3, HeadTurn DEF h
  <2>4. Agrees(wire, server, presence) => Agrees(wire, server, presence)'
    BY <1>1, <1>3, RestAgrees DEF PresenceInv, h
  <2>5. Core'
    BY <2>2, <2>3, <2>4 DEF PresenceInv, Core
  <2>6. NoticeOn(wire) => NoticeOn(wire')
    BY <1>1, <1>3, HeadFacts DEF PresenceInv, h
  <2>7. \A t : ListComes(t) => ListComes(t)'
    BY <1>1, <1>2, <2>1, Tailed DEF ListComes
  <2>8. Gone'
    BY <1>1, <2>2, <2>6, <2>7 DEF PresenceInv, Gone
  <2> QED  BY <1>5, <1>6, <1>7, <1>8, <2>5, <2>8 DEF PresenceInv
<1> QED  BY <1>9, <1>10

LEMMA ReadListChangedStep == ASSUME PresenceConstants, PresenceInv, ReadListChanged
                             PROVE  PresenceInv'
<1> DEFINE h == wire[1]
<1>1. /\ wire # <<>> /\ Head(wire).kind = "listChanged" /\ wire' = Tail(wire)
      /\ RefreshIsAsked
      /\ UNCHANGED <<server, connected, settled, presence, timer, stale, ignored>>
  BY DEF ReadListChanged, Reads
<1>2. /\ connected /\ wire \in Wires /\ Head(wire) = h /\ presence.rev \in Nat
  BY <1>1, Up
<1>3. h.kind = "listChanged" /\ ~ Statement(h)
  BY <1>1, <1>2 DEF Statement
<1> HIDE DEF h
<1>4. /\ flow \in [Flow -> Stages] /\ again \in [Flow -> BOOLEAN] /\ failed \subseteq Flow
           /\ asks \subseteq Asks
      /\ "refresh" \in Flow /\ "recovery" \in Flow /\ Readers \subseteq Flow
           /\ "refresh" \notin Readers
      /\ "refresh" # "recovery" /\ "connect" \in Flow /\ "connect" # "refresh"
  BY DEF PresenceInv, Typed, Readers, Flow
<1>5. WireOK(wire, server, presence)'
  BY <1>1, TailOK DEF PresenceInv
<1>6. Awaited(wire', flow, asks)
  BY <1>1, <1>2, AwaitedRead DEF PresenceInv
<1>7. InTurn(wire, server, presence.rev, 0)' <=> InTurn(wire, server, presence.rev, 0)
  BY <1>1, <1>2, <1>3, HeadTurn DEF h
<1>8. Agrees(wire, server, presence) => Agrees(wire, server, presence)'
  BY <1>1, <1>3, RestAgrees DEF PresenceInv, h
<1>9. CASE flow["refresh"] = "no"
  <2>1. /\ flow' = [flow EXCEPT !["refresh"] = "tools"] /\ failed' = failed \ {"refresh"}
        /\ asks' = asks \cup {Ask("tools", "refresh")} /\ again' = again
    BY <1>1, <1>9 DEF RefreshIsAsked, Start
  <2>2. /\ flow' \in [Flow -> Stages] /\ flow'["refresh"] = "tools"
        /\ \A f \in Flow : f # "refresh" => flow'[f] = flow[f]
    BY <1>4, <2>1 DEF Stages
  <2>3. asks' \subseteq Asks
    BY <1>4, <2>1 DEF Ask, Asks, Who
  <2>4. Typed'
    BY <1>1, <1>2, <1>4, <2>1, <2>2, <2>3 DEF PresenceInv, Typed
  <2>5. Pends'
    BY <1>1, <1>4, <2>1, <2>2 DEF PresenceInv, Pends
  <2>6. Awaited(wire, flow, asks)'
    <3>1. WithAsks(asks, flow', {"refresh"}) = asks \cup {Ask("tools", "refresh")}
      BY <2>2 DEF WithAsks
    <3>2. /\ {"refresh"} \in SUBSET Flow
          /\ \A f \in Flow : flow[f] \in Asking => flow'[f] = flow[f]
          /\ \A f \in {"refresh"} : flow[f] \notin Asking /\ flow'[f] \in Asking
      BY <1>4, <1>9, <2>2 DEF Asking
    <3>3. Awaited(wire', flow', WithAsks(asks, flow', {"refresh"}))
      BY <1>6, <3>2, AwaitedGoes
    <3> QED  BY <2>1, <3>1, <3>3
  <2>7. (Missed' <=> Missed) /\ (Covered' <=> Covered) /\ (UnderDoubt' <=> UnderDoubt)
    <3>1. \A f \in failed' : f \in Flow /\ f # "refresh"
      BY <1>4, <2>1
    <3>2. Missed' <=> Missed
      BY <1>1, <1>4, <1>9, <2>1, <2>2, <3>1 DEF Missed
    <3> QED  BY <1>1, <1>4, <2>1, <2>2, <3>2 DEF Covered, UnderDoubt
  <2>8. Core'
    BY <1>7, <1>8, <2>7 DEF PresenceInv, Core
  <2>9. \A t : ListComes(t)'
    <3>1. \A i \in 1..Len(wire') : wire'[i].who # "refresh"
      BY <1>4, <1>6, <1>9 DEF Awaited, Asking
    <3> QED  BY <1>4, <2>2, <3>1 DEF ListComes
  <2> QED  BY <1>5, <2>4, <2>5, <2>6, <2>8, <2>9 DEF PresenceInv, Gone
<1>10. CASE flow["refresh"] # "no"
  <2>1. again' = [again EXCEPT !["refresh"] = TRUE] /\ UNCHANGED <<flow, failed, asks>>
    BY <1>1, <1>10 DEF RefreshIsAsked
  <2>2. /\ again' \in [Flow -> BOOLEAN] /\ again'["refresh"]
        /\ \A f \in Flow : f # "refresh" => again'[f] = again[f]
    BY <1>4, <2>1
  <2>3. Typed'
    BY <1>1, <1>2, <2>1, <2>2 DEF PresenceInv, Typed
  <2>4. Pends'
    BY <1>1, <1>10, <2>1, <2>2 DEF PresenceInv, Pends
  <2>5. (Missed' <=> Missed) /\ (Covered' <=> Covered) /\ (UnderDoubt' <=> UnderDoubt)
    BY <1>1, <1>4, <2>1, <2>2 DEF Missed, Covered, UnderDoubt
  <2>6. Core'
    BY <1>7, <1>8, <2>5 DEF PresenceInv, Core
  <2> QED  BY <1>5, <1>6, <2>1, <2>2, <2>3, <2>4, <2>6 DEF PresenceInv, Gone
<1> QED  BY <1>9, <1>10

LEMMA LoseStep == ASSUME PresenceConstants, PresenceInv, Lose PROVE PresenceInv'
<1> DEFINE h == wire[1]
           notice == h.kind = "listChanged"
<1>1. /\ wire # <<>> /\ wire' = Tail(wire)
      /\ failed' = IF Head(wire).kind = "listChanged" THEN failed \cup Running ELSE failed
      /\ stale' = (stale \/ Head(wire).kind = "listChanged")
      /\ UNCHANGED <<server, presence, connected, settled, asks, flow, again, timer, ignored>>
  BY DEF Lose
<1>2. /\ connected /\ wire \in Wires /\ Head(wire) = h /\ presence.rev \in Nat
  BY <1>1, Up
<1>3. /\ failed' = IF notice THEN failed \cup Running ELSE failed
      /\ stale' = (stale \/ notice)
  BY <1>1, <1>2
<1>4. notice \in BOOLEAN /\ (notice => ~ Statement(h))
  BY DEF Statement
<1>5. failed \subseteq Flow /\ Running \subseteq Flow /\ Readers \subseteq Flow
  BY DEF PresenceInv, Typed, Readers, Running, Flow
<1>6. Typed'
  BY <1>1, <1>2, <1>3, <1>5 DEF PresenceInv, Typed
<1>7. Pends'
  BY <1>1 DEF PresenceInv, Pends
<1>8. Awaited(wire, flow, asks)'
  BY <1>1, <1>2, AwaitedRead DEF PresenceInv
<1>9. WireOK(wire, server, presence)'
  BY <1>1, TailOK DEF PresenceInv
<1>10. CASE notice
  <2>1. Missed' /\ \A f \in Readers : flow[f] # "no" => f \in failed'
    BY <1>3, <1>5, <1>10 DEF Missed, Running
  <2>2. ~ Covered' /\ ~ ListCovered'
    BY <1>1, <2>1 DEF Covered, ListCovered
  <2> QED  BY <1>6, <1>7, <1>8, <1>9, <2>1, <2>2 DEF PresenceInv, Core, Gone
<1>11. CASE ~ notice
  <2>1. UNCHANGED <<failed, stale>>
    <3>1. stale \in BOOLEAN
      BY DEF PresenceInv, Typed
    <3> QED  BY <1>3, <1>11, <3>1
  <2>2. (Missed' <=> Missed) /\ (Covered' <=> Covered) /\ (ListCovered' <=> ListCovered)
          /\ (UnderDoubt' <=> UnderDoubt)
    BY <1>1, <2>1 DEF Missed, Covered, ListCovered, UnderDoubt
  <2>3. Core'
    <3>1. CASE Statement(h)
      BY <1>1, <3>1, LostTurn DEF PresenceInv, Core
    <3>2. CASE ~ Statement(h)
      <4>1. InTurn(wire, server, presence.rev, 0)' <=> InTurn(wire, server, presence.rev, 0)
        BY <1>1, <1>2, <3>2, HeadTurn
      <4>2. Agrees(wire, server, presence) => Agrees(wire, server, presence)'
        BY <1>1, <3>2, RestAgrees DEF PresenceInv
      <4> QED  BY <2>2, <4>1, <4>2 DEF PresenceInv, Core
    <3> QED  BY <3>1, <3>2
  <2>4. NoticeOn(wire) => NoticeOn(wire')
    BY <1>1, <1>11, HeadFacts DEF PresenceInv
  <2>5. \A t : ListComes(t) => ListComes(t)'
    BY <1>1, <1>2, Tailed DEF ListComes
  <2>6. Gone'
    BY <1>1, <2>2, <2>4, <2>5 DEF PresenceInv, Gone
  <2> QED  BY <1>6, <1>7, <1>8, <1>9, <2>3, <2>6 DEF PresenceInv
<1> QED  BY <1>10, <1>11

LEMMA TimesOutStep == ASSUME PresenceConstants, PresenceInv, NEW f \in Flow, TimesOut(f)
                      PROVE  PresenceInv'
<1>1. /\ flow[f] \in Asking
      /\ asks' = {Late(ask, f) : ask \in asks}
      /\ wire' = [i \in DOMAIN wire |-> Late(wire[i], f)]
      /\ flow' = [flow EXCEPT ![f] = Answered[@]]
      /\ failed' = failed \cup Running
      /\ UNCHANGED <<server, presence, connected, settled, again, timer, stale, ignored>>
  BY DEF TimesOut, Late, AnswersFlow, Asking
<1>2. /\ flow \in [Flow -> Stages] /\ failed \subseteq Flow /\ Running \subseteq Flow
           /\ asks \subseteq Asks
      /\ wire \in Wires /\ flow["refresh"] \notin {"toolsets", "toolsetsRead"}
           /\ "refresh" \in Flow
  BY DEF PresenceInv, Typed, Running, WireOK, Pends, Flow
<1>3. /\ flow' \in [Flow -> Stages]
           /\ flow'[f] = IF flow[f] = "tools" THEN "toolsRead" ELSE "toolsetsRead"
      /\ \A g \in Flow : g # f => flow'[g] = flow[g]
  <2>1. Answered[flow[f]] = IF flow[f] = "tools" THEN "toolsRead" ELSE "toolsetsRead"
    BY <1>1 DEF Answered, Asking
  <2> QED  BY <1>1, <1>2, <2>1 DEF Stages
<1>4. connected
  BY <1>1 DEF PresenceInv, Typed, Asking
<1>5. Awaited(wire, flow, asks)' /\ Same(wire, wire') /\ asks' \subseteq Asks
  <2>1. /\ Awaited([i \in DOMAIN wire |-> Late(wire[i], f)], flow', {Late(ask, f) : ask \in asks})
        /\ Same(wire, [i \in DOMAIN wire |-> Late(wire[i], f)])
        /\ {Late(ask, f) : ask \in asks} \subseteq Asks
    <3>1. asks \in SUBSET Asks /\ Awaited(wire, flow, asks)
      BY <1>2 DEF PresenceInv
    <3> QED  BY <1>2, <1>3, <3>1, AwaitedLate
  <2> QED  BY <1>1, <2>1
<1>6. Typed'
  BY <1>1, <1>2, <1>3, <1>4, <1>5 DEF PresenceInv, Typed
<1>7. Pends'
  <2>1. \A g \in Flow : flow[g] = "no" => flow'[g] = "no"
    BY <1>1, <1>3 DEF Asking
  <2>2. \A g \in Flow : flow[g] # "no" => flow'[g] # "no"
    BY <1>3
  <2>3. flow'["refresh"] \notin {"toolsets", "toolsetsRead"}
    BY <1>1, <1>2, <1>3 DEF Asking
  <2>4. "recovery" \in Flow
    BY DEF Flow
  <2> QED  BY <1>1, <2>1, <2>2, <2>3, <2>4 DEF PresenceInv, Pends
<1>8. WireOK(wire, server, presence)'
  BY <1>1, <1>5, SameOK DEF PresenceInv
<1>9. Missed' /\ ~ Covered' /\ ~ ListCovered'
  BY <1>1, <1>3, Amiss DEF Asking
<1> QED  BY <1>5, <1>6, <1>7, <1>8, <1>9 DEF PresenceInv, Core, Gone

-----------------------------------------------------------------------------
(* Flows go on; what is on the wire stays.                                  *)

LEMMA StillOK ==
    ASSUME PresenceInv, UNCHANGED <<server, presence, wire>>
    PROVE  WireOK(wire, server, presence)'
BY DEF PresenceInv

LEMMA FlowFacts ==
    ASSUME PresenceInv
    PROVE  /\ flow \in [Flow -> Stages] /\ again \in [Flow -> BOOLEAN] /\ failed \subseteq Flow
           /\ asks \subseteq Asks /\ connected \in BOOLEAN /\ settled \in BOOLEAN
           /\ Readers \subseteq Flow /\ Readers = {"connect", "recovery"}
           /\ "refresh" \in Flow /\ "recovery" \in Flow /\ "connect" \in Flow
           /\ \A f \in Flow : flow[f] # "no" => connected
           /\ \A f \in Flow : flow[f] \notin Asking => \A i \in 1..Len(wire) : wire[i].who # f
BY DEF PresenceInv, Typed, Readers, Flow, Awaited

LEMMA GoesOnStep == ASSUME PresenceConstants, PresenceInv, NEW f \in Flow, GoesOn(f)
                    PROVE  PresenceInv'
<1>1. /\ f # "refresh" /\ flow[f] = "toolsRead"
      /\ flow' = [flow EXCEPT ![f] = "toolsets"] /\ asks' = asks \cup {Ask("toolsets", f)}
      /\ UNCHANGED <<server, presence, connected, settled, wire, again, timer, failed, stale, ignored>>
  BY DEF GoesOn
<1>2. /\ flow' \in [Flow -> Stages] /\ flow'[f] = "toolsets" /\ asks' \subseteq Asks
      /\ \A g \in Flow : g # f => flow'[g] = flow[g]
  BY <1>1, FlowFacts DEF Stages, Ask, Asks, Who
<1>3. connected
  BY <1>1, FlowFacts
<1>4. Typed'
  BY <1>1, <1>2, <1>3 DEF PresenceInv, Typed
<1>5. Pends'
  BY <1>1, <1>2, FlowFacts DEF PresenceInv, Pends
<1>6. Awaited(wire, flow, asks)'
  <2>1. WithAsks(asks, flow', {f}) = asks \cup {Ask("toolsets", f)}
    BY <1>2 DEF WithAsks
  <2>2. /\ {f} \in SUBSET Flow
        /\ \A g \in Flow : flow[g] \in Asking => flow'[g] = flow[g]
        /\ \A g \in {f} : flow[g] \notin Asking /\ flow'[g] \in Asking
    BY <1>1, <1>2 DEF Asking
  <2>3. Awaited(wire, flow', WithAsks(asks, flow', {f}))
    BY <2>2, AwaitedGoes DEF PresenceInv
  <2> QED  BY <1>1, <2>1, <2>3
<1>7. (Missed' <=> Missed) /\ (Covered' <=> Covered) /\ (ListCovered' <=> ListCovered)
        /\ (UnderDoubt' <=> UnderDoubt)
  BY <1>1, <1>2, FlowFacts DEF Missed, Covered, ListCovered, UnderDoubt
<1>8. Core'
  BY <1>1, <1>7 DEF PresenceInv, Core
<1>9. \A t : ListComes(t) => ListComes(t)'
  BY <1>1, <1>2 DEF ListComes
<1>10. Gone'
  BY <1>1, <1>7, <1>9 DEF PresenceInv, Gone
<1> QED  BY <1>1, <1>4, <1>5, <1>6, <1>8, <1>10, StillOK DEF PresenceInv

(* A flow that read both lists ends.                                        *)
LEMMA ReaderEnds ==
    ASSUME PresenceConstants, PresenceInv, NEW f \in Readers,
           flow[f] = "toolsetsRead", flow' = [flow EXCEPT ![f] = "no"],
           stale' = (f \in failed \/ (stale /\ f = "refresh")),
           UNCHANGED <<server, presence, connected, settled, wire, asks, failed, ignored>>,
           timer' \in BOOLEAN, again' \in [Flow -> BOOLEAN],
           again'["refresh"] = again["refresh"],
           timer' => timer \/ f = "recovery",
           \A g \in Flow : again'[g] => again[g] /\ ~ (g = f /\ g = "recovery"),
           timer \/ again["recovery"] => timer' \/ again'["recovery"]
    PROVE  PresenceInv'
<1>1. /\ f \in Flow /\ f # "refresh" /\ flow' \in [Flow -> Stages] /\ flow'[f] = "no"
      /\ \A g \in Flow : g # f => flow'[g] = flow[g]
  BY FlowFacts DEF Stages
<1>2. stale' \in BOOLEAN /\ (stale' <=> f \in failed)
  BY <1>1
<1>3. connected
  BY <1>1, FlowFacts
<1>4. Typed'
  BY <1>1, <1>2, <1>3 DEF PresenceInv, Typed
<1>5. Pends'
  BY <1>1, FlowFacts DEF PresenceInv, Pends
<1>6. Awaited(wire, flow, asks)'
  <2>1. \A g \in Flow : flow[g] \in Asking => flow'[g] = flow[g]
    BY <1>1 DEF Asking
  <2>2. Awaited(wire, flow', WithAsks(asks, flow', {}))
    BY <2>1, AwaitedGoes DEF PresenceInv
  <2>3. WithAsks(asks, flow', {}) = asks
    BY DEF WithAsks
  <2> QED  BY <2>2, <2>3
<1>7. Missed /\ ~ Covered => Missed' /\ ~ Covered'
  BY <1>1, <1>2, FlowFacts DEF Missed, Covered
<1>8. Missed /\ ~ ListCovered => Missed' /\ ~ ListCovered'
  BY <1>1, <1>2, FlowFacts DEF Missed, ListCovered
<1>9. UnderDoubt => UnderDoubt'
  BY <1>1, FlowFacts DEF UnderDoubt
<1>10. Core'
  BY <1>7, <1>9 DEF PresenceInv, Core
<1>11. \A t : ListComes(t) => ListComes(t)'
  BY <1>1 DEF ListComes
<1>12. Gone'
  BY <1>8, <1>11 DEF PresenceInv, Gone
<1> QED  BY <1>4, <1>5, <1>6, <1>10, <1>12, StillOK DEF PresenceInv

LEMMA ConnectEndsStep == ASSUME PresenceConstants, PresenceInv, ConnectEnds PROVE PresenceInv'
<1>1. "connect" \in Readers /\ "connect" # "recovery"
  BY DEF Readers
<1>2. /\ flow["connect"] = "toolsetsRead" /\ flow' = [flow EXCEPT !["connect"] = "no"]
      /\ stale' = ("connect" \in failed \/ (stale /\ "connect" = "refresh"))
      /\ UNCHANGED <<server, presence, connected, settled, wire, asks, again, timer, failed, ignored>>
  BY DEF ConnectEnds, NotesEnd
<1>3. timer \in BOOLEAN /\ again \in [Flow -> BOOLEAN]
  BY DEF PresenceInv, Typed
<1> QED  BY <1>1, <1>2, <1>3, ReaderEnds

LEMMA RecoveryEndsStep == ASSUME PresenceConstants, PresenceInv, RecoveryEnds PROVE PresenceInv'
<1>1. "recovery" \in Readers
  BY DEF Readers
<1>2. /\ flow["recovery"] = "toolsetsRead" /\ flow' = [flow EXCEPT !["recovery"] = "no"]
      /\ timer' = again["recovery"] /\ again' = [again EXCEPT !["recovery"] = FALSE]
      /\ stale' = ("recovery" \in failed \/ (stale /\ "recovery" = "refresh"))
      /\ UNCHANGED <<server, presence, connected, settled, wire, asks, failed, ignored>>
  BY DEF RecoveryEnds, NotesEnd
<1>3. ~ timer /\ again \in [Flow -> BOOLEAN] /\ again["recovery"] \in BOOLEAN
  BY <1>2, FlowFacts DEF PresenceInv, Pends
<1>4. /\ again' \in [Flow -> BOOLEAN] /\ again'["refresh"] = again["refresh"]
      /\ \A g \in Flow : again'[g] => again[g] /\ ~ (g = "recovery" /\ g = "recovery")
  BY <1>2, <1>3, FlowFacts
<1> QED  BY <1>1, <1>2, <1>3, <1>4, ReaderEnds

LEMMA RefreshEndsStep == ASSUME PresenceConstants, PresenceInv, RefreshEnds PROVE PresenceInv'
<1> DEFINE next == IF again["refresh"] THEN "tools" ELSE "no"
<1>1. /\ flow["refresh"] = "toolsRead" /\ again' = [again EXCEPT !["refresh"] = FALSE]
      /\ flow' = [flow EXCEPT !["refresh"] = next]
      /\ failed' = IF again["refresh"] THEN failed \ {"refresh"} ELSE failed
      /\ asks' = IF again["refresh"] THEN asks \cup {Ask("tools", "refresh")} ELSE asks
      /\ stale' = ("refresh" \in failed \/ stale)
      /\ UNCHANGED <<server, presence, connected, settled, wire, timer, ignored>>
  BY DEF RefreshEnds, NotesEnd, Start
<1>2. next \in Stages /\ next \notin {"toolsets", "toolsetsRead"}
        /\ (next # "no" <=> again["refresh"])
  BY DEF Stages
<1> HIDE DEF next
<1>3. "refresh" # "recovery" /\ "refresh" # "connect" /\ stale \in BOOLEAN
  BY DEF PresenceInv, Typed
<1>4. /\ flow' \in [Flow -> Stages] /\ flow'["refresh"] = next
      /\ \A g \in Flow : g # "refresh" => flow'[g] = flow[g]
      /\ again' \in [Flow -> BOOLEAN] /\ ~ again'["refresh"]
      /\ \A g \in Flow : g # "refresh" => again'[g] = again[g]
  BY <1>1, <1>2, FlowFacts
<1>5. asks' \subseteq Asks
  BY <1>1, FlowFacts DEF Ask, Asks, Who
<1>6. connected
  BY <1>1, FlowFacts
<1>7. failed' \subseteq Flow /\ stale' \in BOOLEAN
  BY <1>1, FlowFacts
<1>8. Typed'
  BY <1>1, <1>4, <1>5, <1>6, <1>7 DEF PresenceInv, Typed
<1>9. Pends'
  BY <1>1, <1>2, <1>3, <1>4, FlowFacts DEF PresenceInv, Pends
<1>10. Awaited(wire, flow, asks)'
  <2>1. \A g \in Flow : flow[g] \in Asking => flow'[g] = flow[g]
    BY <1>1, <1>4 DEF Asking
  <2>2. CASE again["refresh"]
    <3>1. flow'["refresh"] = "tools"
      BY <1>4, <2>2 DEF next
    <3>2. WithAsks(asks, flow', {"refresh"}) = asks \cup {Ask("tools", "refresh")}
      BY <3>1 DEF WithAsks
    <3>3. {"refresh"} \in SUBSET Flow /\ \A g \in {"refresh"} : flow[g] \notin Asking
            /\ flow'[g] \in Asking
      BY <1>1, <3>1, FlowFacts DEF Asking
    <3>4. Awaited(wire, flow', WithAsks(asks, flow', {"refresh"}))
      BY <2>1, <3>3, AwaitedGoes DEF PresenceInv
    <3> QED  BY <1>1, <2>2, <3>2, <3>4
  <2>3. CASE ~ again["refresh"]
    <3>1. Awaited(wire, flow', WithAsks(asks, flow', {}))
      BY <2>1, AwaitedGoes DEF PresenceInv
    <3>2. WithAsks(asks, flow', {}) = asks
      BY DEF WithAsks
    <3> QED  BY <1>1, <2>3, <3>1, <3>2
  <2> QED  BY <2>2, <2>3
<1>11. Missed => Missed'
  <2> SUFFICES ASSUME Missed PROVE Missed'
    OBVIOUS
  <2>1. CASE stale
    BY <1>1, <2>1 DEF Missed
  <2>2. CASE ~ stale
    <3>1. PICK f \in failed : flow[f] # "no"
      BY <2>2 DEF Missed
    <3>2. CASE f = "refresh"
      BY <1>1, <3>1, <3>2 DEF Missed
    <3>3. CASE f # "refresh"
      <4>1. f \in failed' /\ flow'[f] # "no"
        BY <1>1, <1>4, <3>1, <3>3, FlowFacts
      <4> QED  BY <4>1 DEF Missed
    <3> QED  BY <3>2, <3>3
  <2> QED  BY <2>1, <2>2
<1>12. (Covered' <=> Covered) /\ (ListCovered' <=> ListCovered) /\ (UnderDoubt' <=> UnderDoubt)
  <2>1. \A f \in Readers : f # "refresh" /\ flow'[f] = flow[f]
          /\ (f \in failed' <=> f \in failed)
    BY <1>1, <1>3, <1>4, FlowFacts
  <2> QED  BY <1>1, <1>3, <1>4, <2>1, FlowFacts DEF Covered, ListCovered, UnderDoubt
<1>13. Core'
  BY <1>1, <1>11, <1>12 DEF PresenceInv, Core
<1>14. ASSUME again["refresh"] PROVE \A t : ListComes(t)'
  <2>1. flow'["refresh"] = "tools" /\ \A i \in 1..Len(wire) : wire[i].who # "refresh"
    BY <1>1, <1>4, <1>14, FlowFacts DEF next, Asking
  <2> QED  BY <1>1, <2>1, FlowFacts DEF ListComes
<1>15. \A t : ListComes(t) => ListComes(t)'
  BY <1>1, <1>4 DEF ListComes
<1>16. Gone'
  BY <1>1, <1>11, <1>12, <1>14, <1>15 DEF PresenceInv, Gone
<1> QED  BY <1>1, <1>8, <1>9, <1>10, <1>13, <1>16, StillOK DEF PresenceInv

LEMMA RecoveryStartsStep == ASSUME PresenceConstants, PresenceInv, RecoveryStarts
                            PROVE  PresenceInv'
<1>1. /\ timer /\ ~ timer' /\ ~ ignored' /\ timer' \in BOOLEAN /\ ignored' \in BOOLEAN
      /\ UNCHANGED <<server, presence, connected, settled, wire, again, stale>>
      /\ flow["recovery"] = "no"
  BY DEF RecoveryStarts, PresenceInv, Pends
<1>2. CASE ~ connected
  <2>1. UNCHANGED <<flow, failed, asks>>
    BY <1>2 DEF RecoveryStarts
  <2>2. Typed' /\ Pends' /\ ~ settled'
    BY <1>1, <1>2, <2>1 DEF PresenceInv, Typed, Pends
  <2>3. Core' /\ Gone'
    BY <2>2 DEF Core, UnderDoubt, Gone
  <2> QED  BY <1>1, <2>1, <2>2, <2>3, StillOK DEF PresenceInv
<1>3. CASE connected
  <2>1. /\ flow' = [flow EXCEPT !["recovery"] = "tools"] /\ failed' = failed \ {"recovery"}
        /\ asks' = asks \cup {Ask("tools", "recovery")}
    BY <1>3 DEF RecoveryStarts, Start
  <2>2. /\ flow' \in [Flow -> Stages] /\ flow'["recovery"] = "tools" /\ asks' \subseteq Asks
        /\ failed' \subseteq Flow
        /\ \A g \in Flow : g # "recovery" => flow'[g] = flow[g]
    BY <2>1, FlowFacts DEF Stages, Ask, Asks, Who
  <2>3. Typed'
    BY <1>1, <1>3, <2>2 DEF PresenceInv, Typed
  <2>4. "refresh" # "recovery"
    OBVIOUS
  <2>5. Pends'
    BY <1>1, <2>2, <2>4, FlowFacts DEF PresenceInv, Pends
  <2>6. Awaited(wire, flow, asks)'
    <3>1. WithAsks(asks, flow', {"recovery"}) = asks \cup {Ask("tools", "recovery")}
      BY <2>2 DEF WithAsks
    <3>2. /\ {"recovery"} \in SUBSET Flow
          /\ \A g \in Flow : flow[g] \in Asking => flow'[g] = flow[g]
          /\ \A g \in {"recovery"} : flow[g] \notin Asking /\ flow'[g] \in Asking
      BY <1>1, <2>2, FlowFacts DEF Asking
    <3>3. Awaited(wire, flow', WithAsks(asks, flow', {"recovery"}))
      BY <3>2, AwaitedGoes DEF PresenceInv
    <3> QED  BY <1>1, <2>1, <3>1, <3>3
  <2>7. Core'
    BY <2>2, FlowFacts DEF Core, UnderDoubt
  <2>8. \A t : ListComes(t)'
    <3>1. \A i \in 1..Len(wire) : wire[i].who # "recovery"
      BY <1>1, FlowFacts DEF Asking
    <3> QED  BY <1>1, <2>2, <3>1, FlowFacts DEF ListComes
  <2> QED  BY <1>1, <2>3, <2>5, <2>6, <2>7, <2>8, StillOK DEF PresenceInv, Gone
<1> QED  BY <1>2, <1>3, FlowFacts

LEMMA AgentAsksStep ==
    ASSUME PresenceConstants, PresenceInv,
           NEW kind \in {"toolsets", "open", "close"}, AgentAsks(kind)
    PROVE  PresenceInv'
<1>1. /\ connected /\ asks' = asks \cup {Ask(kind, "agent")}
      /\ UNCHANGED <<server, connected, settled, wire, presence, flow, again, timer, failed, stale,
                    ignored>>
  BY DEF AgentAsks, host
<1>2. Ask(kind, "agent") \in Asks /\ Ask(kind, "agent").who = "agent" /\ "agent" \notin Flow
  BY DEF Ask, Asks, Who, Flow
<1>3. Typed'
  BY <1>1, <1>2 DEF PresenceInv, Typed
<1>4. Awaited(wire, flow, asks)'
  BY <1>1, <1>2 DEF PresenceInv, Awaited
<1>5. Pends' /\ Core' /\ Gone'
  BY <1>1
     DEF PresenceInv, Pends, Core, Gone, Missed, Covered, ListCovered, UnderDoubt, ListComes
<1> QED  BY <1>1, <1>3, <1>4, <1>5, StillOK DEF PresenceInv

LEMMA ConnectsStep == ASSUME PresenceConstants, PresenceInv, Connects PROVE PresenceInv'
<1>1. /\ ~ connected /\ connected' = TRUE
      /\ server' = [server EXCEPT !.rev = 0] /\ presence' = [presence EXCEPT !.rev = 0]
      /\ UNCHANGED <<settled, wire, asks, flow, again, timer, failed, stale, ignored>>
  BY DEF Connects
<1>2. /\ ~ settled /\ wire = <<>> /\ server \in Sides /\ server.visible \subseteq server.tools
           /\ Sided(presence)
  BY <1>1 DEF PresenceInv, Typed
<1>3. /\ server' \in Sides /\ server'.rev = 0 /\ server'.tools = server.tools
      /\ server'.visible = server.visible /\ server'.removed = server.removed
  BY <1>1, <1>2 DEF Sides
<1>4. Sided(presence') /\ presence'.rev = 0 /\ presence'.tools = presence.tools
  BY <1>1, <1>2 DEF Sided, Side
<1>5. Typed'
  BY <1>1, <1>2, <1>3, <1>4 DEF PresenceInv, Typed
<1>6. presence.tools \subseteq server.tools \cup server.removed
  BY <1>2 DEF PresenceInv, WireOK, Unheard, Sided, Side
<1>7. WireOK(wire, server, presence)'
  <2>1. /\ presence'.rev \in Nat /\ presence'.rev <= server'.rev
        /\ presence'.tools \subseteq server'.tools \cup server'.removed /\ wire' = <<>>
    BY <1>1, <1>2, <1>3, <1>4, <1>6
  <2> QED  BY <2>1, EmptyOK
<1>8. Pends' /\ Awaited(wire, flow, asks)'
  BY <1>1 DEF PresenceInv, Pends
<1>9. Core' /\ Gone'
  BY <1>1, <1>2 DEF Core, UnderDoubt, Gone
<1> QED  BY <1>5, <1>7, <1>8, <1>9 DEF PresenceInv

LEMMA SettlesStep == ASSUME PresenceConstants, PresenceInv, Settles PROVE PresenceInv'
<1> DEFINE idle == flow["refresh"] = "no"
           starts == IF idle THEN {"connect", "refresh"} ELSE {"connect"}
<1>1. /\ connected /\ settled' = TRUE /\ ~ ignored' /\ ignored' \in BOOLEAN
           /\ flow["connect"] = "no"
      /\ flow' = [f \in Flow |-> IF f \in starts THEN "tools" ELSE flow[f]]
      /\ asks' = asks \cup {Ask("tools", f) : f \in starts}
      /\ failed' = failed \ starts
      /\ again' = [again EXCEPT !["refresh"] = @ \/ ~ idle]
      /\ UNCHANGED <<server, presence, connected, wire, timer, stale>>
  BY DEF Settles
<1>2. /\ starts \subseteq Flow /\ \A f \in starts : flow[f] = "no"
      /\ "connect" \in starts /\ "recovery" \notin starts /\ ("refresh" \in starts <=> idle)
  BY <1>1, FlowFacts
<1> HIDE DEF starts, idle
<1>3. /\ flow' \in [Flow -> Stages] /\ failed' \subseteq Flow
      /\ \A f \in Flow : flow'[f] = IF f \in starts THEN "tools" ELSE flow[f]
  BY <1>1, FlowFacts DEF Stages
<1>4. /\ again' \in [Flow -> BOOLEAN]
      /\ again'["refresh"] <=> again["refresh"] \/ ~ idle
      /\ \A f \in Flow : f # "refresh" => again'[f] = again[f]
  BY <1>1, FlowFacts
<1>5. WithAsks(asks, flow', starts) = asks'
  BY <1>1, <1>2, <1>3 DEF WithAsks
<1>6. \A f \in starts : Ask("tools", f) \in Asks
  BY <1>2 DEF Ask, Asks, Who
<1>7. Typed'
  BY <1>1, <1>3, <1>4, <1>6 DEF PresenceInv, Typed
<1>8. "refresh" # "recovery" /\ "refresh" # "connect" /\ (idle <=> flow["refresh"] = "no")
  BY DEF idle
<1>9. Pends'
  BY <1>1, <1>2, <1>3, <1>4, <1>8, FlowFacts DEF PresenceInv, Pends
<1>10. Awaited(wire, flow, asks)'
  <2>1. /\ starts \in SUBSET Flow
        /\ \A g \in Flow : flow[g] \in Asking => flow'[g] = flow[g]
        /\ \A g \in starts : flow[g] \notin Asking /\ flow'[g] \in Asking
    BY <1>2, <1>3 DEF Asking
  <2>2. Awaited(wire, flow', WithAsks(asks, flow', starts))
    BY <2>1, AwaitedGoes DEF PresenceInv
  <2> QED  BY <1>1, <1>5, <2>2
<1>11. flow'["connect"] = "tools"
  BY <1>2, <1>3
<1>12. Core'
  BY <1>11, FlowFacts DEF Core, UnderDoubt
<1>13. \A t : ListComes(t)'
  <2>1. \A i \in 1..Len(wire) : wire[i].who # "connect"
    BY <1>1, FlowFacts DEF Asking
  <2> QED  BY <1>1, <1>11, <2>1, FlowFacts DEF ListComes
<1> QED  BY <1>1, <1>7, <1>9, <1>10, <1>12, <1>13, StillOK DEF PresenceInv, Gone

LEMMA BreaksStep == ASSUME PresenceConstants, PresenceInv, Breaks PROVE PresenceInv'
<1>1. /\ connected' = FALSE /\ settled' = FALSE /\ wire' = <<>> /\ asks' = {}
      /\ flow' = [f \in Flow |-> "no"] /\ failed' = {} /\ stale' = FALSE
      /\ again' = [f \in Flow |-> FALSE] /\ timer' = (timer \/ again["recovery"])
      /\ UNCHANGED <<server, presence, ignored>>
  BY DEF Breaks
<1>2. timer \in BOOLEAN /\ timer' \in BOOLEAN
  BY <1>1 DEF PresenceInv, Typed
<1>3. /\ flow' \in [Flow -> Stages] /\ again' \in [Flow -> BOOLEAN]
      /\ \A f \in Flow : flow'[f] = "no" /\ ~ again'[f]
  BY <1>1 DEF Stages
<1>4. Typed'
  BY <1>1, <1>2, <1>3 DEF PresenceInv, Typed
<1>5. Pends'
  BY <1>3, FlowFacts DEF Pends
<1>6. Awaited(wire, flow, asks)'
  BY <1>1 DEF Awaited
<1>7. WireOK(wire, server, presence)'
  <2>1. presence.tools \subseteq server.tools \cup server.removed
    BY DEF PresenceInv, WireOK, Unheard, Typed, Sided, Side
  <2>2. presence.rev \in Nat /\ presence.rev <= server.rev
    BY DEF PresenceInv, WireOK, Rising
  <2> QED  BY <1>1, <2>1, <2>2, EmptyOK
<1>8. Core' /\ Gone'
  BY <1>1 DEF Core, UnderDoubt, Gone
<1> QED  BY <1>4, <1>5, <1>6, <1>7, <1>8 DEF PresenceInv

LEMMA InvStep == ASSUME PresenceConstants, PresenceInv, [Next]_vars PROVE PresenceInv'
<1>1. CASE \/ \E s \in Toolset, shown \in SUBSET Tool : ServerOpens(s, shown)
           \/ \E s \in Toolset : ServerCloses(s)
           \/ \E t \in Tool : ServerShows(t) \/ ServerHides(t)
  BY <1>1, ServerChanges
<1>2. CASE \E t \in Tool : ServerLists(t) \/ ServerRemoves(t)
  BY <1>2, ServerListsStep
<1>3. CASE \E ask \in asks :
              \/ AnswersTools(ask) \/ AnswersToolsets(ask) \/ AnswersError(ask)
              \/ \E s \in Toolset : \/ AnswersClose(ask, s)
                                    \/ \E shown \in SUBSET Tool : AnswersOpen(ask, s, shown)
  BY <1>3, AnswersStep
<1>4. CASE Lose \/ ReadHints \/ ReadToolList \/ ReadToolsetList \/ ReadError \/ ReadListChanged
  BY <1>4, LoseStep, ReadHintsStep, ReadToolListStep, ReadToolsetListStep, ReadErrorStep,
     ReadListChangedStep
<1>5. CASE \E f \in Flow : TimesOut(f) \/ GoesOn(f)
  BY <1>5, TimesOutStep, GoesOnStep
<1>6. CASE ConnectEnds \/ RecoveryEnds \/ RefreshEnds \/ RecoveryStarts
  BY <1>6, ConnectEndsStep, RecoveryEndsStep, RefreshEndsStep, RecoveryStartsStep
<1>7. CASE \E kind \in {"toolsets", "open", "close"} : AgentAsks(kind)
  BY <1>7, AgentAsksStep
<1>8. CASE Connects \/ Settles \/ Breaks
  BY <1>8, ConnectsStep, SettlesStep, BreaksStep
<1>9. CASE UNCHANGED vars
  <2>1. UNCHANGED <<server, connected, settled, wire, asks, presence, flow, again, timer, failed,
                    stale, ignored>>
    BY <1>9 DEF vars, host
  <2> QED  BY <2>1
              DEF PresenceInv, Typed, Pends, Core, Gone, Missed, Covered, ListCovered,
                  UnderDoubt, ListComes
<1> QED  BY <1>1, <1>2, <1>3, <1>4, <1>5, <1>6, <1>7, <1>8, <1>9 DEF Next

-----------------------------------------------------------------------------
LEMMA InvTypes == PresenceInv => TypeOK
<1> SUFFICES ASSUME PresenceInv PROVE TypeOK
  OBVIOUS
<1>1. Typed /\ presence \in Side
  BY DEF PresenceInv, Typed, Sided
<1>2. ~ connected => wire = <<>> /\ asks = {} /\ Running = {}
  BY <1>1 DEF Typed, Running
<1>3. flow \in [Flow -> {"no", "tools", "toolsRead", "toolsets", "toolsetsRead"}]
  BY <1>1 DEF Typed, Stages
<1> QED  BY <1>1, <1>2, <1>3 DEF TypeOK, Typed

(* However messages are lost, lists fail, connections break, and the server *)
(* and an agent change what is shown meanwhile, a host with nothing left to *)
(* read or to ask, that heard the server's last statement and whose last    *)
(* lists did not fail, shows what the server shows (tool-presence.ts apply, *)
(* setTools, adopt; toolset-host.ts onRead, connected, recover).            *)
THEOREM SettledShowsTheSame == ASSUME PresenceConstants PROVE Spec => []SettledAgrees
<1>1. Init => PresenceInv
  BY InvInit
<1>2. PresenceInv /\ [Next]_vars => PresenceInv'
  BY InvStep
<1>3. PresenceInv => SettledAgrees
  BY InvAgrees
<1> QED  BY <1>1, <1>2, <1>3, PTL DEF Spec
=============================================================================
