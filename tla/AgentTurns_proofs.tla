------------------------- MODULE AgentTurns_proofs -------------------------
(***************************************************************************)
(* Two facts about all of TurnScheduler, proved.                           *)
(*                                                                         *)
(* A wake that arrived is in one place at a time: queued, in the running   *)
(* pass's hands, held, parked, read by a turn, answered or dropped.        *)
(* Reading(w) is the set of parts that read wake w; the lemmas of          *)
(* TurnScheduler_proofs about where parts are serve it as they serve the   *)
(* parts that carry a turn on.                                             *)
(*                                                                         *)
(* The scheduler implements AgentTurns: seen through the wakes each        *)
(* agent's turns have taken and those that wait for one, every step of     *)
(* TurnScheduler begins a turn, settles or gives back wakes, lets one      *)
(* arrive, changes the mode, or shows nothing.  What is seen is argued one *)
(* agent at a time, from the parts asked of it.                            *)
(***************************************************************************)
EXTENDS TurnScheduler_proofs

(* The frames that answer a wake.                                           *)
Answers(f, w) == f.phase # "ending" /\ w \in f.reads
ReadToks(a, w) == {f.tok : f \in {g \in FramesOf(a) : Answers(g, w)}}

(* Whether an agent has the wake somewhere, and only once.                  *)
Here(a, w) ==
    Anywhere(a, Reading(w)) \/ Has(Park(a), Reading(w)) \/ ReadToks(a, w) # {}
Once(a, w) ==
    /\ Loose(a, Reading(w)) /\ Single(Park(a), Reading(w))
    /\ \A t, u \in ReadToks(a, w) : t = u
    /\ Anywhere(a, Reading(w)) => ~Has(Park(a), Reading(w)) /\ ReadToks(a, w) = {}
    /\ Has(Park(a), Reading(w)) => ReadToks(a, w) = {}

(* A wake is with its agent, once, from its arrival until its turn is over  *)
(* or it is dropped.                                                        *)
Conserved(w) ==
    /\ \A a \in Agent : Once(a, w)
    /\ \A a \in Agent : Here(a, w) =>
          a = AgentOf[w] /\ w \in arrived /\ w \notin over /\ w \notin dropped
    /\ w \in arrived => Here(AgentOf[w], w) \/ w \in over \/ w \in dropped
    /\ w \in over \/ w \in dropped => w \in arrived
    /\ ~(w \in over /\ w \in dropped)

(* Where there is no hold nothing is held, where no pass runs nothing is in *)
(* its hands, and a frame that handed its turn on reads nothing.            *)
HoldsIdle == \A a \in Agent : hold[a].kind = "none" => hold[a].held = {}
PassIdle == ~passing => pass = {}
HandedOn(f) == f.phase = "handing" \/ f.stop \in Gone
HandsIdle == \A f \in frames : HandedOn(f) => f.reads = {}
Idle == HoldsIdle /\ PassIdle /\ HandsIdle

WInv == Idle /\ \A w \in Wake : Conserved(w)
CInv == OInv /\ WInv

-----------------------------------------------------------------------------
(* A step that moves a wake, answers it (O) or drops it (D).                *)
LEMMA MovesConserved ==
    ASSUME NEW w \in Wake, Conserved(w), w \in arrived' <=> w \in arrived, NEW O, NEW D,
           over' = over \cup O, dropped' = dropped \cup D, ~(w \in O /\ w \in D),
           \A b \in Agent : Once(b, w)' /\ (Here(b, w)' <=> Here(b, w) /\ w \notin O /\ w \notin D),
           w \in O \/ w \in D => \E b \in Agent : Here(b, w)
    PROVE  Conserved(w)'
<1>1. AgentOf[w] \in Agent
  BY SchedulerConstants
<1>2. \A a \in Agent : Here(a, w)' =>
        a = AgentOf[w] /\ w \in arrived' /\ w \notin over' /\ w \notin dropped'
  BY DEF Conserved
<1>3. w \in arrived' => Here(AgentOf[w], w)' \/ w \in over' \/ w \in dropped'
  BY <1>1 DEF Conserved
<1>4. w \in over' \/ w \in dropped' => w \in arrived'
  BY DEF Conserved
<1>5. ~(w \in over' /\ w \in dropped')
  BY DEF Conserved
<1> QED  BY <1>2, <1>3, <1>4, <1>5 DEF Conserved

(* An agent whose requests and readers stay.                                *)
LEMMA SameSpot ==
    ASSUME NEW b, NEW w, SameQueues(b), ReadToks(b, w)' = ReadToks(b, w)
    PROVE  /\ Once(b, w) => Once(b, w)'
           /\ Here(b, w)' <=> Here(b, w)
<1>1. /\ Loose(b, Reading(w)) => Loose(b, Reading(w))'
      /\ Anywhere(b, Reading(w))' <=> Anywhere(b, Reading(w))
  <2>1. /\ Loose(b, Reading(w)) => Loose(b, Reading(w))'
        /\ Anywhere(b, Reading(w))' <=> Anywhere(b, Reading(w))
    BY DEF SameQueues, Loose, Anywhere, Single, Has, Reading
  <2> QED  BY <2>1
<1>2. /\ Has(Park(b), Reading(w))' <=> Has(Park(b), Reading(w))
      /\ Single(Park(b), Reading(w)) => Single(Park(b), Reading(w))'
  BY DEF SameQueues, Single, Has, Reading
<1> QED  BY <1>1, <1>2 DEF Once, Here

(* One agent acts.                                                          *)
LEMMA ActsConserved ==
    ASSUME NEW w \in Wake, Conserved(w), w \in arrived' <=> w \in arrived, NEW O, NEW D,
           over' = over \cup O, dropped' = dropped \cup D, ~(w \in O /\ w \in D),
           NEW a \in Agent,
           \A b \in Agent : b # a => SameQueues(b) /\ ReadToks(b, w)' = ReadToks(b, w),
           Once(a, w)', Here(a, w)' <=> Here(a, w) /\ w \notin O /\ w \notin D,
           w \in O \/ w \in D => Here(a, w)
    PROVE  Conserved(w)'
<1>1. ASSUME NEW b \in Agent
      PROVE  Once(b, w)' /\ (Here(b, w)' <=> Here(b, w) /\ w \notin O /\ w \notin D)
  <2>1. CASE b = a
    BY <2>1
  <2>2. CASE b # a
    <3>1. Once(b, w)' /\ (Here(b, w)' <=> Here(b, w))
      BY <2>2, SameSpot DEF Conserved
    <3>2. w \in O \/ w \in D => ~Here(b, w)
      BY <2>2 DEF Conserved
    <3> QED  BY <3>1, <3>2
  <2> QED  BY <2>1, <2>2
<1> QED  BY <1>1, MovesConserved

(* It acts on its requests out of its parked start, and no frame changes.   *)
LEMMA QueuesConserved ==
    ASSUME NEW w \in Wake, Conserved(w), w \in arrived' <=> w \in arrived, UNCHANGED frames, NEW O, NEW D,
           over' = over \cup O, dropped' = dropped \cup D, ~(w \in O /\ w \in D),
           NEW a \in Agent, \A b \in Agent : b # a => SameQueues(b),
           Park(a)' = Park(a), Loose(a, Reading(w))',
           Anywhere(a, Reading(w))' <=> Anywhere(a, Reading(w)) /\ w \notin O /\ w \notin D,
           w \in O \/ w \in D => Anywhere(a, Reading(w))
    PROVE  Conserved(w)'
<1>1. \A b : ReadToks(b, w)' = ReadToks(b, w)
  BY DEF ReadToks, FramesOf, Answers
<1>2. /\ Has(Park(a), Reading(w))' <=> Has(Park(a), Reading(w))
      /\ Single(Park(a), Reading(w)) => Single(Park(a), Reading(w))'
  BY DEF Single, Has, Reading
<1>3. Once(a, w)
  BY DEF Conserved
<1>4. Once(a, w)'
  BY <1>1, <1>2, <1>3 DEF Once
<1>5. (Here(a, w)' <=> Here(a, w) /\ w \notin O /\ w \notin D) /\ (w \in O \/ w \in D => Here(a, w))
  BY <1>1, <1>2, <1>3 DEF Once, Here
<1> QED  BY <1>1, <1>4, <1>5, ActsConserved

(* Nothing of any agent moves.                                              *)
LEMMA StillConserved ==
    ASSUME NEW w \in Wake, Conserved(w), UNCHANGED story,
           \A b \in Agent : SameQueues(b) /\ ReadToks(b, w)' = ReadToks(b, w)
    PROVE  Conserved(w)'
<1> DEFINE none == {}
<1>1. over' = over \cup none /\ dropped' = dropped \cup none /\ UNCHANGED arrived /\ w \notin none
  BY DEF story
<1> HIDE DEF none
<1>2. \A b \in Agent : Once(b, w)' /\ (Here(b, w)' <=> Here(b, w) /\ w \notin none /\ w \notin none)
  BY <1>1, SameSpot DEF Conserved
<1> QED  BY <1>1, <1>2, MovesConserved

-----------------------------------------------------------------------------
(* The pass.                                                                *)

LEMMA ReadingReads ==
    ASSUME NEW Q \in SUBSET Part, NEW w
    PROVE  w \in Reads(Q) <=> \E p \in Q : p \in Reading(w)
BY DEF Reads, Reading

(* Every agent's requests move without a wake of them being read.           *)
LEMMA AllMoveConserved ==
    ASSUME NEW w \in Wake, Conserved(w), UNCHANGED <<story, frames>>,
           \A b \in Agent : /\ Park(b)' = Park(b) /\ Loose(b, Reading(w))'
                            /\ Anywhere(b, Reading(w))' <=> Anywhere(b, Reading(w))
    PROVE  Conserved(w)'
<1> DEFINE none == {}
<1>1. over' = over \cup none /\ dropped' = dropped \cup none /\ UNCHANGED arrived /\ w \notin none
  BY DEF story
<1> HIDE DEF none
<1>2. \A b : ReadToks(b, w)' = ReadToks(b, w)
  BY DEF ReadToks, FramesOf, Answers
<1>3. ASSUME NEW b \in Agent
      PROVE  /\ Has(Park(b), Reading(w))' <=> Has(Park(b), Reading(w))
             /\ Single(Park(b), Reading(w)) => Single(Park(b), Reading(w))'
  <2>1. Park(b)' = Park(b)
    OBVIOUS
  <2> QED  BY <2>1 DEF Single, Has, Reading
<1>4. \A b \in Agent : Once(b, w)' /\ (Here(b, w)' <=> Here(b, w))
  BY <1>2, <1>3 DEF Conserved, Once, Here
<1> QED  BY <1>1, <1>4, MovesConserved

LEMMA PassTurnsConserved ==
    ASSUME CInv, PassBegins \/ PassEnds, NEW w \in Wake
    PROVE  Conserved(w)'
<1>1. /\ UNCHANGED <<story, frames, parked, hold>> /\ Conserved(w)
      /\ PassBegins => pass = {} /\ pass' = pending /\ pending' = {}
      /\ PassEnds => UNCHANGED <<pending, pass>>
  BY DEF PassBegins, PassEnds, CInv, WInv, Idle, PassIdle
<1>2. ASSUME NEW b \in Agent
      PROVE  /\ Park(b)' = Park(b) /\ Loose(b, Reading(w))'
             /\ Anywhere(b, Reading(w))' <=> Anywhere(b, Reading(w))
  <2>1. Park(b)' = Park(b) /\ Held(b)' = Held(b) /\ Loose(b, Reading(w))
    BY <1>1 DEF Park, Held, Conserved, Once
  <2>2. CASE PassBegins
    <3>1. Pas(b) = {} /\ Pas(b)' = Pend(b) /\ Pend(b)' = {}
      BY <1>1, <2>2 DEF Pas, Pend, Of
    <3>2. /\ ~Has(Pas(b), Reading(w)) /\ ~Has(Pend(b), Reading(w))'
          /\ Has(Pas(b), Reading(w))' <=> Has(Pend(b), Reading(w))
          /\ Has(Held(b), Reading(w))' <=> Has(Held(b), Reading(w))
      BY <2>1, <3>1 DEF Has, Reading
    <3>3. Loose(b, Reading(w))'
      BY <2>1, <3>1, PassBeginsLoose DEF Reading
    <3> QED  BY <2>1, <3>2, <3>3 DEF Anywhere
  <2>3. CASE PassEnds
    <3>1. Pend(b)' = Pend(b) /\ Pas(b)' = Pas(b)
      BY <1>1, <2>3 DEF Pas, Pend
    <3> QED  BY <2>1, <3>1, SameLoose DEF Reading
  <2> QED  BY <2>1, <2>2, <2>3
<1> QED  BY <1>1, <1>2, AllMoveConserved

(* The pass's group is taken: what goes back stays, X is answered, Y is     *)
(* dropped, and what else there was reads nothing.                          *)
LEMMA TakenConserved ==
    ASSUME CInv, NEW w \in Wake, NEW a \in Agent, UNCHANGED <<arrived, frames, parked>>,
           NEW back \in SUBSET Unheld(a), NEW X \in SUBSET Unheld(a), NEW Y \in SUBSET Unheld(a),
           back \cap X = {}, back \cap Y = {}, X \cap Y = {},
           \A p \in Unheld(a) : p \in back \/ p \in X \/ p \in Y \/ p.kind = "auto",
           over' = over \cup Reads(X), dropped' = dropped \cup Reads(Y),
           Pend(a)' = Pend(a) \cup Singly(a, back), Pas(a)' = {}, Held(a)' = {},
           \A b \in Agent : b # a => Pend(b)' = Pend(b) /\ Pas(b)' = Pas(b) /\ Held(b)' = Held(b)
    PROVE  Conserved(w)'
<1>1. Conserved(w) /\ TypeOK /\ Loose(a, Reading(w))
  BY DEF CInv, WInv, OInv, Conserved, Once
<1>2. Unheld(a) \in SUBSET Part
  BY <1>1, TakenType
<1>3. /\ w \in Reads(X) <=> \E p \in X : p \in Reading(w)
      /\ w \in Reads(Y) <=> \E p \in Y : p \in Reading(w)
  <2>1. X \in SUBSET Part /\ Y \in SUBSET Part
    BY <1>2
  <2> QED  BY <2>1, ReadingReads
<1>4. /\ \A p, q \in Unheld(a) : p \in Reading(w) /\ q \in Reading(w) => p = q
      /\ (\E p \in Unheld(a) : p \in Reading(w)) <=> Has(Pas(a), Reading(w)) \/ Has(Held(a), Reading(w))
  BY <1>1, UnheldOnce
<1>5. \A p \in Unheld(a) : p \in Reading(w) => p \in back \/ p \in X \/ p \in Y
  BY <1>2 DEF Reading, Part
<1>6. ~(w \in Reads(X) /\ w \in Reads(Y))
  BY <1>3, <1>4
<1>7. Loose(a, Reading(w))' /\ (Anywhere(a, Reading(w))' <=>
                                  Has(Pend(a), Reading(w)) \/ \E p \in back : p \in Reading(w))
  BY <1>1, BackLoose DEF Reading
<1>8. Anywhere(a, Reading(w))' <=> Anywhere(a, Reading(w)) /\ w \notin Reads(X) /\ w \notin Reads(Y)
  BY <1>1, <1>3, <1>4, <1>5, <1>7 DEF Anywhere, Loose
<1>9. w \in Reads(X) \/ w \in Reads(Y) => Anywhere(a, Reading(w))
  BY <1>3, <1>4 DEF Anywhere
<1>10. Park(a)' = Park(a) /\ \A b \in Agent : b # a => SameQueues(b)
  BY DEF Park, SameQueues
<1> QED  BY <1>1, <1>6, <1>7, <1>8, <1>9, <1>10, QueuesConserved

LEMMA PassLeavesConserved ==
    ASSUME CInv, NEW a \in Agent, NEW w \in Wake,
           PassParks(a) \/ PassRequeues(a) \/ PassReads(a) \/ PassDrops(a) \/ PassStopped(a)
    PROVE  Conserved(w)'
<1> DEFINE on == {p \in Ready(a) : Continues(p)}
           off == {p \in Ready(a) : ~Continues(p)}
           none == {}
<1>1. TypeOK
  BY DEF CInv, OInv
<1>2. /\ Kept(a) \subseteq Unheld(a) /\ Ready(a) \subseteq Kept(a)
      /\ \A p \in Unheld(a) : p \in Kept(a) \/ p.kind = "auto"
  BY <1>1, TakenType DEF Kept
<1>3. UNCHANGED <<arrived, frames, parked>> /\ Reads(none) = {}
  BY DEF PassParks, PassRequeues, PassReads, PassDrops, PassStopped, TakeGroup, Reads
<1>4. ASSUME NEW back, TakeGroup(a, back)
      PROVE  /\ Pend(a)' = Pend(a) \cup Singly(a, back) /\ Pas(a)' = {} /\ Held(a)' = {}
             /\ \A b \in Agent : b # a => Pend(b)' = Pend(b) /\ Pas(b)' = Pas(b) /\ Held(b)' = Held(b)
  BY <1>1, <1>4, TakeGroupQueues
<1>5. none \in SUBSET Unheld(a) /\ on \in SUBSET Unheld(a) /\ off \in SUBSET Unheld(a)
      /\ Kept(a) \in SUBSET Unheld(a) /\ Ready(a) \in SUBSET Unheld(a)
      /\ Kept(a) \ Ready(a) \in SUBSET Unheld(a)
  BY <1>2
<1>6. CASE PassParks(a) \/ PassRequeues(a)
  <2>1. TakeGroup(a, Kept(a)) /\ over' = over \cup Reads(none) /\ dropped' = dropped \cup Reads(none)
    BY <1>3, <1>6 DEF PassParks, PassRequeues
  <2>2. Kept(a) \cap none = {} /\ none \cap none = {}
    OBVIOUS
  <2> HIDE DEF none
  <2> QED  BY <1>2, <1>3, <1>4, <1>5, <2>1, <2>2, TakenConserved
<1>7. CASE PassReads(a) \/ PassStopped(a)
  <2> DEFINE back == Kept(a) \ Ready(a)
  <2>1. TakeGroup(a, back) /\ over' = over \cup Reads(none) /\ dropped' = dropped \cup Reads(Ready(a))
    BY <1>3, <1>7 DEF PassReads, PassStopped
  <2>2. back \cap none = {} /\ back \cap Ready(a) = {} /\ none \cap Ready(a) = {}
        /\ back \in SUBSET Unheld(a)
        /\ \A p \in Unheld(a) : p \in back \/ p \in none \/ p \in Ready(a) \/ p.kind = "auto"
    BY <1>2
  <2> HIDE DEF none, back
  <2> QED  BY <1>3, <1>4, <1>5, <2>1, <2>2, TakenConserved
<1>8. CASE PassDrops(a)
  <2> DEFINE back == Kept(a) \ Ready(a)
  <2>1. TakeGroup(a, back) /\ over' = over \cup Reads(on) /\ dropped' = dropped \cup Reads(off)
    BY <1>8 DEF PassDrops
  <2>2. back \cap on = {} /\ back \cap off = {} /\ on \cap off = {} /\ back \in SUBSET Unheld(a)
        /\ \A p \in Unheld(a) : p \in back \/ p \in on \/ p \in off \/ p.kind = "auto"
    BY <1>2
  <2> HIDE DEF on, off, back
  <2> QED  BY <1>3, <1>4, <1>5, <2>1, <2>2, TakenConserved
<1> QED  BY <1>6, <1>7, <1>8

(* Holds that keep what the pass brings.                                    *)
LEMMA PassKeepsConserved ==
    ASSUME CInv, NEW a \in Agent, NEW w \in Wake, PassHolds(a) \/ PassWaits(a)
    PROVE  Conserved(w)'
<1>1. Conserved(w) /\ TypeOK /\ Loose(a, Reading(w)) /\ UNCHANGED <<arrived, frames, parked, over>>
  BY DEF CInv, WInv, OInv, Conserved, Once, PassHolds, PassWaits, story
<1>2. \A b \in Agent : /\ Pend(b)' = Pend(b) /\ Park(b)' = Park(b)
                       /\ Pas(b)' = IF b = a THEN {} ELSE Pas(b)
                       /\ b # a => Held(b)' = Held(b)
  BY <1>1, HoldQueues
<1>3. CASE PassHolds(a) \/ (PassWaits(a) /\ ~closed)
  <2>1. Loose(a, Reading(w))' /\ (Anywhere(a, Reading(w))' <=> Anywhere(a, Reading(w)))
    <3>1. CASE PassHolds(a)
      <4>1. Held(a)' = Held(a) \cup Pas(a)
        BY <1>1, <3>1, HoldQueues
      <4> QED  BY <1>1, <1>2, <4>1, HoldsLoose DEF Reading
    <3>2. CASE PassWaits(a) /\ ~closed
      <4>1. Held(a)' = Singly(a, Unheld(a))
        BY <1>1, <3>2, HoldQueues
      <4> QED  BY <1>1, <1>2, <4>1, WaitsLoose DEF Reading
    <3> QED  BY <1>3, <3>1, <3>2
  <2>2. ASSUME NEW b \in Agent
        PROVE  /\ Park(b)' = Park(b) /\ Loose(b, Reading(w))'
               /\ Anywhere(b, Reading(w))' <=> Anywhere(b, Reading(w))
    <3>1. CASE b # a
      <4>1. Pend(b)' = Pend(b) /\ Pas(b)' = Pas(b) /\ Held(b)' = Held(b) /\ Loose(b, Reading(w))
        BY <1>1, <1>2, <3>1 DEF Conserved, Once
      <4> QED  BY <1>2, <4>1, SameLoose DEF Reading
    <3> QED  BY <1>2, <2>1, <3>1
  <2>3. UNCHANGED <<story, frames>>
    BY <1>1, <1>3 DEF PassHolds, PassWaits, story
  <2> QED  BY <1>1, <2>2, <2>3, AllMoveConserved
<1>4. CASE PassWaits(a) /\ closed
  <2> DEFINE none == {}
  <2>1. /\ dropped' = dropped \cup Reads(Unheld(a)) /\ over' = over \cup Reads(none)
        /\ Held(a)' = {} /\ Singly(a, none) = {}
    BY <1>1, <1>4, HoldQueues DEF PassWaits, Reads, Singly
  <2>2. /\ none \in SUBSET Unheld(a) /\ none \cap none = {} /\ none \cap Unheld(a) = {}
        /\ \A p \in Unheld(a) : p \in none \/ p \in none \/ p \in Unheld(a) \/ p.kind = "auto"
    OBVIOUS
  <2> HIDE DEF none
  <2>3. Pend(a)' = Pend(a) \cup Singly(a, none)
    BY <1>2, <2>1
  <2> QED  BY <1>1, <1>2, <2>1, <2>2, <2>3, TakenConserved
<1> QED  BY <1>3, <1>4

-----------------------------------------------------------------------------
(* Wakes arrive and are withdrawn.                                          *)
LEMMA ArrivesConserved ==
    ASSUME CInv, NEW v \in Wake, WakeArrives(v), NEW w \in Wake
    PROVE  Conserved(w)'
<1> DEFINE a == AgentOf[v]
           r == Request1(a, "wake", {v})
           none == {}
<1>1. Conserved(w) /\ TypeOK /\ a \in Agent
  BY SchedulerConstants DEF CInv, WInv, OInv
<1>2. /\ v \notin arrived /\ arrived' = arrived \cup {v} /\ UNCHANGED <<frames, over, dropped>>
      /\ over' = over \cup none /\ dropped' = dropped \cup none /\ w \notin none
  BY DEF WakeArrives
<1>3. \A b \in Agent : /\ Pend(b)' = Pend(b) \cup (IF b = a THEN {r} ELSE {})
                       /\ Pas(b)' = Pas(b) /\ Held(b)' = Held(b) /\ Park(b)' = Park(b)
  BY <1>1, ArrivesQueues
<1>4. (Has({r}, Reading(w)) <=> w = v) /\ Single({r}, Reading(w))
  <2>1. [kind |-> "wake", reads |-> {v}] \in Reading(w) <=> w = v
    BY DEF Reading, Part
  <2> QED  BY <2>1, OneHas
<1>5. \A b \in Agent : b # a => SameQueues(b)
  BY <1>3 DEF SameQueues
<1> HIDE DEF none, r
<1>6. Loose(a, Reading(w)) /\ Pend(a)' = Pend(a) \cup {r} /\ Pas(a)' = Pas(a) /\ Held(a)' = Held(a)
      /\ Park(a)' = Park(a)
  BY <1>1, <1>3 DEF Conserved, Once
<1>7. CASE w # v
  <2>1. Loose(a, Reading(w))' /\ (Anywhere(a, Reading(w))' <=> Anywhere(a, Reading(w)))
    BY <1>1, <1>4, <1>6, <1>7, AddsPending DEF Reading
  <2> QED  BY <1>1, <1>2, <1>5, <1>6, <1>7, <2>1, QueuesConserved
<1>8. CASE w = v
  <2>1. \A b \in Agent : ~Here(b, w) /\ Once(b, w)
    BY <1>1, <1>2, <1>8 DEF Conserved
  <2>2. Loose(a, Reading(w))' /\ Anywhere(a, Reading(w))'
    BY <1>1, <1>4, <1>6, <1>8, <2>1, AddsPending DEF Reading, Here
  <2>3. \A b : ReadToks(b, w)' = ReadToks(b, w)
    BY <1>2 DEF ReadToks, FramesOf, Answers
  <2>4. \A b \in Agent : b # a => Once(b, w)' /\ ~Here(b, w)'
    BY <1>5, <2>1, <2>3, SameSpot
  <2>5. ~Has(Park(a), Reading(w))' /\ Single(Park(a), Reading(w))'
    BY <1>1, <1>6, <2>1 DEF Has, Single, Reading, Here, Once
  <2>6. Once(a, w)' /\ Here(a, w)'
    BY <1>1, <2>1, <2>2, <2>3, <2>5 DEF Once, Here
  <2>7. w \in arrived' /\ w \notin over' /\ w \notin dropped'
    BY <1>1, <1>2, <1>8 DEF Conserved
  <2> QED  BY <1>1, <1>8, <2>4, <2>6, <2>7 DEF Conserved
<1> QED  BY <1>7, <1>8

(* Requests some of which left a wake keep what reads another,              *)
LEMMA PartlyKeeps ==
    ASSUME NEW R \in SUBSET Request, NEW M, NEW w, NEW P, \A p \in P : ~IsWake(w, p)
    PROVE  Has(Partly(w, R, M), P) <=> Has(R, P)
<1>1. R \cap M \in SUBSET Request /\ R = (R \ M) \cup (R \cap M)
  OBVIOUS
<1>2. Has(R \cap M, P) <=> Has(Without(w, R \cap M), P)
  BY <1>1, WithoutKeeps
<1>3. Has(R, P) <=> Has(R \ M, P) \/ Has(R \cap M, P)
  BY DEF Has
<1>4. Has(Partly(w, R, M), P) <=> Has(R \ M, P) \/ Has(Without(w, R \cap M), P)
  BY DEF Partly, Has
<1> QED  BY <1>2, <1>3, <1>4

(* and none that reads the wake, if the only part that did was its own.     *)
LEMMA PartlyGone ==
    ASSUME NEW R \in SUBSET Request, NEW M, NEW w, Single(R, Reading(w)),
           NEW r \in R, r \in M, NEW p \in r.parts, IsWake(w, p)
    PROVE  ~Has(Partly(w, R, M), Reading(w))
<1>1. p \in Reading(w)
  BY DEF Request, Reading, IsWake
<1>2. \A s \in R : \A q \in s.parts : q \in Reading(w) => s = r /\ q = p
  BY <1>1 DEF Single
<1>3. ~Has(R \ M, Reading(w))
  BY <1>2 DEF Has
<1>4. ASSUME NEW s \in Without(w, R \cap M), NEW q \in s.parts, q \in Reading(w)
      PROVE  FALSE
  <2>1. PICK t \in R \cap M : s = [t EXCEPT !.parts = {x \in @ : ~IsWake(w, x)}]
    BY DEF Without
  <2>2. s.parts = {x \in t.parts : ~IsWake(w, x)}
    BY <2>1 DEF Request
  <2> QED  BY <1>2, <1>4, <2>1, <2>2
<1> QED  BY <1>3, <1>4 DEF Has, Partly

LEMMA WithdrawConserved ==
    ASSUME CInv, NEW v \in Wake, Withdraw(v), NEW w \in Wake
    PROVE  Conserved(w)'
<1> DEFINE none == {}
<1>1. Conserved(w) /\ TypeOK
  BY DEF CInv, WInv, OInv
<1>2. /\ UNCHANGED <<frames, arrived>> /\ w \notin none
      /\ over' = over \cup none /\ dropped' = dropped \cup {v}
  BY DEF Withdraw
<1> HIDE DEF none
<1>3. \A b : ReadToks(b, w)' = ReadToks(b, w)
  BY <1>2 DEF ReadToks, FramesOf, Answers
<1>4. ASSUME NEW b \in Agent
      PROVE  /\ Pend(b) \in SUBSET Request /\ Pas(b) \in SUBSET Request
             /\ Held(b) \in SUBSET Request /\ Park(b) \in SUBSET Request
             /\ \E m : /\ Pend(b)' = Partly(v, Pend(b), Pend(b)) /\ Held(b)' = Partly(v, Held(b), Held(b))
                       /\ Pas(b)' = Partly(v, Pas(b), m) /\ Park(b)' = Partly(v, Park(b), m)
                       /\ {r \in pass : Cardinality(r.parts) > 1} \subseteq m
                       /\ {r \in parked : ContinuesTurn(r)} \subseteq m
  <2>1. \E m : /\ Pend(b)' = Partly(v, Pend(b), Pend(b)) /\ Held(b)' = Partly(v, Held(b), Held(b))
               /\ Pas(b)' = Partly(v, Pas(b), m) /\ Park(b)' = Partly(v, Park(b), m)
               /\ \A r \in m : ContinuesTurn(r) \/ Cardinality(r.parts) > 1
               /\ {r \in pass : Cardinality(r.parts) > 1} \subseteq m
               /\ {r \in parked : ContinuesTurn(r)} \subseteq m
    BY <1>1, WithdrawQueues
  <2> QED  BY <1>1, <2>1, QueuesTyped
<1>5. ASSUME NEW b \in Agent
      PROVE  /\ Loose(b, Reading(w))' /\ (Anywhere(b, Reading(w))' => Anywhere(b, Reading(w)))
             /\ Single(Park(b), Reading(w))' /\ (Has(Park(b), Reading(w))' => Has(Park(b), Reading(w)))
  <2>1. PICK m : /\ Pend(b)' = Partly(v, Pend(b), Pend(b)) /\ Held(b)' = Partly(v, Held(b), Held(b))
                 /\ Pas(b)' = Partly(v, Pas(b), m) /\ Park(b)' = Partly(v, Park(b), m)
    BY <1>4
  <2>2. Loose(b, Reading(w)) /\ Single(Park(b), Reading(w))
    BY <1>1 DEF Conserved, Once
  <2>3. /\ Has(Partly(v, Park(b), m), Reading(w)) => Has(Park(b), Reading(w))
        /\ Single(Partly(v, Park(b), m), Reading(w))
    BY <1>4, <2>2, PartlyHas
  <2>4. /\ Has(Park(b), Reading(w))' <=> Has(Partly(v, Park(b), m), Reading(w))
        /\ Single(Park(b), Reading(w))' <=> Single(Partly(v, Park(b), m), Reading(w))
    BY <2>1 DEF Has, Single, Reading
  <2>5. Loose(b, Reading(w))' /\ (Anywhere(b, Reading(w))' => Anywhere(b, Reading(w)))
    BY <1>4, <2>1, <2>2, PartlyLoose DEF Reading
  <2> QED  BY <2>3, <2>4, <2>5
<1>6. \A b \in Agent : Once(b, w)' /\ (Here(b, w)' => Here(b, w))
  <2>1. \A b \in Agent : Once(b, w)
    BY <1>1 DEF Conserved
  <2> QED  BY <1>3, <1>5, <2>1 DEF Once, Here
<1>7. CASE w # v
  <2>1. \A p \in Reading(w) : ~IsWake(v, p)
    BY <1>7 DEF Reading, IsWake
  <2>2. ASSUME NEW b \in Agent
        PROVE  Here(b, w) => Here(b, w)'
    <3>1. PICK m : /\ Pend(b)' = Partly(v, Pend(b), Pend(b)) /\ Held(b)' = Partly(v, Held(b), Held(b))
                   /\ Pas(b)' = Partly(v, Pas(b), m) /\ Park(b)' = Partly(v, Park(b), m)
      BY <1>4
    <3>2. /\ Has(Partly(v, Pend(b), Pend(b)), Reading(w)) <=> Has(Pend(b), Reading(w))
          /\ Has(Partly(v, Held(b), Held(b)), Reading(w)) <=> Has(Held(b), Reading(w))
          /\ Has(Partly(v, Pas(b), m), Reading(w)) <=> Has(Pas(b), Reading(w))
          /\ Has(Partly(v, Park(b), m), Reading(w)) <=> Has(Park(b), Reading(w))
      BY <1>4, <2>1, PartlyKeeps
    <3>3. /\ Has(Pend(b), Reading(w))' <=> Has(Pend(b), Reading(w))
          /\ Has(Held(b), Reading(w))' <=> Has(Held(b), Reading(w))
          /\ Has(Pas(b), Reading(w))' <=> Has(Pas(b), Reading(w))
          /\ Has(Park(b), Reading(w))' <=> Has(Park(b), Reading(w))
      BY <3>1, <3>2 DEF Has, Reading
    <3> QED  BY <1>3, <3>3 DEF Here, Anywhere
  <2>3. w \notin {v} /\ \A b \in Agent :
          Once(b, w)' /\ (Here(b, w)' <=> Here(b, w) /\ w \notin none /\ w \notin {v})
    BY <1>2, <1>6, <1>7, <2>2
  <2> QED  BY <1>1, <1>2, <2>3, MovesConserved
<1>8. CASE w = v
  <2> DEFINE merged == {r \in parked : ContinuesTurn(r)} \cup {r \in pass : Cardinality(r.parts) > 1}
  <2>1. PICK r \in pending \cup merged \cup UNION {hold[c].held : c \in Agent} :
          \E p \in r.parts : IsWake(w, p)
    BY <1>8 DEF Withdraw
  <2>2. PICK a \in Agent : \/ r \in Pend(a) \/ r \in Held(a)
                           \/ r \in Park(a) /\ ContinuesTurn(r)
                           \/ r \in Pas(a) /\ Cardinality(r.parts) > 1
    <3>1. CASE r \in UNION {hold[c].held : c \in Agent}
      BY <3>1 DEF Held
    <3>2. CASE r \in pending \cup merged
      <4>1. r.agent \in Agent
        BY <1>1, <3>2 DEF TypeOK, Request
      <4> QED  BY <3>2, <4>1 DEF Pend, Park, Pas, Of
    <3> QED  BY <3>1, <3>2
  <2>3. PICK p \in r.parts : IsWake(w, p)
    BY <2>1
  <2>4. p \in Reading(w)
    <3>1. r \in Request
      BY <1>4, <2>2
    <3> QED  BY <2>3, <3>1 DEF Request, Reading, IsWake
  <2>5. \A R : r \in R => Has(R, Reading(w))
    BY <2>3, <2>4 DEF Has
  <2>6. PICK m : /\ Pend(a)' = Partly(w, Pend(a), Pend(a)) /\ Held(a)' = Partly(w, Held(a), Held(a))
                 /\ Pas(a)' = Partly(w, Pas(a), m) /\ Park(a)' = Partly(w, Park(a), m)
                 /\ {x \in pass : Cardinality(x.parts) > 1} \subseteq m
                 /\ {x \in parked : ContinuesTurn(x)} \subseteq m
    BY <1>4, <1>8
  <2>7. Once(a, w)
    BY <1>1 DEF Conserved
  <2>8. /\ r \in Pend(a) => ~Has(Partly(w, Pend(a), Pend(a)), Reading(w))
        /\ r \in Held(a) => ~Has(Partly(w, Held(a), Held(a)), Reading(w))
        /\ r \in Pas(a) /\ Cardinality(r.parts) > 1 => ~Has(Partly(w, Pas(a), m), Reading(w))
        /\ r \in Park(a) /\ ContinuesTurn(r) => ~Has(Partly(w, Park(a), m), Reading(w))
    <3>1. /\ Single(Pend(a), Reading(w)) /\ Single(Held(a), Reading(w))
          /\ Single(Pas(a), Reading(w)) /\ Single(Park(a), Reading(w))
      BY <2>7 DEF Once, Loose
    <3>2. /\ r \in Pas(a) /\ Cardinality(r.parts) > 1 => r \in m
          /\ r \in Park(a) /\ ContinuesTurn(r) => r \in m
      BY <2>6 DEF Pas, Park, Of
    <3>3. ASSUME NEW R \in SUBSET Request, NEW M, Single(R, Reading(w)), r \in R, r \in M
          PROVE  ~Has(Partly(w, R, M), Reading(w))
      BY <2>3, <3>3, PartlyGone
    <3>4. /\ Pend(a) \in SUBSET Request /\ Pas(a) \in SUBSET Request
          /\ Held(a) \in SUBSET Request /\ Park(a) \in SUBSET Request
      BY <1>4
    <3>5. r \in Pend(a) => ~Has(Partly(w, Pend(a), Pend(a)), Reading(w))
      BY <3>1, <3>3, <3>4
    <3>6. r \in Held(a) => ~Has(Partly(w, Held(a), Held(a)), Reading(w))
      BY <3>1, <3>3, <3>4
    <3>7. r \in Pas(a) /\ Cardinality(r.parts) > 1 => ~Has(Partly(w, Pas(a), m), Reading(w))
      BY <3>1, <3>2, <3>3, <3>4
    <3>8. r \in Park(a) /\ ContinuesTurn(r) => ~Has(Partly(w, Park(a), m), Reading(w))
      BY <3>1, <3>2, <3>3, <3>4
    <3> QED  BY <3>5, <3>6, <3>7, <3>8
  <2>9. /\ Has(Partly(w, Pend(a), Pend(a)), Reading(w)) => Has(Pend(a), Reading(w))
        /\ Has(Partly(w, Held(a), Held(a)), Reading(w)) => Has(Held(a), Reading(w))
        /\ Has(Partly(w, Pas(a), m), Reading(w)) => Has(Pas(a), Reading(w))
        /\ Has(Partly(w, Park(a), m), Reading(w)) => Has(Park(a), Reading(w))
    BY <1>4, PartlyHas
  <2>10. /\ ~Has(Partly(w, Pend(a), Pend(a)), Reading(w)) /\ ~Has(Partly(w, Held(a), Held(a)), Reading(w))
         /\ ~Has(Partly(w, Pas(a), m), Reading(w)) /\ ~Has(Partly(w, Park(a), m), Reading(w))
         /\ ReadToks(a, w) = {}
    BY <2>2, <2>5, <2>7, <2>8, <2>9 DEF Once, Loose, Anywhere
  <2>11. ~Here(a, w)'
    BY <1>3, <2>6, <2>10 DEF Here, Anywhere, Has, Reading
  <2>12. Here(a, w)
    BY <2>2, <2>5 DEF Here, Anywhere
  <2>13. \A b \in Agent : ~Here(b, w)'
    BY <1>1, <1>6, <2>11, <2>12 DEF Conserved
  <2>14. w \in {v} /\ \A b \in Agent :
          Once(b, w)' /\ (Here(b, w)' <=> Here(b, w) /\ w \notin none /\ w \notin {v})
    BY <1>6, <1>8, <2>13
  <2> QED  BY <1>1, <1>2, <2>12, <2>14, MovesConserved
<1> QED  BY <1>7, <1>8

-----------------------------------------------------------------------------
(* Holds and waits end; the host is marked; auxiliary calls go on.          *)
LEMMA HoldEndsConserved ==
    ASSUME CInv, NEW a \in Agent, HoldExpires(a), NEW w \in Wake
    PROVE  Conserved(w)'
<1> DEFINE r == Request1(a, "wake", {})
<1>1. OInv /\ Conserved(w) /\ Loose(a, Reading(w)) /\ UNCHANGED <<story, frames>>
  BY DEF CInv, WInv, OInv, Conserved, Once, HoldExpires
<1>2. \A b \in Agent :
        /\ Pas(b)' = Pas(b) /\ Park(b)' = Park(b)
        /\ b # a => Pend(b)' = Pend(b) /\ Held(b)' = Held(b)
  BY <1>1, ExpiresQueues
<1>3. /\ Held(a)' = {}
      /\ \/ Held(a) = {} /\ Pend(a)' = Pend(a)
         \/ Pend(a)' = Pend(a) \cup Held(a)
         \/ Held(a) = {} /\ Pend(a)' = Pend(a) \cup {r}
  BY <1>1, ExpiresQueues
<1>4. Single({r}, Reading(w)) /\ ~Has({r}, Reading(w))
  <2>1. [kind |-> "wake", reads |-> {}] \notin Reading(w)
    BY DEF Reading
  <2> QED  BY <2>1, OneHas
<1> HIDE DEF r
<1>5. Loose(a, Reading(w))' /\ (Anywhere(a, Reading(w))' <=> Anywhere(a, Reading(w)))
  <2>1. CASE Held(a) = {} /\ Pend(a)' = Pend(a)
    BY <1>1, <1>2, <1>3, <2>1, SameLoose DEF Reading
  <2>2. CASE Pend(a)' = Pend(a) \cup Held(a)
    <3>1. Loose(a, Reading(w))'
          /\ (Anywhere(a, Reading(w))' <=>
                Has(Pend(a), Reading(w)) \/ Has(Pas(a), Reading(w)) \/ Has(Held(a), Reading(w)))
      BY <1>1, <1>2, <1>3, <2>2, GivesBackLoose DEF Reading
    <3> QED  BY <3>1 DEF Anywhere
  <2>3. CASE Held(a) = {} /\ Pend(a)' = Pend(a) \cup {r}
    BY <1>1, <1>2, <1>3, <1>4, <2>3, AddsPending DEF Reading
  <2> QED  BY <1>3, <2>1, <2>2, <2>3
<1>6. ASSUME NEW b \in Agent
      PROVE  /\ Park(b)' = Park(b) /\ Loose(b, Reading(w))'
             /\ Anywhere(b, Reading(w))' <=> Anywhere(b, Reading(w))
  <2>1. CASE b # a
    <3>1. Pend(b)' = Pend(b) /\ Pas(b)' = Pas(b) /\ Held(b)' = Held(b) /\ Loose(b, Reading(w))
      BY <1>1, <1>2, <2>1 DEF Conserved, Once
    <3> QED  BY <1>2, <3>1, SameLoose DEF Reading
  <2> QED  BY <1>2, <1>5, <2>1
<1> QED  BY <1>1, <1>6, AllMoveConserved

LEMMA MarksConserved ==
    ASSUME CInv, NEW w \in Wake, UNCHANGED <<work, hold, parked, frames, story>>
    PROVE  Conserved(w)'
<1>1. \A b \in Agent : SameQueues(b) /\ ReadToks(b, w)' = ReadToks(b, w)
  BY DEF SameQueues, Pend, Pas, Held, Park, work, ReadToks, FramesOf, Answers
<1> QED  BY <1>1, StillConserved DEF CInv, WInv

LEMMA AuxConserved ==
    ASSUME CInv, NEW x \in Aux, AuxStep(x), NEW w \in Wake
    PROVE  Conserved(w)'
<1>1. UNCHANGED <<frames, story>>
  BY DEF AuxStep, AuxCalls, AuxWoken, AuxEnds, AuxFails, AuxSame
<1>2. \A b \in Agent : SameQueues(b)
  BY AuxQueues DEF CInv, OInv
<1>3. \A b \in Agent : ReadToks(b, w)' = ReadToks(b, w)
  BY <1>1 DEF ReadToks, FramesOf, Answers
<1> QED  BY <1>1, <1>2, <1>3, StillConserved DEF CInv, WInv

-----------------------------------------------------------------------------
(* Frames.                                                                  *)

(* A frame becomes another under its token.                                 *)
LEMMA BecomeReads ==
    ASSUME Distinct, NEW f \in frames, NEW g, g.tok = f.tok, g.agent = f.agent, Become(f, g), NEW w
    PROVE  /\ \A b : b # f.agent => ReadToks(b, w)' = ReadToks(b, w)
           /\ ReadToks(f.agent, w)' =
                (ReadToks(f.agent, w) \ {f.tok}) \cup (IF Answers(g, w) THEN {f.tok} ELSE {})
           /\ f.tok \in ReadToks(f.agent, w) <=> Answers(f, w)
<1>1. frames' = (frames \ {f}) \cup {g}
  BY DEF Become
<1>2. \A h : Answers(h, w)' <=> Answers(h, w)
  BY DEF Answers
<1>3. ASSUME NEW b, b # f.agent
      PROVE  ReadToks(b, w)' = ReadToks(b, w)
  BY <1>1, <1>2, <1>3 DEF ReadToks, FramesOf
<1> DEFINE L == {h.tok : h \in {k \in frames : k.agent = f.agent /\ Answers(k, w)}}
<1>4. ReadToks(f.agent, w) = L /\ ReadToks(f.agent, w)' = L'
  BY DEF ReadToks, FramesOf
<1>5. \A h \in frames \ {f} : h.tok # f.tok
  BY DEF Distinct
<1>6. L' = (L \ {f.tok}) \cup (IF Answers(g, w) THEN {f.tok} ELSE {})
  BY <1>1, <1>2, <1>5
<1>7. f.tok \in L <=> Answers(f, w)
  BY <1>5
<1> QED  BY <1>3, <1>4, <1>6, <1>7

(* A frame changes; a wake it answers no more is answered, dropped, or read *)
(* by a request of its agent.                                               *)
LEMMA FrameMovesConserved ==
    ASSUME CInv, NEW w \in Wake, NEW f \in frames, NEW g, g.tok = f.tok, g.agent = f.agent,
           Become(f, g), w \in arrived' <=> w \in arrived, NEW O, NEW D,
           over' = over \cup O, dropped' = dropped \cup D, ~(w \in O /\ w \in D),
           Answers(g, w) => Answers(f, w),
           w \in O \/ w \in D => Answers(f, w) /\ ~Answers(g, w),
           \A b \in Agent : b # f.agent => SameQueues(b),
           Park(f.agent)' = Park(f.agent), Loose(f.agent, Reading(w))',
           Anywhere(f.agent, Reading(w))' <=>
              \/ Anywhere(f.agent, Reading(w))
              \/ Answers(f, w) /\ ~Answers(g, w) /\ w \notin O /\ w \notin D
    PROVE  Conserved(w)'
<1> DEFINE a == f.agent
<1>1. Conserved(w) /\ Distinct /\ a \in Agent /\ Once(a, w)
  BY FrameTyped DEF CInv, WInv, OInv, Owners, Conserved
<1>2. /\ \A b : b # a => ReadToks(b, w)' = ReadToks(b, w)
      /\ ReadToks(a, w)' = (ReadToks(a, w) \ {f.tok}) \cup (IF Answers(g, w) THEN {f.tok} ELSE {})
      /\ f.tok \in ReadToks(a, w) <=> Answers(f, w)
  BY <1>1, BecomeReads
<1>3. /\ Has(Park(a), Reading(w))' <=> Has(Park(a), Reading(w))
      /\ Single(Park(a), Reading(w)) => Single(Park(a), Reading(w))'
  BY DEF Single, Has, Reading
<1>4. Answers(f, w) => ReadToks(a, w) = {f.tok} /\ ~Has(Park(a), Reading(w)) /\ ~Anywhere(a, Reading(w))
  BY <1>1, <1>2 DEF Once
<1>5. Once(a, w)' /\ (Here(a, w)' <=> Here(a, w) /\ w \notin O /\ w \notin D)
  <2>1. CASE Answers(f, w)
    <3>1. ReadToks(a, w)' = IF Answers(g, w) THEN {f.tok} ELSE {}
      BY <1>2, <1>4, <2>1
    <3> QED  BY <1>1, <1>3, <1>4, <2>1, <3>1 DEF Once, Here
  <2>2. CASE ~Answers(f, w)
    <3>1. ReadToks(a, w)' = ReadToks(a, w)
      BY <1>2, <2>2
    <3> QED  BY <1>1, <1>3, <2>2, <3>1 DEF Once, Here
  <2> QED  BY <2>1, <2>2
<1>6. w \in O \/ w \in D => Here(a, w)
  BY <1>2 DEF Here
<1>7. \A b \in Agent : b # a => SameQueues(b) /\ ReadToks(b, w)' = ReadToks(b, w)
  BY <1>2
<1> HIDE DEF a
<1> QED  BY <1>1, <1>5, <1>6, <1>7, ActsConserved

(* No request moves, or none that reads the wake.                           *)
LEMMA FrameEndsConserved ==
    ASSUME CInv, NEW w \in Wake, NEW f \in frames, NEW g, g.tok = f.tok, g.agent = f.agent,
           Become(f, g), UNCHANGED arrived, NEW O, NEW D,
           over' = over \cup O, dropped' = dropped \cup D, ~(w \in O /\ w \in D),
           Answers(g, w) <=> Answers(f, w) /\ w \notin O /\ w \notin D,
           w \in O \/ w \in D => Answers(f, w),
           \A b \in Agent : SameQueues(b)
    PROVE  Conserved(w)'
<1>1. f.agent \in Agent /\ Loose(f.agent, Reading(w))
  BY FrameTyped DEF CInv, WInv, OInv, Conserved, Once
<1>2. Loose(f.agent, Reading(w))' /\ (Anywhere(f.agent, Reading(w))' <=> Anywhere(f.agent, Reading(w)))
  BY <1>1, SameLoose DEF SameQueues, Reading
<1>3. Park(f.agent)' = Park(f.agent)
  BY <1>1 DEF SameQueues
<1>4. Anywhere(f.agent, Reading(w))' <=>
        \/ Anywhere(f.agent, Reading(w))
        \/ Answers(f, w) /\ ~Answers(g, w) /\ w \notin O /\ w \notin D
  BY <1>2
<1> QED  BY <1>2, <1>3, <1>4, FrameMovesConserved

(* What the frame read goes on in a request queued or held.                 *)
LEMMA FrameHandsConserved ==
    ASSUME CInv, NEW w \in Wake, NEW f \in frames, NEW g, g.tok = f.tok, g.agent = f.agent,
           Become(f, g), UNCHANGED story, ~Answers(g, w), f.phase # "ending",
           \A b \in Agent : b # f.agent => SameQueues(b),
           NEW kind, [kind |-> kind, reads |-> f.reads] \in Part, NEW R,
           R = {Request1(f.agent, kind, f.reads)},
           Pas(f.agent)' = Pas(f.agent), Park(f.agent)' = Park(f.agent),
           \/ Pend(f.agent)' = Pend(f.agent) \cup R /\ Held(f.agent)' = Held(f.agent)
           \/ Pend(f.agent)' = Pend(f.agent) /\ Held(f.agent)' = Held(f.agent) \cup R
    PROVE  Conserved(w)'
<1> DEFINE a == f.agent
           none == {}
<1>1. a \in Agent /\ Loose(a, Reading(w)) /\ Once(a, w) /\ Distinct
  BY FrameTyped DEF CInv, WInv, OInv, Owners, Conserved, Once
<1>2. Single(R, Reading(w)) /\ (Has(R, Reading(w)) <=> Answers(f, w))
  <2>1. [kind |-> kind, reads |-> f.reads] \in Reading(w) <=> w \in f.reads
    BY DEF Reading
  <2> QED  BY <2>1, OneHas DEF Answers
<1>3. Answers(f, w) => ~Anywhere(a, Reading(w))
  <2>1. f.tok \in ReadToks(a, w) <=> Answers(f, w)
    BY <1>1, BecomeReads
  <2> QED  BY <1>1, <2>1 DEF Once
<1>4. Loose(a, Reading(w))' /\ (Anywhere(a, Reading(w))' <=> Anywhere(a, Reading(w)) \/ Answers(f, w))
  <2>1. CASE Pend(a)' = Pend(a) \cup R /\ Held(a)' = Held(a)
    BY <1>1, <1>2, <1>3, <2>1, AddsPending DEF Reading
  <2>2. CASE Pend(a)' = Pend(a) /\ Held(a)' = Held(a) \cup R
    BY <1>1, <1>2, <1>3, <2>2, AddsHeld DEF Reading
  <2> QED  BY <2>1, <2>2
<1>5. /\ over' = over \cup none /\ dropped' = dropped \cup none /\ UNCHANGED arrived
      /\ w \notin none
  BY DEF story
<1> HIDE DEF none
<1>6. Anywhere(a, Reading(w))' <=>
        \/ Anywhere(a, Reading(w))
        \/ Answers(f, w) /\ ~Answers(g, w) /\ w \notin none /\ w \notin none
  BY <1>4, <1>5
<1> QED  BY <1>4, <1>5, <1>6, FrameMovesConserved

(* Calls fail, streams end, starts stop: the frame alone changes.           *)
LEMMA FramesChangeConserved ==
    ASSUME CInv, NEW w \in Wake, NEW f \in frames,
           BeginStopped(f) \/ BeginWithdrawn(f) \/ FailsIntoRetry(f) \/ GuardRetries(f)
             \/ EndsTurn(f) \/ Aborted(f)
    PROVE  Conserved(w)'
<1> DEFINE none == {}
<1>1. f \in Frame /\ UNCHANGED <<work, parked, hold, arrived>>
  BY FrameTyped DEF CInv, OInv, BeginStopped, BeginWithdrawn, FailsIntoRetry, GuardRetries,
     EndsTurn, Aborted, QueueSame
<1>2. \A b \in Agent : SameQueues(b)
  BY <1>1 DEF SameQueues, Pend, Pas, Held, Park, work
<1>3. over \cup none = over /\ dropped \cup none = dropped /\ w \notin none
  OBVIOUS
<1> HIDE DEF none
<1>4. CASE BeginStopped(f) \/ Aborted(f)
  <2> DEFINE g == [f EXCEPT !.phase = "ending"]
  <2>1. g.tok = f.tok /\ g.agent = f.agent /\ ~Answers(g, w)
    BY <1>1 DEF Frame, Answers
  <2>2. Become(f, g) /\ over' = over \cup f.reads /\ UNCHANGED dropped /\ f.phase # "ending"
    BY <1>4 DEF BeginStopped, Aborted, Waiting
  <2> HIDE DEF g
  <2> QED  BY <1>1, <1>2, <1>3, <2>1, <2>2, FrameEndsConserved DEF Answers
<1>5. CASE BeginWithdrawn(f)
  <2> DEFINE g == [f EXCEPT !.phase = "ending"]
  <2>1. g.tok = f.tok /\ g.agent = f.agent /\ ~Answers(g, w)
    BY <1>1 DEF Frame, Answers
  <2>2. Become(f, g) /\ dropped' = dropped \cup f.reads /\ UNCHANGED over /\ f.phase # "ending"
    BY <1>5 DEF BeginWithdrawn
  <2> HIDE DEF g
  <2> QED  BY <1>1, <1>2, <1>3, <2>1, <2>2, FrameEndsConserved DEF Answers
<1>6. CASE EndsTurn(f)
  <2> DEFINE g == [f EXCEPT !.stop = "turn_ended", !.reads = {}]
  <2>1. g.tok = f.tok /\ g.agent = f.agent /\ ~Answers(g, w)
    BY <1>1 DEF Frame, Answers
  <2>2. Become(f, g) /\ over' = over \cup f.reads /\ UNCHANGED dropped /\ f.phase # "ending"
    BY <1>6 DEF EndsTurn, Streams
  <2> HIDE DEF g
  <2> QED  BY <1>1, <1>2, <1>3, <2>1, <2>2, FrameEndsConserved DEF Answers
<1>7. CASE FailsIntoRetry(f)
  <2> DEFINE g == [f EXCEPT !.phase = "backoff", !.attempt = @ + 1]
  <2>1. g.tok = f.tok /\ g.agent = f.agent /\ g.reads = f.reads /\ g.phase = "backoff"
    BY <1>1 DEF Frame
  <2>2. Become(f, g) /\ UNCHANGED <<over, dropped>> /\ f.phase # "ending"
    BY <1>7 DEF FailsIntoRetry, Failing
  <2> HIDE DEF g
  <2>3. Answers(g, w) <=> Answers(f, w)
    BY <2>1, <2>2 DEF Answers
  <2> QED  BY <1>1, <1>2, <1>3, <2>1, <2>2, <2>3, FrameEndsConserved
<1>8. CASE GuardRetries(f)
  <2> DEFINE g == [f EXCEPT !.phase = "backoff"]
  <2>1. g.tok = f.tok /\ g.agent = f.agent /\ g.reads = f.reads /\ g.phase = "backoff"
    BY <1>1 DEF Frame
  <2>2. Become(f, g) /\ UNCHANGED <<over, dropped>> /\ f.phase # "ending"
    BY <1>8 DEF GuardRetries
  <2> HIDE DEF g
  <2>3. Answers(g, w) <=> Answers(f, w)
    BY <2>1, <2>2 DEF Answers
  <2> QED  BY <1>1, <1>2, <1>3, <2>1, <2>2, <2>3, FrameEndsConserved
<1> QED  BY <1>4, <1>5, <1>6, <1>7, <1>8

(* A turn that is over answers its wakes; an autoContinue reads none.       *)
LEMMA CompletesConserved ==
    ASSUME CInv, NEW w \in Wake, NEW f \in frames, Completes(f)
    PROVE  Conserved(w)'
<1> DEFINE a == f.agent
           g == [f EXCEPT !.phase = "ending"]
           none == {}
           R == {Request1(a, "auto", {})}
<1>1. f \in Frame /\ a \in Agent /\ TypeOK /\ Loose(a, Reading(w))
  BY FrameTyped DEF CInv, WInv, OInv, Conserved, Once
<1>2. /\ Become(f, g) /\ over' = over \cup f.reads /\ f.phase # "ending"
      /\ UNCHANGED <<pass, parked, hold, arrived>> /\ dropped' = dropped \cup none /\ w \notin none
  BY DEF Completes, Streams
<1>3. g.tok = f.tok /\ g.agent = a /\ ~Answers(g, w)
  BY <1>1 DEF Frame, Answers
<1>4. Single(R, Reading(w)) /\ ~Has(R, Reading(w))
  <2>1. [kind |-> "auto", reads |-> {}] \notin Reading(w)
    BY DEF Reading
  <2> QED  BY <2>1, OneHas
<1>5. UNCHANGED pending \/ pending' = pending \cup R
  BY DEF Completes
<1>6. \A b : Of(b, R) = IF b = a THEN R ELSE {}
  BY OfNew
<1> HIDE DEF none, g, R
<1>7. \A b \in Agent : /\ Pas(b)' = Pas(b) /\ Held(b)' = Held(b) /\ Park(b)' = Park(b)
                       /\ Pend(b)' = Pend(b) \/ Pend(b)' = Pend(b) \cup Of(b, R)
  <2>1. \A b : Of(b, pending \cup R) = Of(b, pending) \cup Of(b, R)
    BY OfSets
  <2>2. \A b : Of(b, pending') = Of(b, pending) \/ Of(b, pending') = Of(b, pending) \cup Of(b, R)
    BY <1>5, <2>1
  <2> QED  BY <1>2, <2>2 DEF Pend, Pas, Held, Park
<1>8. \A b \in Agent : b # a => SameQueues(b)
  BY <1>6, <1>7 DEF SameQueues
<1>9. Loose(a, Reading(w))' /\ (Anywhere(a, Reading(w))' <=> Anywhere(a, Reading(w)))
  <2>1. CASE Pend(a)' = Pend(a)
    BY <1>1, <1>7, <2>1, SameLoose DEF Reading
  <2>2. CASE Pend(a)' = Pend(a) \cup R
    BY <1>1, <1>4, <1>7, <2>2, AddsPending DEF Reading
  <2> QED  BY <1>1, <1>6, <1>7, <2>1, <2>2
<1>10. w \in f.reads <=> Answers(f, w)
  BY <1>2 DEF Answers
<1>11. Park(a)' = Park(a)
  BY <1>1, <1>7
<1> QED  BY <1>2, <1>3, <1>8, <1>9, <1>10, <1>11, FrameMovesConserved

(* A frame's turn is held.                                                  *)
LEMMA HeldOverConserved ==
    ASSUME CInv, NEW w \in Wake, NEW f \in frames, f.phase # "ending",
           Become(f, [f EXCEPT !.phase = "ending"]), UNCHANGED <<work, parked, story>>,
           NEW kind \in {"wake", "retry", "restart"},
           \A b \in Agent : Held(b)' = IF b = f.agent THEN Held(b) \cup {Request1(f.agent, kind, f.reads)}
                                       ELSE Held(b)
    PROVE  Conserved(w)'
<1> DEFINE a == f.agent
           g == [f EXCEPT !.phase = "ending"]
           R == {Request1(a, kind, f.reads)}
<1>1. f \in Frame /\ a \in Agent
  BY FrameTyped DEF CInv, OInv
<1>2. g.tok = f.tok /\ g.agent = a /\ ~Answers(g, w) /\ [kind |-> kind, reads |-> f.reads] \in Part
  BY <1>1 DEF Frame, Answers, Part
<1>3. \A b \in Agent : Pend(b)' = Pend(b) /\ Pas(b)' = Pas(b) /\ Park(b)' = Park(b)
  BY DEF Pend, Pas, Park, work
<1>4. /\ \A b \in Agent : b # a => SameQueues(b)
      /\ Held(a)' = Held(a) \cup R
  BY <1>1, <1>3 DEF SameQueues
<1>5. Become(f, g) /\ R = {Request1(a, kind, f.reads)}
  OBVIOUS
<1> HIDE DEF g, R
<1> QED  BY <1>1, <1>2, <1>3, <1>4, <1>5, FrameHandsConserved

LEMMA FailsHeldConserved ==
    ASSUME CInv, NEW w \in Wake, NEW f \in frames, BeginHeld(f) \/ FailsIntoHold(f) \/ FailsIntoWait(f)
    PROVE  Conserved(w)'
<1> DEFINE a == f.agent
           kind == IF f.restart THEN "restart" ELSE "retry"
<1>1. f \in Frame /\ a \in Agent /\ TypeOK
  BY FrameTyped DEF CInv, OInv
<1>2. /\ f.phase # "ending" /\ Become(f, [f EXCEPT !.phase = "ending"])
      /\ UNCHANGED <<work, parked, story>>
  BY DEF BeginHeld, FailsIntoHold, FailsIntoWait, Failing, QueueSame, story
<1>3. Continuation(f) = Request1(a, kind, f.reads)
  BY DEF Continuation
<1>4. \A b \in Agent : Held(b)' = IF b = a THEN Held(b) \cup {Continuation(f)} ELSE Held(b)
  <2>1. CASE BeginHeld(f) \/ FailsIntoWait(f)
    <3>1. HoldForWait(a, {Continuation(f)})
      BY <2>1 DEF BeginHeld, FailsIntoWait
    <3> QED  BY <1>1, <3>1, HoldForWaitQueues
  <2>2. CASE FailsIntoHold(f)
    BY <1>1, <2>2 DEF FailsIntoHold, TypeOK, Held
  <2> QED  BY <2>1, <2>2
<1>5. kind \in {"wake", "retry", "restart"}
  OBVIOUS
<1> HIDE DEF kind
<1> QED  BY <1>2, <1>3, <1>4, <1>5, HeldOverConserved

(* An exhausted turn is over, or is sent again when its hold ends.          *)
LEMMA ExhaustedConserved ==
    ASSUME CInv, NEW w \in Wake, NEW f \in frames, FailsExhausted(f)
    PROVE  Conserved(w)'
<1> DEFINE a == f.agent
           g == [f EXCEPT !.phase = "ending"]
           again == Request1(a, "wake", f.reads)
           none == {}
<1>1. f \in Frame /\ a \in Agent /\ TypeOK
  BY FrameTyped DEF CInv, OInv
<1>2. /\ f.phase # "ending" /\ Become(f, g) /\ UNCHANGED <<work, parked, arrived, dropped>>
      /\ dropped' = dropped \cup none /\ w \notin none
  BY DEF FailsExhausted, Failing
<1> HIDE DEF none
<1>3. CASE over' = over \cup f.reads /\ UNCHANGED hold
  <2>1. \A b \in Agent : SameQueues(b)
    BY <1>2, <1>3 DEF SameQueues, Pend, Pas, Held, Park, work
  <2>2. g.tok = f.tok /\ g.agent = a /\ ~Answers(g, w)
    BY <1>1 DEF Frame, Answers
  <2>3. w \in f.reads <=> Answers(f, w)
    BY <1>2 DEF Answers
  <2> HIDE DEF g
  <2> QED  BY <1>2, <1>3, <2>1, <2>2, <2>3, FrameEndsConserved
<1>4. CASE ~(over' = over \cup f.reads /\ UNCHANGED hold)
  <2>1. /\ hold' = [hold EXCEPT ![a] =
                     IF hold[a].kind # "none" THEN Adding(hold[a], {again})
                     ELSE [NoHold EXCEPT !.kind = "rearm", !.held = {again}]]
        /\ UNCHANGED over
    BY <1>4 DEF FailsExhausted
  <2>2. hold \in [Agent -> Hold] /\ hold[a] \in Hold
    BY <1>1 DEF TypeOK
  <2>3. Adding(hold[a], {again}).held = Held(a) \cup {again}
    BY <2>2 DEF Adding, Hold, Held
  <2>4. [NoHold EXCEPT !.kind = "rearm", !.held = {again}].held = {again}
    BY DEF NoHold
  <2>5. hold[a].kind = "none" => Held(a) = {}
    BY <1>1 DEF CInv, WInv, Idle, HoldsIdle, Held
  <2> HIDE DEF again
  <2>6. \A b \in Agent : Held(b)' = IF b = a THEN Held(b) \cup {again} ELSE Held(b)
    BY <1>1, <2>1, <2>2, <2>3, <2>4, <2>5 DEF Held
  <2>7. UNCHANGED story
    BY <1>2, <2>1 DEF story
  <2> QED  BY <1>2, <2>6, <2>7, HeldOverConserved DEF again
<1> QED  BY <1>3, <1>4

(* A turn over its budget goes on by a restart.                             *)
LEMMA BudgetConserved ==
    ASSUME CInv, NEW w \in Wake, NEW f \in frames, BudgetRestarts(f)
    PROVE  Conserved(w)'
<1> DEFINE a == f.agent
           R == {Request1(a, "restart", f.reads)}
           cut == [f EXCEPT !.stop = "budget_restart", !.reads = {}]
           down == [f EXCEPT !.stop = "shutdown"]
           none == {}
<1>1. f \in Frame /\ a \in Agent /\ f.phase = "streaming" /\ UNCHANGED <<pass, parked, hold, story>>
  BY FrameTyped DEF CInv, OInv, BudgetRestarts, Streams
<1>2. /\ cut.tok = f.tok /\ cut.agent = a /\ ~Answers(cut, w)
      /\ down.tok = f.tok /\ down.agent = a /\ (Answers(down, w) <=> Answers(f, w))
  BY <1>1 DEF Frame, Answers
<1>3. CASE closed
  <2>1. Become(f, down) /\ UNCHANGED pending
    BY <1>3 DEF BudgetRestarts
  <2>2. \A b \in Agent : SameQueues(b)
    BY <1>1, <2>1 DEF SameQueues, Pend, Pas, Held, Park
  <2>3. over' = over \cup none /\ dropped' = dropped \cup none /\ UNCHANGED arrived /\ w \notin none
    BY <1>1 DEF story
  <2> HIDE DEF none, down
  <2> QED  BY <1>2, <2>1, <2>2, <2>3, FrameEndsConserved
<1>4. CASE ~closed
  <2>1. Become(f, cut) /\ pending' = pending \cup R
    BY <1>4 DEF BudgetRestarts
  <2>2. \A b : Of(b, R) = IF b = a THEN R ELSE {}
    BY OfNew
  <2>3. [kind |-> "restart", reads |-> f.reads] \in Part /\ R = {Request1(a, "restart", f.reads)}
    BY <1>1 DEF Frame, Part
  <2> HIDE DEF R, cut
  <2>4. \A b \in Agent : /\ Pend(b)' = Pend(b) \cup Of(b, R) /\ Pas(b)' = Pas(b)
                         /\ Held(b)' = Held(b) /\ Park(b)' = Park(b)
    <3>1. \A b \in Agent : Pend(b)' = Of(b, pending \cup R)
      BY <2>1 DEF Pend
    <3>2. \A b \in Agent : Of(b, pending \cup R) = Of(b, pending) \cup Of(b, R)
      BY OfSets
    <3>3. \A b \in Agent : Pend(b)' = Pend(b) \cup Of(b, R)
      BY <3>1, <3>2 DEF Pend
    <3>4. \A b \in Agent : Pas(b)' = Pas(b) /\ Held(b)' = Held(b) /\ Park(b)' = Park(b)
      BY <1>1 DEF Pas, Held, Park
    <3> QED  BY <3>3, <3>4
  <2>5. \A b \in Agent : b # a => SameQueues(b)
    BY <2>2, <2>4 DEF SameQueues
  <2>6. Pend(a)' = Pend(a) \cup R /\ Pas(a)' = Pas(a) /\ Held(a)' = Held(a) /\ Park(a)' = Park(a)
    BY <1>1, <2>2, <2>4
  <2> QED  BY <1>1, <1>2, <2>1, <2>3, <2>5, <2>6, FrameHandsConserved
<1> QED  BY <1>3, <1>4

(* The tokens of b's frames among S that answer a wake.                     *)
AnsweringToks(S, b, w) == {g.tok : g \in {h \in S : h.agent = b /\ Answers(h, w)}}

(* A frame handed back to answers nothing before or after.                  *)
LEMMA ReturnReads ==
    ASSUME CInv, NEW f, NEW F \in SUBSET frames, NEW b, NEW w
    PROVE  AnsweringToks(ReturnTo(f, F), b, w) = AnsweringToks(F, b, w)
<1> DEFINE back(g) == IF g.tok = f.parent /\ g.phase = "handing" THEN [g EXCEPT !.phase = "ending"] ELSE g
<1>1. \A g \in F : back(g).tok = g.tok /\ back(g).agent = g.agent /\ (Answers(back(g), w) <=> Answers(g, w))
  <2>1. \A g \in Frame : /\ [g EXCEPT !.phase = "ending"].tok = g.tok
                         /\ [g EXCEPT !.phase = "ending"].agent = g.agent
                         /\ [g EXCEPT !.phase = "ending"].phase = "ending"
    BY DEF Frame
  <2>2. \A g \in F : g \in Frame /\ (g.phase = "handing" => g.reads = {})
    BY DEF CInv, WInv, Idle, HandsIdle, HandedOn, OInv, TypeOK
  <2> QED  BY <2>1, <2>2 DEF Answers
<1>2. ReturnTo(f, F) = {back(g) : g \in F}
  BY DEF ReturnTo
<1> HIDE DEF back
<1> QED  BY <1>1, <1>2 DEF AnsweringToks

(* A start that streams, and a frame that leaves.                           *)
LEMMA StreamsConserved ==
    ASSUME CInv, NEW w \in Wake, NEW f \in frames, BeginStreams(f) \/ Leaves(f)
    PROVE  Conserved(w)'
<1> DEFINE F == frames \ {f}
           streaming == [f EXCEPT !.phase = "streaming", !.inPass = FALSE, !.parent = NoToken]
           toks(S, b) == AnsweringToks(S, b, w)
<1>1. UNCHANGED <<work, parked, hold, story>>
  BY DEF BeginStreams, Leaves, QueueSame, story
<1>2. \A b \in Agent : SameQueues(b)
  BY <1>1 DEF SameQueues, Pend, Pas, Held, Park, work
<1>3. ASSUME NEW b
      PROVE  toks(ReturnTo(f, F), b) = toks(F, b)
  <2>1. F \in SUBSET frames
    OBVIOUS
  <2> HIDE DEF F
  <2> QED  BY <2>1, ReturnReads
<1>4. \A b : ReadToks(b, w) = toks(frames, b) /\ ReadToks(b, w)' = toks(frames', b)
  BY DEF ReadToks, FramesOf, Answers, AnsweringToks
<1>5. CASE Leaves(f)
  <2>1. ~Answers(f, w)
    BY <1>5 DEF Leaves, Answers
  <2>2. \A b : toks(F, b) = toks(frames, b)
    BY <2>1 DEF AnsweringToks
  <2>3. frames' = ReturnTo(f, F)
    BY <1>5 DEF Leaves
  <2>4. \A b : ReadToks(b, w)' = ReadToks(b, w)
    BY <1>3, <1>4, <2>2, <2>3
  <2> QED  BY <1>1, <1>2, <2>4, StillConserved DEF CInv, WInv
<1>6. CASE BeginStreams(f)
  <2>1. frames' = ReturnTo(f, F) \cup {streaming}
    BY <1>6 DEF BeginStreams
  <2>2. /\ streaming.tok = f.tok /\ streaming.agent = f.agent
        /\ Answers(streaming, w) <=> Answers(f, w)
    <3>1. f \in Frame
      BY FrameTyped DEF CInv, OInv
    <3> QED  BY <1>6, <3>1 DEF Frame, Answers, BeginStreams
  <2> HIDE DEF streaming
  <2>3. ASSUME NEW S, NEW b, NEW g
        PROVE  toks(S \cup {g}, b) =
                 toks(S, b) \cup (IF g.agent = b /\ Answers(g, w) THEN {g.tok} ELSE {})
    BY DEF AnsweringToks
  <2>4. ASSUME NEW b
        PROVE  toks(frames', b) = toks(F \cup {f}, b)
    <3> HIDE DEF F, toks
    <3>1. toks(ReturnTo(f, F) \cup {streaming}, b) = toks(ReturnTo(f, F), b) \cup
            (IF streaming.agent = b /\ Answers(streaming, w) THEN {streaming.tok} ELSE {})
      BY <2>3
    <3>2. toks(F \cup {f}, b) =
            toks(F, b) \cup (IF f.agent = b /\ Answers(f, w) THEN {f.tok} ELSE {})
      BY <2>3
    <3> QED  BY <1>3, <2>1, <2>2, <3>1, <3>2
  <2>5. F \cup {f} = frames
    OBVIOUS
  <2>6. \A b : ReadToks(b, w)' = ReadToks(b, w)
    BY <1>4, <2>4, <2>5
  <2> QED  BY <1>1, <1>2, <2>6, StillConserved DEF CInv, WInv
<1> QED  BY <1>5, <1>6

-----------------------------------------------------------------------------
(* Starts.                                                                  *)

(* A merged start reads what its parts do.                                  *)
LEMMA MergedReading ==
    ASSUME NEW Q \in SUBSET Part, NEW w
    PROVE  /\ (\E p \in Merged(Q) : p \in Reading(w)) <=> \E p \in Q : p \in Reading(w)
           /\ (\A p, q \in Q : p \in Reading(w) /\ q \in Reading(w) => p = q) =>
                \A p, q \in Merged(Q) : p \in Reading(w) /\ q \in Reading(w) => p = q
<1>1. CASE \A p \in Q : Continues(p)
  <2> DEFINE one == [kind |-> IF \E p \in Q : p.kind = "restart" THEN "restart" ELSE "retry",
                     reads |-> Reads(Q)]
  <2>1. Merged(Q) = {one}
    BY <1>1 DEF Merged
  <2>2. one.reads = Reads(Q) /\ one \in Part
    BY ReadsType DEF Part
  <2> HIDE DEF one
  <2>3. one \in Reading(w) <=> w \in Reads(Q)
    BY <2>2 DEF Reading
  <2> QED  BY <2>1, <2>3, ReadingReads
<1>2. CASE ~\A p \in Q : Continues(p)
  <2>1. Merged(Q) = Q
    BY <1>2 DEF Merged
  <2> QED  BY <2>1
<1> QED  BY <1>1, <1>2

LEMMA MergedReads ==
    ASSUME NEW Q
    PROVE  Reads(Merged(Q)) = Reads(Q)
<1>1. CASE \A p \in Q : Continues(p)
  <2> DEFINE one == [kind |-> IF \E p \in Q : p.kind = "restart" THEN "restart" ELSE "retry",
                     reads |-> Reads(Q)]
  <2>1. Merged(Q) = {one} /\ one.reads = Reads(Q)
    BY <1>1 DEF Merged
  <2> HIDE DEF one
  <2>2. Reads({one}) = one.reads
    BY DEF Reads
  <2> QED  BY <2>1, <2>2
<1>2. CASE ~\A p \in Q : Continues(p)
  <2>1. Merged(Q) = Q
    BY <1>2 DEF Merged
  <2> QED  BY <2>1
<1> QED  BY <1>1, <1>2

(* A new frame answers what its parts read.                                 *)
LEMMA NewReads ==
    ASSUME NEW a, NEW new, new.agent = a, frames' = frames \cup {new}, NEW w
    PROVE  /\ \A b : b # a => ReadToks(b, w)' = ReadToks(b, w)
           /\ ReadToks(a, w)' = ReadToks(a, w) \cup (IF Answers(new, w) THEN {new.tok} ELSE {})
<1>1. \A h : Answers(h, w)' <=> Answers(h, w)
  BY DEF Answers
<1>2. ASSUME NEW b, b # a
      PROVE  ReadToks(b, w)' = ReadToks(b, w)
  BY <1>1, <1>2 DEF ReadToks, FramesOf
<1>3. ReadToks(a, w)' = ReadToks(a, w) \cup (IF Answers(new, w) THEN {new.tok} ELSE {})
  BY <1>1 DEF ReadToks, FramesOf
<1> QED  BY <1>2, <1>3

LEMMA PassStartsConserved ==
    ASSUME CInv, NEW a \in Agent, NEW w \in Wake, PassStarts(a)
    PROVE  Conserved(w)'
<1>1. PICK read \in SUBSET {p \in Ready(a) : p.kind = "wake"} :
        LET parts == Merged(Ready(a) \ read)
        IN  /\ Ready(a) # read /\ ~Busy(a) /\ ~closed
            /\ TakeGroup(a, Kept(a) \ Ready(a))
            /\ dropped' = dropped \cup Reads(read)
            /\ IF AuxRunning(a)
               THEN /\ parked' = parked \cup {[agent |-> a, parts |-> parts]}
                    /\ UNCHANGED <<frames, token>>
               ELSE LET new == NewFrame(a, parts, 0, TRUE, NoToken)
                    IN  /\ frames' = frames \cup {new}
                        /\ UNCHANGED parked
            /\ UNCHANGED over
  BY DEF PassStarts
<1> DEFINE back == Kept(a) \ Ready(a)
           on == Ready(a) \ read
           parts == Merged(on)
           r == [agent |-> a, parts |-> parts]
           new == NewFrame(a, parts, 0, TRUE, NoToken)
           none == {}
           P == Reading(w)
<1>2. TypeOK /\ OInv /\ Conserved(w) /\ Once(a, w) /\ Loose(a, P)
  BY DEF CInv, WInv, OInv, Conserved, Once
<1>3. Park(a) = {}
  BY <1>1, <1>2, StartsAlone
<1>4. /\ back \in SUBSET Unheld(a) /\ on \in SUBSET Unheld(a) /\ read \in SUBSET Unheld(a)
      /\ Unheld(a) \in SUBSET Part
      /\ \A p \in Unheld(a) : p \in back \/ p \in on \/ p \in read \/ p.kind = "auto"
      /\ back \cap on = {} /\ back \cap read = {} /\ on \cap read = {}
  BY <1>2, TakenType DEF Kept
<1>5. /\ Pend(a)' = Pend(a) \cup Singly(a, back) /\ Pas(a)' = {} /\ Held(a)' = {}
      /\ \A b \in Agent : b # a => Pend(b)' = Pend(b) /\ Pas(b)' = Pas(b) /\ Held(b)' = Held(b)
  BY <1>1, <1>2, TakeGroupQueues
<1>6. /\ \A p, q \in Unheld(a) : p \in P /\ q \in P => p = q
      /\ (\E p \in Unheld(a) : p \in P) <=> Has(Pas(a), P) \/ Has(Held(a), P)
  BY <1>2, UnheldOnce
<1>7. w \in Reads(read) <=> \E p \in read : p \in P
  <2>1. read \in SUBSET Part
    BY <1>4
  <2> QED  BY <2>1, ReadingReads
<1>8. /\ (\E p \in parts : p \in P) <=> \E p \in on : p \in P
      /\ \A p, q \in parts : p \in P /\ q \in P => p = q
      /\ Reads(parts) = Reads(on)
      /\ w \in Reads(on) <=> \E p \in on : p \in P
  <2>1. on \in SUBSET Part /\ \A p, q \in on : p \in P /\ q \in P => p = q
    BY <1>4, <1>6
  <2> HIDE DEF on, P
  <2>2. Reads(parts) = Reads(on)
    BY MergedReads
  <2> USE DEF P
  <2> QED  BY <2>1, <2>2, MergedReading, ReadingReads
<1> HIDE DEF back, on
<1>9. Loose(a, P)' /\ (Anywhere(a, P)' <=> Has(Pend(a), P) \/ \E p \in back : p \in P)
  BY <1>2, <1>4, <1>5, BackLoose DEF Reading
<1>10. \A p \in Unheld(a) : p \in P => p \in back \/ p \in on \/ p \in read
  BY <1>4 DEF Reading, Part
<1>11. /\ UNCHANGED arrived /\ over' = over \cup none /\ w \notin none
       /\ dropped' = dropped \cup Reads(read)
  BY <1>1 DEF TakeGroup
<1> HIDE DEF none
<1>12. (\E p \in on : p \in P) => ~Anywhere(a, P)' /\ w \notin Reads(read) /\ ReadToks(a, w) = {}
  BY <1>2, <1>4, <1>6, <1>7, <1>9 DEF Once, Loose, Anywhere
<1>13. Here(a, w) <=> \/ Anywhere(a, P)' \/ w \in Reads(read) \/ \E p \in on : p \in P
                      \/ ReadToks(a, w) # {}
  BY <1>3, <1>4, <1>6, <1>7, <1>9, <1>10 DEF Here, Anywhere, Has
<1>14. w \in Reads(read) => ~Anywhere(a, P)' /\ ReadToks(a, w) = {}
  BY <1>2, <1>4, <1>6, <1>7, <1>9 DEF Once, Loose, Anywhere
<1>15. Anywhere(a, P)' => ReadToks(a, w) = {}
  BY <1>2, <1>4, <1>6, <1>9 DEF Once, Anywhere
<1>16. CASE AuxRunning(a)
  <2>1. parked' = parked \cup {r} /\ UNCHANGED frames
    BY <1>1, <1>16 DEF on
  <2>2. r.agent = a /\ r.parts = parts
    OBVIOUS
  <2> HIDE DEF r, parts
  <2>3. Park(a)' = {r} /\ \A b \in Agent : b # a => Park(b)' = Park(b)
    BY <1>3, <2>1, <2>2 DEF Park, Of
  <2>4. \A b : ReadToks(b, w)' = ReadToks(b, w)
    BY <2>1 DEF ReadToks, FramesOf, Answers
  <2>5. (Has(Park(a), P)' <=> \E p \in on : p \in P) /\ Single(Park(a), P)'
    BY <1>8, <2>2, <2>3 DEF Has, Single, Reading
  <2>6. Once(a, w)'
    BY <1>2, <1>9, <1>12, <1>15, <2>4, <2>5 DEF Once
  <2>7. Here(a, w)' <=> Here(a, w) /\ w \notin none /\ w \notin Reads(read)
    BY <1>11, <1>12, <1>13, <1>14, <2>4, <2>5 DEF Here
  <2>8. \A b \in Agent : b # a => SameQueues(b) /\ ReadToks(b, w)' = ReadToks(b, w)
    BY <1>5, <2>3, <2>4 DEF SameQueues
  <2> QED  BY <1>2, <1>11, <1>13, <2>6, <2>7, <2>8, ActsConserved
<1>17. CASE ~AuxRunning(a)
  <2>1. frames' = frames \cup {new} /\ UNCHANGED parked
    BY <1>1, <1>17 DEF on
  <2>2. new.agent = a /\ (Answers(new, w) <=> \E p \in on : p \in P)
    <3>1. new.agent = a /\ new.phase = "starting" /\ new.reads = Reads(parts)
      BY DEF NewFrame
    <3> HIDE DEF new, parts
    <3> QED  BY <1>8, <3>1 DEF Answers
  <2> HIDE DEF new, parts
  <2>3. /\ \A b : b # a => ReadToks(b, w)' = ReadToks(b, w)
        /\ ReadToks(a, w)' = ReadToks(a, w) \cup (IF Answers(new, w) THEN {new.tok} ELSE {})
    BY <2>1, <2>2, NewReads
  <2>4. \A b \in Agent : Park(b)' = Park(b)
    BY <2>1 DEF Park
  <2>5. Park(a)' = {}
    BY <1>3, <2>4
  <2>6. ~Has(Park(a), P)' /\ Single(Park(a), P)'
    BY <2>5 DEF Has, Single
  <2>7. Once(a, w)'
    BY <1>2, <1>9, <1>12, <1>15, <2>2, <2>3, <2>6 DEF Once
  <2>8. Here(a, w)' <=> Here(a, w) /\ w \notin none /\ w \notin Reads(read)
    BY <1>11, <1>12, <1>13, <1>14, <2>2, <2>3, <2>6 DEF Here
  <2>9. \A b \in Agent : b # a => SameQueues(b) /\ ReadToks(b, w)' = ReadToks(b, w)
    BY <1>5, <2>3, <2>4 DEF SameQueues
  <2> QED  BY <1>2, <1>11, <1>13, <2>7, <2>8, <2>9, ActsConserved
<1> QED  BY <1>16, <1>17

(* A parked start goes on, goes back or goes away.                          *)
LEMMA UnparksConserved ==
    ASSUME CInv, NEW w \in Wake, NEW r \in parked, parked' = parked \ {r}, UNCHANGED <<arrived, over>>,
           NEW D, dropped' = dropped \cup D,
           \A b \in Agent : b # r.agent => /\ Pend(b)' = Pend(b) /\ Pas(b)' = Pas(b) /\ Held(b)' = Held(b)
                                           /\ ReadToks(b, w)' = ReadToks(b, w),
           Loose(r.agent, Reading(w))', NEW t,
           \/ /\ ReadToks(r.agent, w)' = ReadToks(r.agent, w)
              /\ Anywhere(r.agent, Reading(w))' <=>
                    Anywhere(r.agent, Reading(w)) \/ (Has({r}, Reading(w)) /\ w \notin D)
              /\ w \in D => Has({r}, Reading(w))
           \/ /\ ReadToks(r.agent, w)' =
                    ReadToks(r.agent, w) \cup (IF Has({r}, Reading(w)) THEN {t} ELSE {})
              /\ Anywhere(r.agent, Reading(w))' <=> Anywhere(r.agent, Reading(w))
              /\ w \notin D
    PROVE  Conserved(w)'
<1> DEFINE a == r.agent
           S == Has({r}, Reading(w))
           none == {}
<1>1. /\ a \in Agent /\ Park(a) = {r}
      /\ \A b \in Agent : Of(b, parked \ {r}) = IF b = a THEN {} ELSE Park(b)
  BY ParkedAlone DEF CInv
<1>2. \A b \in Agent : Park(b)' = IF b = a THEN {} ELSE Park(b)
  BY <1>1 DEF Park
<1>3. Conserved(w) /\ Once(a, w)
  BY <1>1 DEF CInv, WInv, Conserved
<1>4. Has(Park(a), Reading(w)) <=> S
  BY <1>1
<1>5. ~Has(Park(a), Reading(w))' /\ Single(Park(a), Reading(w))'
  BY <1>1, <1>2 DEF Has, Single
<1>6. over' = over \cup none /\ w \notin none
  OBVIOUS
<1>7. \A b \in Agent : b # a => SameQueues(b) /\ ReadToks(b, w)' = ReadToks(b, w)
  BY <1>2 DEF SameQueues
<1> HIDE DEF a, S, none
<1>8. w \in D => Here(a, w)
  BY <1>4 DEF Here, S, a
<1>9. Once(a, w)' /\ (Here(a, w)' <=> Here(a, w) /\ w \notin none /\ w \notin D)
  <2>1. CASE /\ ReadToks(a, w)' = ReadToks(a, w)
             /\ Anywhere(a, Reading(w))' <=> Anywhere(a, Reading(w)) \/ (S /\ w \notin D)
             /\ w \in D => S
    <3>1. Loose(a, Reading(w))'
      BY DEF a
    <3> QED  BY <1>3, <1>4, <1>5, <1>6, <2>1, <3>1 DEF Once, Here
  <2>2. CASE /\ ReadToks(a, w)' = ReadToks(a, w) \cup (IF S THEN {t} ELSE {})
             /\ Anywhere(a, Reading(w))' <=> Anywhere(a, Reading(w))
             /\ w \notin D
    <3>1. Loose(a, Reading(w))'
      BY DEF a
    <3> QED  BY <1>3, <1>4, <1>5, <1>6, <2>2, <3>1 DEF Once, Here
  <2> QED  BY <2>1, <2>2 DEF a, S
<1> QED  BY <1>1, <1>3, <1>6, <1>7, <1>8, <1>9, ActsConserved

LEMMA GivesBackConserved ==
    ASSUME CInv, NEW w \in Wake, NEW r \in parked, UnparkGivesBack(r)
    PROVE  Conserved(w)'
<1> DEFINE a == r.agent
           none == {}
           P == Reading(w)
<1>1. a \in Agent /\ r \in Request /\ Park(a) = {r}
  BY ParkedAlone DEF CInv, OInv, TypeOK
<1>2. Once(a, w) /\ Loose(a, P)
  BY <1>1 DEF CInv, WInv, Conserved, Once
<1>3. Single({r}, P) /\ (Has({r}, P) => ~Anywhere(a, P))
  BY <1>1, <1>2 DEF Once
<1>4. UNCHANGED <<frames, pass, hold, arrived, over>> /\ parked' = parked \ {r}
  BY DEF UnparkGivesBack
<1>5. \A b : ReadToks(b, w)' = ReadToks(b, w)
  BY <1>4 DEF ReadToks, FramesOf, Answers
<1>6. \A b \in Agent : Pas(b)' = Pas(b) /\ Held(b)' = Held(b)
  BY <1>4 DEF Pas, Held
<1>7. Has({r}, P) <=> \E p \in r.parts : p \in P
  BY DEF Has
<1>8. CASE closed
  <2>1. dropped' = dropped \cup Reads(r.parts) /\ UNCHANGED pending
    BY <1>8 DEF UnparkGivesBack
  <2>2. w \in Reads(r.parts) <=> Has({r}, P)
    <3>1. r.parts \in SUBSET Part
      BY <1>1 DEF Request
    <3> QED  BY <1>7, <3>1, ReadingReads
  <2>3. \A b \in Agent : Pend(b)' = Pend(b)
    BY <2>1 DEF Pend
  <2>4. Loose(a, P)' /\ (Anywhere(a, P)' <=> Anywhere(a, P))
    BY <1>1, <1>2, <1>6, <2>3, SameLoose DEF Reading
  <2> QED  BY <1>4, <1>5, <1>6, <2>1, <2>2, <2>3, <2>4, UnparksConserved
<1>9. CASE ~closed
  <2>1. PICK R \in {{r}, Singly(a, r.parts)} : pending' = pending \cup R
    BY <1>9 DEF UnparkGivesBack
  <2>2. Single(R, P) /\ (Has(R, P) <=> Has({r}, P)) /\ \A s \in R : s.agent = a
    <3>1. \A p, q \in r.parts : p \in P /\ q \in P => p = q
      BY <1>3 DEF Single
    <3>2. Single(Singly(a, r.parts), P) /\ (Has(Singly(a, r.parts), P) <=> Has({r}, P))
      BY <1>7, <3>1, SinglyHas
    <3>3. \A s \in Singly(a, r.parts) : s.agent = a
      BY DEF Singly
    <3> QED  BY <1>3, <2>1, <3>2, <3>3
  <2>3. \A b \in Agent : Pend(b)' = Pend(b) \cup (IF b = a THEN R ELSE {})
    BY <2>1, <2>2 DEF Pend, Of
  <2>4. Loose(a, P)' /\ (Anywhere(a, P)' <=> Anywhere(a, P) \/ Has({r}, P))
    <3>1. Pend(a)' = Pend(a) \cup R /\ Pas(a)' = Pas(a) /\ Held(a)' = Held(a)
      BY <1>1, <1>6, <2>3
    <3> QED  BY <1>2, <1>3, <2>2, <3>1, AddsPending DEF Reading
  <2>5. dropped' = dropped \cup none /\ w \notin none
    BY <1>9 DEF UnparkGivesBack
  <2>6. \A b \in Agent : b # a => Pend(b)' = Pend(b)
    BY <2>3
  <2> HIDE DEF none
  <2>7. /\ ReadToks(a, w)' = ReadToks(a, w)
        /\ Anywhere(a, P)' <=> Anywhere(a, P) \/ (Has({r}, P) /\ w \notin none)
        /\ w \in none => Has({r}, P)
    BY <1>5, <2>4, <2>5
  <2>8. \A b \in Agent : b # a => /\ Pend(b)' = Pend(b) /\ Pas(b)' = Pas(b) /\ Held(b)' = Held(b)
                                  /\ ReadToks(b, w)' = ReadToks(b, w)
    BY <1>5, <1>6, <2>6
  <2>9. dropped' = dropped \cup none /\ Loose(a, P)'
    BY <2>4, <2>5
  <2> QED  BY <1>4, <2>7, <2>8, <2>9, UnparksConserved
<1> QED  BY <1>8, <1>9

LEMMA UnparkStartsConserved ==
    ASSUME CInv, NEW w \in Wake, NEW r \in parked, UnparkStarts(r)
    PROVE  Conserved(w)'
<1> DEFINE a == r.agent
           none == {}
           P == Reading(w)
           kept == [NoHold EXCEPT !.kind = "wait", !.held = {r}]
           new == NewFrame(a, r.parts, 0, FALSE, NoToken)
<1>1. a \in Agent /\ r \in Request /\ Park(a) = {r} /\ TypeOK
  BY ParkedAlone DEF CInv, OInv, TypeOK
<1>2. Once(a, w) /\ Loose(a, P)
  BY <1>1 DEF CInv, WInv, Conserved, Once
<1>3. Single({r}, P) /\ (Has({r}, P) => ~Anywhere(a, P))
  BY <1>1, <1>2 DEF Once
<1>4. /\ UNCHANGED <<pending, pass, arrived, over>> /\ parked' = parked \ {r}
      /\ dropped' = dropped \cup none /\ w \notin none
  BY DEF UnparkStarts, story
<1> HIDE DEF none
<1>5. \A b \in Agent : Pend(b)' = Pend(b) /\ Pas(b)' = Pas(b)
  BY <1>4 DEF Pend, Pas
<1>6. CASE bound[a]
  <2>1. hold' = [hold EXCEPT ![a] = kept] /\ UNCHANGED frames
    BY <1>6 DEF UnparkStarts
  <2>2. kept.held = {r}
    BY DEF NoHold
  <2>3. Held(a) = {}
    BY <1>1 DEF UnparkStarts, GoesOn, CInv, WInv, Idle, HoldsIdle, Held
  <2> HIDE DEF kept
  <2>4. \A b \in Agent : Held(b)' = IF b = a THEN Held(b) \cup {r} ELSE Held(b)
    BY <1>1, <2>1, <2>2, <2>3 DEF TypeOK, Held
  <2>5. \A b : ReadToks(b, w)' = ReadToks(b, w)
    BY <2>1 DEF ReadToks, FramesOf, Answers
  <2>6. Loose(a, P)' /\ (Anywhere(a, P)' <=> Anywhere(a, P) \/ Has({r}, P))
    <3>1. Pend(a)' = Pend(a) /\ Pas(a)' = Pas(a) /\ Held(a)' = Held(a) \cup {r}
      BY <1>1, <1>5, <2>4
    <3> QED  BY <1>2, <1>3, <3>1, AddsHeld DEF Reading
  <2>7. \A b \in Agent : b # a => /\ Pend(b)' = Pend(b) /\ Pas(b)' = Pas(b) /\ Held(b)' = Held(b)
                                  /\ ReadToks(b, w)' = ReadToks(b, w)
    BY <1>5, <2>4, <2>5
  <2>8. /\ ReadToks(a, w)' = ReadToks(a, w)
        /\ Anywhere(a, P)' <=> Anywhere(a, P) \/ (Has({r}, P) /\ w \notin none)
        /\ w \in none => Has({r}, P)
    BY <1>4, <2>5, <2>6
  <2>9. Loose(a, P)' /\ dropped' = dropped \cup none
    BY <1>4, <2>6
  <2> QED  BY <1>4, <2>7, <2>8, <2>9, UnparksConserved
<1>7. CASE ~bound[a]
  <2>1. frames' = frames \cup {new} /\ UNCHANGED hold
    BY <1>7 DEF UnparkStarts
  <2>2. new.agent = a /\ (Answers(new, w) <=> Has({r}, P))
    <3>1. new.agent = a /\ new.phase = "starting" /\ new.reads = Reads(r.parts)
      BY DEF NewFrame
    <3>2. r.parts \in SUBSET Part
      BY <1>1 DEF Request
    <3>3. w \in Reads(r.parts) <=> \E p \in r.parts : p \in P
      BY <3>2, ReadingReads
    <3> HIDE DEF new
    <3> QED  BY <3>1, <3>3 DEF Answers, Has
  <2> HIDE DEF new
  <2>3. /\ \A b : b # a => ReadToks(b, w)' = ReadToks(b, w)
        /\ ReadToks(a, w)' = ReadToks(a, w) \cup (IF Has({r}, P) THEN {new.tok} ELSE {})
    BY <2>1, <2>2, NewReads
  <2>4. \A b \in Agent : Held(b)' = Held(b)
    BY <2>1 DEF Held
  <2>5. Loose(a, P)' /\ (Anywhere(a, P)' <=> Anywhere(a, P))
    BY <1>1, <1>2, <1>5, <2>4, SameLoose DEF Reading
  <2>6. \A b \in Agent : b # a => /\ Pend(b)' = Pend(b) /\ Pas(b)' = Pas(b) /\ Held(b)' = Held(b)
                                  /\ ReadToks(b, w)' = ReadToks(b, w)
    BY <1>5, <2>3, <2>4
  <2>7. /\ ReadToks(a, w)' = ReadToks(a, w) \cup (IF Has({r}, P) THEN {new.tok} ELSE {})
        /\ Anywhere(a, P)' <=> Anywhere(a, P)
        /\ w \notin none
    BY <1>4, <2>3, <2>5
  <2>8. Loose(a, P)' /\ dropped' = dropped \cup none
    BY <1>4, <2>5
  <2> QED  BY <1>4, <2>6, <2>7, <2>8, UnparksConserved
<1> QED  BY <1>6, <1>7

(* A turn tries again: held, or under a new frame that reads what the old   *)
(* one read.                                                                *)
LEMMA RetryConserved ==
    ASSUME CInv, NEW w \in Wake, NEW f \in frames, RetryStarts(f)
    PROVE  Conserved(w)'
<1> DEFINE a == f.agent
           kind == IF f.restart THEN "restart" ELSE "retry"
           parts == {[kind |-> kind, reads |-> f.reads]}
           new == NewFrame(a, parts, f.attempt, f.inPass, f.tok)
           handing == [f EXCEPT !.phase = "handing", !.reads = {}]
           none == {}
<1>1. /\ f \in Frame /\ a \in Agent /\ f.tok \in Toks(a) /\ TypeOK /\ Distinct /\ Living(f)
      /\ ~closed /\ f.phase = "backoff" /\ UNCHANGED <<work, story>> /\ OInv /\ Conserved(w) /\ Once(a, w)
  BY FrameTyped DEF CInv, WInv, OInv, Owners, RetryStarts, Living, Gone, host, Conserved
<1>2. ~AuxRunning(a)
  BY <1>1 DEF OInv, Owners, Owned, Excluded, AuxRunning
<1>3. CASE bound[a]
  <2>1. /\ HoldForWait(a, {Continuation(f)})
        /\ Become(f, [f EXCEPT !.phase = "ending"]) /\ UNCHANGED parked
    BY <1>2, <1>3 DEF RetryStarts
  <2>2. \A b \in Agent : Held(b)' = IF b = a THEN Held(b) \cup {Continuation(f)} ELSE Held(b)
    BY <1>1, <2>1, HoldForWaitQueues
  <2>3. Continuation(f) = Request1(a, kind, f.reads) /\ kind \in {"wake", "retry", "restart"}
    BY DEF Continuation
  <2>4. f.phase # "ending"
    BY <1>1
  <2> HIDE DEF kind
  <2> QED  BY <1>1, <2>1, <2>2, <2>3, <2>4, HeldOverConserved
<1>4. CASE ~bound[a]
  <2>1. frames' = (frames \ {f}) \cup {handing, new} /\ UNCHANGED <<hold, parked>>
    BY <1>2, <1>4 DEF RetryStarts
  <2>2. new.agent = a /\ (Answers(new, w) <=> Answers(f, w))
    <3>1. new.agent = a /\ new.phase = "starting" /\ new.reads = Reads(parts)
      BY DEF NewFrame
    <3>2. Reads(parts) = f.reads
      BY DEF Reads
    <3> HIDE DEF new, parts
    <3> QED  BY <1>1, <3>1, <3>2 DEF Answers
  <2>3. handing.agent = a /\ ~Answers(handing, w)
    BY <1>1 DEF Frame, Answers
  <2> HIDE DEF new, handing
  <2>4. \A h : Answers(h, w)' <=> Answers(h, w)
    BY DEF Answers
  <2>5. ASSUME NEW b \in Agent, b # a
        PROVE  ReadToks(b, w)' = ReadToks(b, w)
    BY <2>1, <2>2, <2>3, <2>4, <2>5 DEF ReadToks, FramesOf
  <2> DEFINE L == {h.tok : h \in {k \in frames : k.agent = a /\ Answers(k, w)}}
  <2>6. ReadToks(a, w) = L /\ ReadToks(a, w)' = L'
    BY DEF ReadToks, FramesOf
  <2>7. \A h \in frames \ {f} : h.tok # f.tok
    BY <1>1 DEF Distinct
  <2>8. L' = (L \ {f.tok}) \cup (IF Answers(new, w) THEN {new.tok} ELSE {})
    BY <2>1, <2>2, <2>3, <2>4, <2>7
  <2>9. f.tok \in L <=> Answers(f, w)
    BY <2>7
  <2> HIDE DEF L
  <2>10. \A b \in Agent : SameQueues(b)
    BY <1>1, <2>1 DEF SameQueues, Pend, Pas, Held, Park, work
  <2>11. /\ Loose(a, Reading(w))' /\ (Anywhere(a, Reading(w))' <=> Anywhere(a, Reading(w)))
         /\ Has(Park(a), Reading(w))' <=> Has(Park(a), Reading(w))
         /\ Single(Park(a), Reading(w))'
    <3>1. Loose(a, Reading(w)) /\ Single(Park(a), Reading(w)) /\ Park(a)' = Park(a)
      BY <1>1, <2>10 DEF Once, SameQueues
    <3>2. Loose(a, Reading(w))' /\ (Anywhere(a, Reading(w))' <=> Anywhere(a, Reading(w)))
      BY <1>1, <2>10, <3>1, SameLoose DEF SameQueues, Reading
    <3> QED  BY <3>1, <3>2 DEF Has, Single, Reading
  <2>12. Once(a, w)' /\ (Here(a, w)' <=> Here(a, w))
    <3>1. CASE Answers(f, w)
      <4>1. L = {f.tok}
        BY <1>1, <2>6, <2>9, <3>1 DEF Once
      <4>2. L' = {new.tok}
        BY <2>2, <2>8, <3>1, <4>1
      <4> QED  BY <1>1, <2>6, <2>11, <4>1, <4>2 DEF Once, Here
    <3>2. CASE ~Answers(f, w)
      <4>1. L' = L
        BY <2>2, <2>8, <2>9, <3>2
      <4> QED  BY <1>1, <2>6, <2>11, <4>1 DEF Once, Here
    <3> QED  BY <3>1, <3>2
  <2>13. over' = over \cup none /\ dropped' = dropped \cup none /\ UNCHANGED arrived /\ w \notin none
    BY <1>1 DEF story
  <2> HIDE DEF none
  <2>14. \A b \in Agent : b # a => SameQueues(b) /\ ReadToks(b, w)' = ReadToks(b, w)
    BY <2>5, <2>10
  <2>15. Here(a, w)' <=> Here(a, w) /\ w \notin none /\ w \notin none
    BY <2>12, <2>13
  <2> QED  BY <1>1, <2>12, <2>13, <2>14, <2>15, ActsConserved
<1> QED  BY <1>3, <1>4

-----------------------------------------------------------------------------
(* Turns dropped.                                                           *)

(* All of an agent's requests: one part at most reads the wake, and then no *)
(* frame does.                                                              *)
RequestsOf(b) == Pend(b) \cup Pas(b) \cup Park(b) \cup Held(b)

LEMMA OnceEverywhere ==
    ASSUME NEW b, NEW w, Once(b, w)
    PROVE  /\ Single(RequestsOf(b), Reading(w))
           /\ Has(RequestsOf(b), Reading(w)) => ReadToks(b, w) = {}
           /\ Here(b, w) <=> Has(RequestsOf(b), Reading(w)) \/ ReadToks(b, w) # {}
<1> DEFINE P == Reading(w)
<1>1. Has(RequestsOf(b), P) <=> Anywhere(b, P) \/ Has(Park(b), P)
  <2> HIDE DEF P
  <2> QED  BY DEF RequestsOf, Anywhere, Has
<1>2. /\ Single(Pend(b), P) /\ Single(Pas(b), P) /\ Single(Held(b), P) /\ Single(Park(b), P)
      /\ ~(Has(Pend(b), P) /\ Has(Pas(b), P)) /\ ~(Has(Pend(b), P) /\ Has(Held(b), P))
      /\ ~(Has(Pas(b), P) /\ Has(Held(b), P)) /\ (Anywhere(b, P) => ~Has(Park(b), P))
  BY DEF Once, Loose
<1>3. Single(Pend(b) \cup Pas(b), P) /\ (Has(Pend(b) \cup Pas(b), P) => Anywhere(b, P) /\ ~Has(Held(b), P))
  <2> HIDE DEF P
  <2> QED  BY <1>2, TogetherRequests DEF Anywhere
<1>4. /\ Single(Pend(b) \cup Pas(b) \cup Park(b), P)
      /\ Has(Pend(b) \cup Pas(b) \cup Park(b), P) => ~Has(Held(b), P)
  <2> HIDE DEF P
  <2> QED  BY <1>2, <1>3, TogetherRequests DEF Anywhere
<1>5. Single(RequestsOf(b), P)
  <2> HIDE DEF P
  <2> QED  BY <1>2, <1>4, TogetherRequests DEF RequestsOf
<1> QED  BY <1>1, <1>5 DEF Once, Here

(* Whether a part that goes with the continuations of S reads the wake.     *)
Ends(b, S, w) == \E r \in Going(b, S) : \E p \in r.parts : Continues(p) /\ p \in Reading(w)

(* What else a dropped start read is read by what is queued again.          *)
LEMMA AgainReads ==
    ASSUME NEW b, NEW S, NEW w, Once(b, w)
    PROVE  /\ Single(Again(b, S), Reading(w))
           /\ Has(Again(b, S), Reading(w)) <=>
                \E r \in Going(b, S) : \E p \in r.parts : ~Continues(p) /\ p \in Reading(w)
<1> DEFINE P == Reading(w)
           wakes(r) == {p \in r.parts : ~Continues(p)}
           one(p) == [agent |-> b, parts |-> {p}]
<1>1. Single(RequestsOf(b), P) /\ Going(b, S) \subseteq RequestsOf(b)
  BY OnceEverywhere DEF Going, RequestsOf
<1>2. \A s : s \in Again(b, S) <=> \E r \in Going(b, S) : \E p \in wakes(r) : s = one(p)
  BY DEF Again, Singly
<1>3. \A p : one(p).parts = {p}
  OBVIOUS
<1> HIDE DEF one, P
<1>4. Has(Again(b, S), P) <=> \E r \in Going(b, S) : \E p \in r.parts : ~Continues(p) /\ p \in P
  BY <1>2, <1>3 DEF Has
<1>5. Single(Again(b, S), P)
  <2> SUFFICES ASSUME NEW s \in Again(b, S), NEW t \in Again(b, S), NEW p \in s.parts, NEW q \in t.parts,
                      p \in P, q \in P
               PROVE  s = t /\ p = q
    BY DEF Single
  <2>1. PICK r \in Going(b, S) : p \in wakes(r) /\ s = one(p)
    BY <1>2, <1>3
  <2>2. PICK u \in Going(b, S) : q \in wakes(u) /\ t = one(q)
    BY <1>2, <1>3
  <2>3. p = q
    BY <1>1, <2>1, <2>2 DEF Single
  <2> QED  BY <2>1, <2>2, <2>3
<1> QED  BY <1>4, <1>5 DEF P

(* The agent's wakes after its continuations are dropped.                   *)
LEMMA DropSpot ==
    ASSUME CInv, NEW b \in Agent, NEW S, DropContinuations(S, TRUE), NEW w \in Wake,
           ReadToks(b, w)' = ReadToks(b, w)
    PROVE  /\ Once(b, w)'
           /\ Here(b, w)' <=> Here(b, w) /\ ~Ends(b, S, w)
           /\ Ends(b, S, w) => Here(b, w)
<1> DEFINE P == Reading(w)
<1>1. OInv /\ Once(b, w)
  BY DEF CInv, WInv, Conserved
<1>2. /\ Pend(b)' = Staying(b, S, Pend(b)) \cup Again(b, S)
      /\ Pas(b)' = Staying(b, S, Pas(b))
      /\ Held(b)' = Staying(b, S, Held(b))
      /\ Park(b)' = Staying(b, S, Park(b))
  BY <1>1, DropQueues
<1>3. /\ Single(RequestsOf(b), P) /\ Going(b, S) \subseteq RequestsOf(b)
      /\ Has(RequestsOf(b), P) => ReadToks(b, w) = {}
      /\ Here(b, w) <=> Has(RequestsOf(b), P) \/ ReadToks(b, w) # {}
  BY <1>1, OnceEverywhere DEF Going, RequestsOf
<1>4. Ends(b, S, w) => Has(RequestsOf(b), P)
  BY <1>3 DEF Ends, Has
<1>5. CASE b \notin S
  <2>1. SameQueues(b)
    BY <1>2, <1>5, AgainCarriesNone DEF Staying, SameQueues
  <2>2. ~Ends(b, S, w)
    BY <1>5 DEF Ends, Going
  <2> QED  BY <1>1, <2>1, <2>2, SameSpot
<1>6. CASE b \in S
  <2> DEFINE stay(R) == {r \in R : ~ContinuesTurn(r)}
  <2>1. \A R : Staying(b, S, R) = stay(R)
    BY <1>6 DEF Staying
  <2>2. \A r : r \in Going(b, S) <=> r \in RequestsOf(b) /\ ContinuesTurn(r)
    BY <1>6 DEF Going, RequestsOf
  <2>3. /\ Single(Again(b, S), P)
        /\ Has(Again(b, S), P) <=> \E r \in Going(b, S) : \E p \in r.parts : ~Continues(p) /\ p \in P
    BY <1>1, AgainReads
  <2> HIDE DEF P
  <2>4. \A R \in SUBSET RequestsOf(b) :
          /\ Has(stay(R), P) => Has(R, P) /\ ~Has(Again(b, S), P) /\ ~Ends(b, S, w)
          /\ Single(stay(R), P)
    <3>1. ASSUME NEW R \in SUBSET RequestsOf(b), NEW r \in stay(R), NEW p \in r.parts, p \in P
          PROVE  ~Has(Again(b, S), P) /\ ~Ends(b, S, w)
      <4>1. r \in RequestsOf(b) /\ r \notin Going(b, S)
        BY <2>2
      <4>2. ~\E s \in Going(b, S) : \E q \in s.parts : q \in P
        BY <1>3, <3>1, <4>1 DEF Single
      <4> QED  BY <2>3, <4>2 DEF Ends, P
    <3>2. \A R \in SUBSET RequestsOf(b) : Single(stay(R), P)
      BY <1>3 DEF Single
    <3> QED  BY <3>1, <3>2 DEF Has
  <2>5. Ends(b, S, w) => ~Has(Again(b, S), P)
    BY <1>3, <2>3 DEF Ends, Single, P
  <2>6. Has(Again(b, S), P) => Has(RequestsOf(b), P)
    BY <1>3, <2>3 DEF Has
  <2>7. /\ Pend(b) \in SUBSET RequestsOf(b) /\ Pas(b) \in SUBSET RequestsOf(b)
        /\ Held(b) \in SUBSET RequestsOf(b) /\ Park(b) \in SUBSET RequestsOf(b)
    BY DEF RequestsOf
  <2>8. /\ Has(Pend(b), P)' <=> Has(stay(Pend(b)), P) \/ Has(Again(b, S), P)
        /\ Has(Pas(b), P)' <=> Has(stay(Pas(b)), P)
        /\ Has(Held(b), P)' <=> Has(stay(Held(b)), P)
        /\ Has(Park(b), P)' <=> Has(stay(Park(b)), P)
        /\ Single(Pend(b), P)' <=> Single(stay(Pend(b)) \cup Again(b, S), P)
        /\ Single(Pas(b), P)' <=> Single(stay(Pas(b)), P)
        /\ Single(Held(b), P)' <=> Single(stay(Held(b)), P)
        /\ Single(Park(b), P)' <=> Single(stay(Park(b)), P)
    <3>1. Pend(b)' = stay(Pend(b)) \cup Again(b, S) /\ Pas(b)' = stay(Pas(b))
          /\ Held(b)' = stay(Held(b)) /\ Park(b)' = stay(Park(b))
      BY <1>2, <2>1
    <3>2. P' = P
      BY DEF P, Reading
    <3> HIDE DEF stay
    <3> QED  BY <3>1, <3>2 DEF Has, Single
  <2>9. Single(stay(Pend(b)) \cup Again(b, S), P)
    BY <2>3, <2>4, <2>7, TogetherRequests
  <2>10. /\ Has(stay(Pend(b)), P) => Has(Pend(b), P) /\ ~Has(Again(b, S), P) /\ ~Ends(b, S, w)
         /\ Has(stay(Pas(b)), P) => Has(Pas(b), P) /\ ~Has(Again(b, S), P) /\ ~Ends(b, S, w)
         /\ Has(stay(Held(b)), P) => Has(Held(b), P) /\ ~Has(Again(b, S), P) /\ ~Ends(b, S, w)
         /\ Has(stay(Park(b)), P) => Has(Park(b), P) /\ ~Has(Again(b, S), P) /\ ~Ends(b, S, w)
    BY <2>4, <2>7
  <2>11. /\ ~(Has(Pend(b), P) /\ Has(Pas(b), P)) /\ ~(Has(Pend(b), P) /\ Has(Held(b), P))
         /\ ~(Has(Pas(b), P) /\ Has(Held(b), P))
         /\ Has(Pend(b), P) \/ Has(Pas(b), P) \/ Has(Held(b), P) => ~Has(Park(b), P)
         /\ \A t, u \in ReadToks(b, w) : t = u
    BY <1>1 DEF Once, Loose, Anywhere, P
  <2>12. Has(RequestsOf(b), P) <=> Has(Pend(b), P) \/ Has(Pas(b), P) \/ Has(Held(b), P) \/ Has(Park(b), P)
    BY DEF RequestsOf, Has
  <2>13. Has(RequestsOf(b), P) /\ ~Ends(b, S, w) =>
           \/ Has(stay(Pend(b)), P) \/ Has(stay(Pas(b)), P) \/ Has(stay(Held(b)), P)
           \/ Has(stay(Park(b)), P) \/ Has(Again(b, S), P)
    <3> SUFFICES ASSUME NEW r \in RequestsOf(b), NEW p \in r.parts, p \in P, ~Ends(b, S, w)
                 PROVE  \/ Has(stay(Pend(b)), P) \/ Has(stay(Pas(b)), P) \/ Has(stay(Held(b)), P)
                        \/ Has(stay(Park(b)), P) \/ Has(Again(b, S), P)
      BY DEF Has
    <3>1. CASE ContinuesTurn(r)
      <4>1. r \in Going(b, S)
        BY <2>2, <3>1
      <4>2. ~Continues(p)
        BY <4>1 DEF Ends, P
      <4> QED  BY <2>3, <4>1, <4>2
    <3>2. CASE ~ContinuesTurn(r)
      BY <3>2 DEF RequestsOf, Has
    <3> QED  BY <3>1, <3>2
  <2>14. /\ Has(stay(Pend(b)) , P) \/ Has(Again(b, S), P) \/ Has(stay(Pas(b)), P) \/ Has(stay(Held(b)), P)
              \/ Has(stay(Park(b)), P) => ReadToks(b, w) = {}
    BY <1>3, <2>6, <2>10, <2>12
  <2>15. /\ Single(stay(Pas(b)), P) /\ Single(stay(Held(b)), P) /\ Single(stay(Park(b)), P)
    BY <2>4, <2>7
  <2> HIDE DEF stay
  <2>16. Loose(b, P)' /\ (Anywhere(b, P)' <=> \/ Has(stay(Pend(b)), P) \/ Has(Again(b, S), P)
                                              \/ Has(stay(Pas(b)), P) \/ Has(stay(Held(b)), P))
    BY <2>8, <2>9, <2>10, <2>11, <2>15 DEF Loose, Anywhere
  <2>17. Once(b, w)'
    <3>1. \A t, u \in ReadToks(b, w)' : t = u
      BY <2>11
    <3>2. Single(Park(b), P)'
      BY <2>8, <2>15
    <3>3. Anywhere(b, P)' => ~Has(Park(b), P)' /\ ReadToks(b, w)' = {}
      BY <2>8, <2>10, <2>11, <2>14, <2>16
    <3>4. Has(Park(b), P)' => ReadToks(b, w)' = {}
      BY <2>8, <2>14
    <3> QED  BY <2>16, <3>1, <3>2, <3>3, <3>4 DEF Once, P
  <2>18. Here(b, w)' <=> Here(b, w) /\ ~Ends(b, S, w)
    <3>1. Here(b, w)' <=> Anywhere(b, P)' \/ Has(Park(b), P)' \/ ReadToks(b, w)' # {}
      BY DEF Here, P
    <3> QED  BY <1>3, <1>4, <2>5, <2>6, <2>8, <2>10, <2>12, <2>13, <2>14, <2>16, <3>1
  <2> QED  BY <1>3, <1>4, <2>17, <2>18
<1> QED  BY <1>5, <1>6

(* What goes with the continuations dropped is over.                        *)
LEMMA DropOver ==
    ASSUME OInv, NEW S, DropContinuations(S, TRUE)
    PROVE  \E O : /\ over' = over \cup O /\ UNCHANGED dropped
                  /\ \A w : w \in O <=> \E b \in Agent : Ends(b, S, w)
<1> DEFINE gone(R) == {r \in R : r.agent \in S /\ ContinuesTurn(r)}
           held == UNION {hold[a].held : a \in Agent}
           all == gone(pending \cup pass \cup parked \cup held)
           O == Reads({p \in PartsOf(all) : Continues(p)})
<1>1. over' = over \cup O /\ UNCHANGED dropped
  BY DEF DropContinuations
<1>2. \A b \in Agent : \A r \in hold[b].held : r.agent = b
  BY DEF OInv, Owners, Owned, Held
<1>3. \A r \in all : r \in Request
  BY DEF OInv, TypeOK, Hold
<1>4. \A b \in Agent : \A r : r \in Going(b, S) <=> r \in all /\ r.agent = b
  BY <1>2 DEF Of, Going, Pend, Pas, Park, Held
<1> HIDE DEF all
<1>5. \A w : w \in O <=> \E r \in all : \E p \in r.parts : Continues(p) /\ w \in p.reads
  BY DEF Reads, PartsOf
<1>6. \A w : w \in O <=> \E b \in Agent : Ends(b, S, w)
  BY <1>3, <1>4, <1>5 DEF Ends, Reading, Request
<1> QED  BY <1>1, <1>6

LEMMA DropsConserved ==
    ASSUME CInv, NEW S, DropContinuations(S, TRUE), UNCHANGED arrived, NEW w \in Wake,
           \A b \in Agent : ReadToks(b, w)' = ReadToks(b, w)
    PROVE  Conserved(w)'
<1> DEFINE none == {}
<1>1. Conserved(w) /\ OInv
  BY DEF CInv, WInv
<1>2. PICK O : /\ over' = over \cup O /\ UNCHANGED dropped
               /\ \A v : v \in O <=> \E b \in Agent : Ends(b, S, v)
  BY <1>1, DropOver
<1>3. \A b \in Agent : /\ Once(b, w)'
                       /\ Here(b, w)' <=> Here(b, w) /\ ~Ends(b, S, w)
                       /\ Ends(b, S, w) => Here(b, w)
  BY DropSpot
<1>4. \A b \in Agent : Here(b, w) => b = AgentOf[w]
  BY <1>1 DEF Conserved
<1>5. \A b \in Agent : Here(b, w) => (Ends(b, S, w) <=> w \in O)
  BY <1>2, <1>3, <1>4
<1>6. dropped' = dropped \cup none /\ w \notin none
  BY <1>2
<1> HIDE DEF none
<1>7. \A b \in Agent : Once(b, w)' /\ (Here(b, w)' <=> Here(b, w) /\ w \notin O /\ w \notin none)
  BY <1>3, <1>5, <1>6
<1>8. w \in O \/ w \in none => \E b \in Agent : Here(b, w)
  BY <1>2, <1>3, <1>6
<1> QED  BY <1>1, <1>2, <1>6, <1>7, <1>8, MovesConserved

LEMMA AbortConserved ==
    ASSUME CInv, NEW a \in Agent, Abort(a), NEW w \in Wake
    PROVE  Conserved(w)'
<1>1. UNCHANGED arrived
  BY DEF Abort
<1>2. CASE \E f \in Abortable(a) :
             /\ f.stop = "none"
             /\ Become(f, [f EXCEPT !.stop = "caller"])
             /\ UNCHANGED <<pending, pass, parked, hold, gate, aux, over, dropped>>
  <2> DEFINE none == {}
  <2>1. PICK f \in frames : /\ Become(f, [f EXCEPT !.stop = "caller"])
                            /\ UNCHANGED <<pending, pass, parked, hold, over, dropped>>
    BY <1>2 DEF Abortable
  <2> DEFINE g == [f EXCEPT !.stop = "caller"]
  <2>2. g.tok = f.tok /\ g.agent = f.agent /\ (Answers(g, w) <=> Answers(f, w))
    <3>1. f \in Frame
      BY FrameTyped DEF CInv, OInv
    <3> QED  BY <3>1 DEF Frame, Answers
  <2>3. \A b \in Agent : SameQueues(b)
    BY <2>1 DEF SameQueues, Pend, Pas, Held, Park
  <2>4. Become(f, g) /\ over' = over \cup none /\ dropped' = dropped \cup none /\ w \notin none
    BY <2>1
  <2> HIDE DEF g, none
  <2> QED  BY <1>1, <2>2, <2>3, <2>4, FrameEndsConserved
<1>3. CASE DropContinuations({a}, TRUE) /\ UNCHANGED frames
  <2>1. \A b \in Agent : ReadToks(b, w)' = ReadToks(b, w)
    BY <1>3 DEF ReadToks, FramesOf, Answers
  <2> QED  BY <1>1, <1>3, <2>1, DropsConserved
<1> QED  BY <1>2, <1>3 DEF Abort

(* Frames told to stop read what they read.                                 *)
Marks(M, s) == frames' = {IF f \in M THEN [f EXCEPT !.stop = s] ELSE f : f \in frames}

LEMMA MarkedReads ==
    ASSUME TypeOK, NEW M, NEW s, NEW w, Marks(M, s)
    PROVE  \A b : ReadToks(b, w)' = ReadToks(b, w)
<1> DEFINE marked(f) == IF f \in M THEN [f EXCEPT !.stop = s] ELSE f
<1>1. \A f \in frames : /\ marked(f).tok = f.tok /\ marked(f).agent = f.agent
                        /\ Answers(marked(f), w) <=> Answers(f, w)
  <2>1. \A f \in Frame : /\ [f EXCEPT !.stop = s].tok = f.tok /\ [f EXCEPT !.stop = s].agent = f.agent
                         /\ [f EXCEPT !.stop = s].phase = f.phase /\ [f EXCEPT !.stop = s].reads = f.reads
    BY DEF Frame
  <2> QED  BY <2>1 DEF TypeOK, Answers
<1>2. frames' = {marked(f) : f \in frames}
  BY DEF Marks
<1> HIDE DEF marked
<1>3. \A h : Answers(h, w)' <=> Answers(h, w)
  BY DEF Answers
<1> QED  BY <1>1, <1>2, <1>3 DEF ReadToks, FramesOf

LEMMA AbandonConserved ==
    ASSUME CInv, Abandon, NEW w \in Wake
    PROVE  Conserved(w)'
<1> DEFINE S == {r.agent : r \in OnTheirWay({})}
           abandoned(f) == /\ f.agent \notin S
                           /\ f.stop \in {"none", "caller"}
                           /\ Waiting(f) \/ (f.phase = "streaming" /\ f.stop = "none")
           M == {f \in frames : abandoned(f)}
<1>1. /\ DropContinuations(S, TRUE)
      /\ frames' = {IF abandoned(f) THEN [f EXCEPT !.stop = "abandon"] ELSE f : f \in frames}
      /\ UNCHANGED arrived
  BY DEF Abandon
<1>2. frames' = {IF f \in M THEN [f EXCEPT !.stop = "abandon"] ELSE f : f \in frames}
  <2>1. \A f \in frames : abandoned(f) <=> f \in M
    OBVIOUS
  <2> HIDE DEF abandoned, M
  <2> QED  BY <1>1, <2>1
<1> HIDE DEF M, S
<1>3. \A b : ReadToks(b, w)' = ReadToks(b, w)
  <2>1. Marks(M, "abandon")
    BY <1>2 DEF Marks
  <2> QED  BY <2>1, MarkedReads DEF CInv, OInv
<1> QED  BY <1>1, <1>3, DropsConserved

(* stop() ends the turns on their way and gives up what was held.           *)
LEMMA StopReads ==
    ASSUME OInv, Stop, NEW w
    PROVE  \E O, D :
             /\ over' = over \cup O /\ dropped' = dropped \cup D
             /\ w \in O <=> \E b \in Agent : Ends(b, Agent, w)
             /\ w \in D <=> \E b \in Agent :
                  \/ \E r \in Going(b, Agent) : \E p \in r.parts : ~Continues(p) /\ p \in Reading(w)
                  \/ \E r \in Held(b) \ Going(b, Agent) : \E p \in r.parts : p \in Reading(w)
<1> DEFINE held == UNION {hold[a].held : a \in Agent}
           ending == {r \in pending \cup pass \cup parked \cup held : ContinuesTurn(r)}
           lost == held \ ending
           O == Reads({p \in PartsOf(ending) : Continues(p)})
           D == Reads({p \in PartsOf(ending) : ~Continues(p)}) \cup Reads(PartsOf(lost))
<1>1. over' = over \cup O /\ dropped' = dropped \cup D
  BY DEF Stop
<1>2. \A b \in Agent : \A r \in hold[b].held : r.agent = b
  BY DEF OInv, Owners, Owned, Held
<1>3. /\ \A r \in ending : r \in Request /\ r.agent \in Agent
      /\ \A r \in lost : r \in Request /\ r.agent \in Agent
  BY DEF OInv, TypeOK, Hold, Request
<1>4. \A b \in Agent : \A r : /\ r \in Going(b, Agent) <=> r \in ending /\ r.agent = b
                              /\ r \in Held(b) \ Going(b, Agent) <=> r \in lost /\ r.agent = b
  BY <1>2 DEF Of, Going, Pend, Pas, Park, Held
<1> HIDE DEF ending, lost
<1>5. /\ w \in O <=> \E r \in ending : \E p \in r.parts : Continues(p) /\ w \in p.reads
      /\ w \in D <=> \/ \E r \in ending : \E p \in r.parts : ~Continues(p) /\ w \in p.reads
                     \/ \E r \in lost : \E p \in r.parts : w \in p.reads
  BY DEF Reads, PartsOf
<1>6. /\ \A r \in ending : \A p \in r.parts : p \in Reading(w) <=> w \in p.reads
      /\ \A r \in lost : \A p \in r.parts : p \in Reading(w) <=> w \in p.reads
  BY <1>3 DEF Reading, Request
<1>7. w \in O <=> \E b \in Agent : Ends(b, Agent, w)
  BY <1>3, <1>4, <1>5, <1>6 DEF Ends
<1>8. w \in D <=> \E b \in Agent :
         \/ \E r \in Going(b, Agent) : \E p \in r.parts : ~Continues(p) /\ p \in Reading(w)
         \/ \E r \in Held(b) \ Going(b, Agent) : \E p \in r.parts : p \in Reading(w)
  BY <1>3, <1>4, <1>5, <1>6
<1> QED  BY <1>1, <1>7, <1>8

(* The agent's wakes after that.                                            *)
LEMMA StopSpot ==
    ASSUME CInv, NEW b \in Agent, NEW w \in Wake, Stop, ReadToks(b, w)' = ReadToks(b, w)
    PROVE  /\ Once(b, w)'
           /\ Here(b, w)' <=> /\ Here(b, w)
                              /\ ~\E r \in Going(b, Agent) \cup Held(b) : \E p \in r.parts : p \in Reading(w)
<1> DEFINE P == Reading(w)
           stay(R) == {r \in R : ~ContinuesTurn(r)}
<1>1. OInv /\ Once(b, w)
  BY DEF CInv, WInv, Conserved
<1>2. /\ Single(RequestsOf(b), P)
      /\ Has(RequestsOf(b), P) => ReadToks(b, w) = {}
      /\ Here(b, w) <=> Has(RequestsOf(b), P) \/ ReadToks(b, w) # {}
  BY <1>1, OnceEverywhere
<1>3. /\ Pend(b)' = stay(Pend(b)) /\ Pas(b)' = stay(Pas(b)) /\ Park(b)' = stay(Park(b)) /\ Held(b)' = {}
  BY DEF Stop, NoHold, Pend, Pas, Park, Held, Of
<1>4. \A r : r \in Going(b, Agent) <=> r \in RequestsOf(b) /\ ContinuesTurn(r)
  BY DEF Going, RequestsOf
<1>5. /\ ~(Has(Pend(b), P) /\ Has(Pas(b), P))
      /\ Has(Pend(b), P) \/ Has(Pas(b), P) => ~Has(Park(b), P)
      /\ \A t, u \in ReadToks(b, w) : t = u
  BY <1>1 DEF Once, Loose, Anywhere
<1>6. P' = P
  BY DEF Reading
<1> HIDE DEF P
<1>7. /\ Has(Pend(b), P)' <=> Has(stay(Pend(b)), P)
      /\ Has(Pas(b), P)' <=> Has(stay(Pas(b)), P)
      /\ Has(Park(b), P)' <=> Has(stay(Park(b)), P)
      /\ ~Has(Held(b), P)' /\ Single(Held(b), P)'
      /\ Single(Pend(b), P)' <=> Single(stay(Pend(b)), P)
      /\ Single(Pas(b), P)' <=> Single(stay(Pas(b)), P)
      /\ Single(Park(b), P)' <=> Single(stay(Park(b)), P)
  <2> HIDE DEF stay
  <2> QED  BY <1>3, <1>6 DEF Has, Single
<1>8. \A R \in SUBSET RequestsOf(b) : Single(stay(R), P) /\ (Has(stay(R), P) => Has(R, P))
  BY <1>2 DEF Single, Has
<1>9. /\ Pend(b) \in SUBSET RequestsOf(b) /\ Pas(b) \in SUBSET RequestsOf(b)
      /\ Park(b) \in SUBSET RequestsOf(b)
  BY DEF RequestsOf
<1>10. Has(stay(Pend(b)), P) \/ Has(stay(Pas(b)), P) \/ Has(stay(Park(b)), P) <=>
         /\ Has(RequestsOf(b), P)
         /\ ~\E r \in Going(b, Agent) \cup Held(b) : \E p \in r.parts : p \in P
  <2>1. ASSUME NEW r \in RequestsOf(b), NEW p \in r.parts, p \in P
        PROVE  r \in Going(b, Agent) \cup Held(b) \/ r \in stay(Pend(b)) \/ r \in stay(Pas(b))
                 \/ r \in stay(Park(b))
    BY <1>4 DEF RequestsOf
  <2>2. ASSUME NEW r \in stay(Pend(b)) \cup stay(Pas(b)) \cup stay(Park(b)), NEW p \in r.parts, p \in P,
               NEW s \in Going(b, Agent) \cup Held(b), NEW q \in s.parts, q \in P
        PROVE  FALSE
    <3>1. r \in RequestsOf(b) /\ s \in RequestsOf(b) /\ ~ContinuesTurn(r)
      BY <1>4 DEF RequestsOf
    <3>2. r = s
      BY <1>2, <2>2, <3>1 DEF Single
    <3>3. r \in Held(b) /\ (r \in Pend(b) \/ r \in Pas(b) \/ r \in Park(b))
      BY <1>4, <3>1, <3>2
    <3> QED  BY <1>1, <2>2, <3>3 DEF Once, Loose, Anywhere, Has, P
  <2> HIDE DEF stay
  <2>3. Has(RequestsOf(b), P) /\ (~\E r \in Going(b, Agent) \cup Held(b) : \E p \in r.parts : p \in P) =>
          Has(stay(Pend(b)), P) \/ Has(stay(Pas(b)), P) \/ Has(stay(Park(b)), P)
    BY <2>1 DEF Has
  <2>4. Has(stay(Pend(b)), P) \/ Has(stay(Pas(b)), P) \/ Has(stay(Park(b)), P) =>
          ~\E r \in Going(b, Agent) \cup Held(b) : \E p \in r.parts : p \in P
    BY <2>2 DEF Has
  <2>5. Has(stay(Pend(b)), P) \/ Has(stay(Pas(b)), P) \/ Has(stay(Park(b)), P) => Has(RequestsOf(b), P)
    <3>1. Has(Pend(b), P) \/ Has(Pas(b), P) \/ Has(Park(b), P) => Has(RequestsOf(b), P)
      BY DEF RequestsOf, Has
    <3> QED  BY <1>8, <1>9, <3>1
  <2> QED  BY <2>3, <2>4, <2>5
<1>11. Has(Going(b, Agent) \cup Held(b), P) => Has(RequestsOf(b), P)
  BY <1>4 DEF RequestsOf, Has
<1> HIDE DEF stay
<1>12. Once(b, w)'
  <2>1. Loose(b, P)' /\ (Anywhere(b, P)' <=> Has(stay(Pend(b)), P) \/ Has(stay(Pas(b)), P))
    BY <1>5, <1>7, <1>8, <1>9 DEF Loose, Anywhere
  <2>2. Single(Park(b), P)' /\ \A t, u \in ReadToks(b, w)' : t = u
    BY <1>5, <1>7, <1>8, <1>9
  <2>3. Anywhere(b, P)' => ~Has(Park(b), P)' /\ ReadToks(b, w)' = {}
    BY <1>2, <1>5, <1>7, <1>8, <1>9, <1>10, <2>1
  <2>4. Has(Park(b), P)' => ReadToks(b, w)' = {}
    BY <1>2, <1>7, <1>10
  <2> QED  BY <2>1, <2>2, <2>3, <2>4 DEF Once, P
<1>13. Here(b, w)' <=> Here(b, w) /\ ~\E r \in Going(b, Agent) \cup Held(b) : \E p \in r.parts : p \in P
  <2>1. Here(b, w)' <=> \/ Has(stay(Pend(b)), P) \/ Has(stay(Pas(b)), P) \/ Has(stay(Park(b)), P)
                        \/ ReadToks(b, w) # {}
    BY <1>7 DEF Here, Anywhere, P
  <2>2. (\E r \in Going(b, Agent) \cup Held(b) : \E p \in r.parts : p \in P) => ReadToks(b, w) = {}
    BY <1>2, <1>11 DEF Has
  <2> QED  BY <1>2, <1>10, <2>1, <2>2
<1> QED  BY <1>12, <1>13 DEF P

LEMMA StopConserved ==
    ASSUME CInv, Stop, NEW w \in Wake
    PROVE  Conserved(w)'
<1> DEFINE M == {f \in frames : f.phase = "streaming" /\ f.stop \in {"none", "abandon"}}
           P == Reading(w)
           lost(b) == \E r \in Going(b, Agent) \cup Held(b) : \E p \in r.parts : p \in P
<1>1. Conserved(w) /\ OInv /\ TypeOK
  BY DEF CInv, WInv, OInv
<1>2. frames' = {IF f \in M THEN [f EXCEPT !.stop = "shutdown"] ELSE f : f \in frames} /\ UNCHANGED arrived
  <2>1. frames' = {IF f.phase = "streaming" /\ f.stop \in {"none", "abandon"}
                   THEN [f EXCEPT !.stop = "shutdown"] ELSE f : f \in frames} /\ UNCHANGED arrived
    BY DEF Stop
  <2>2. \A f \in frames : f.phase = "streaming" /\ f.stop \in {"none", "abandon"} <=> f \in M
    OBVIOUS
  <2> HIDE DEF M
  <2> QED  BY <2>1, <2>2
<1> HIDE DEF M
<1>3. \A b : ReadToks(b, w)' = ReadToks(b, w)
  <2>1. Marks(M, "shutdown")
    BY <1>2 DEF Marks
  <2> QED  BY <1>1, <2>1, MarkedReads
<1>4. \A b \in Agent : Once(b, w)' /\ (Here(b, w)' <=> Here(b, w) /\ ~lost(b))
  BY <1>3, StopSpot
<1>5. PICK O, D :
        /\ over' = over \cup O /\ dropped' = dropped \cup D
        /\ w \in O <=> \E b \in Agent : Ends(b, Agent, w)
        /\ w \in D <=> \E b \in Agent :
             \/ \E r \in Going(b, Agent) : \E p \in r.parts : ~Continues(p) /\ p \in P
             \/ \E r \in Held(b) \ Going(b, Agent) : \E p \in r.parts : p \in P
  BY <1>1, StopReads
<1>6. w \in O \/ w \in D <=> \E b \in Agent : lost(b)
  BY <1>5 DEF Ends
<1>7. ASSUME NEW b \in Agent
      PROVE  /\ Single(RequestsOf(b), P)
             /\ lost(b) => Here(b, w)
             /\ Going(b, Agent) \subseteq RequestsOf(b) /\ Held(b) \subseteq RequestsOf(b)
             /\ Here(b, w) => b = AgentOf[w]
  <2>1. Once(b, w) /\ (Here(b, w) => b = AgentOf[w])
    BY <1>1 DEF Conserved
  <2>2. /\ Single(RequestsOf(b), P)
        /\ Here(b, w) <=> Has(RequestsOf(b), P) \/ ReadToks(b, w) # {}
    BY <2>1, OnceEverywhere
  <2>3. Going(b, Agent) \subseteq RequestsOf(b) /\ Held(b) \subseteq RequestsOf(b)
    BY DEF Going, RequestsOf
  <2> QED  BY <2>1, <2>2, <2>3 DEF Has
<1>8. ~(w \in O /\ w \in D)
  <2> SUFFICES ASSUME w \in O, w \in D
               PROVE  FALSE
    OBVIOUS
  <2>1. PICK b \in Agent : Ends(b, Agent, w)
    BY <1>5
  <2>2. PICK r \in Going(b, Agent) : \E p \in r.parts : Continues(p) /\ p \in P
    BY <2>1 DEF Ends
  <2>3. PICK p \in r.parts : Continues(p) /\ p \in P
    BY <2>2
  <2>4. PICK c \in Agent : \/ \E s \in Going(c, Agent) : \E q \in s.parts : ~Continues(q) /\ q \in P
                           \/ \E s \in Held(c) \ Going(c, Agent) : \E q \in s.parts : q \in P
    BY <1>5
  <2>5. lost(b) /\ lost(c)
    BY <2>3, <2>4
  <2>6. b = c
    BY <1>7, <2>5
  <2>7. PICK s \in Going(b, Agent) \cup Held(b) :
          \E q \in s.parts : q \in P /\ (~Continues(q) \/ s \notin Going(b, Agent))
    BY <2>4, <2>6
  <2>8. PICK q \in s.parts : q \in P /\ (~Continues(q) \/ s \notin Going(b, Agent))
    BY <2>7
  <2>9. r = s /\ p = q
    BY <1>7, <2>3, <2>8 DEF Single
  <2> QED  BY <2>3, <2>8, <2>9
<1>9. \A b \in Agent : Here(b, w) => (lost(b) <=> w \in O \/ w \in D)
  BY <1>6, <1>7
<1> HIDE DEF lost
<1>10. \A b \in Agent : Once(b, w)' /\ (Here(b, w)' <=> Here(b, w) /\ w \notin O /\ w \notin D)
  BY <1>4, <1>9
<1>11. w \in O \/ w \in D => \E b \in Agent : Here(b, w)
  BY <1>6, <1>7
<1> QED  BY <1>1, <1>2, <1>5, <1>8, <1>10, <1>11, MovesConserved

-----------------------------------------------------------------------------
(* What is idle stays idle.                                                 *)

(* One hold changes.                                                        *)
LEMMA HoldIdle ==
    ASSUME TypeOK, HoldsIdle, NEW a \in Agent, NEW h, hold' = [hold EXCEPT ![a] = h],
           h.kind = "none" => h.held = {}
    PROVE  HoldsIdle'
<1>1. \A b \in Agent : hold'[b] = IF b = a THEN h ELSE hold[b]
  BY DEF TypeOK
<1> QED  BY <1>1 DEF HoldsIdle

(* The records a hold becomes.                                              *)
LEMMA HoldRecords ==
    ASSUME NEW h \in Hold, NEW R
    PROVE  /\ Adding(h, R).kind = h.kind
           /\ NoHold.held = {}
           /\ [NoHold EXCEPT !.kind = "wait", !.held = R].kind = "wait"
           /\ [NoHold EXCEPT !.kind = "rearm", !.held = R].kind = "rearm"
BY DEF Adding, NoHold, Hold

LEMMA PassHoldsIdle ==
    ASSUME TypeOK, HoldsIdle, NEW a \in Agent, PassStep(a)
    PROVE  HoldsIdle'
<1>1. hold[a] \in Hold
  BY DEF TypeOK
<1>2. CASE PassHolds(a)
  <2> DEFINE h == Adding(hold[a], Of(a, pass))
  <2>1. hold' = [hold EXCEPT ![a] = h] /\ h.kind # "none"
    BY <1>1, <1>2, HoldRecords DEF PassHolds
  <2> HIDE DEF h
  <2> QED  BY <2>1, HoldIdle
<1>3. CASE PassWaits(a)
  <2> DEFINE h == IF closed THEN NoHold ELSE [NoHold EXCEPT !.kind = "wait", !.held = Singly(a, Unheld(a))]
  <2>1. hold' = [hold EXCEPT ![a] = h] /\ (h.kind = "none" => h.held = {})
    BY <1>1, <1>3, HoldRecords DEF PassWaits
  <2> HIDE DEF h
  <2> QED  BY <2>1, HoldIdle
<1>4. CASE hold' = [hold EXCEPT ![a] = NoHold]
  BY <1>1, <1>4, HoldRecords, HoldIdle
<1> QED  BY <1>2, <1>3, <1>4 DEF PassStep, PassParks, PassRequeues, PassReads, PassDrops, PassStarts,
                                 PassStopped, TakeGroup

LEMMA HoldForWaitIdle ==
    ASSUME TypeOK, HoldsIdle, NEW a \in Agent, NEW R, HoldForWait(a, R)
    PROVE  HoldsIdle'
<1> DEFINE h == IF hold[a].kind \in {"accel", "rearm"} THEN Adding(hold[a], R)
                ELSE [NoHold EXCEPT !.kind = "wait", !.held = hold[a].held \cup R]
<1>1. hold[a] \in Hold
  BY DEF TypeOK
<1>2. hold' = [hold EXCEPT ![a] = h] /\ h.kind # "none"
  BY <1>1, HoldRecords DEF HoldForWait
<1> HIDE DEF h
<1> QED  BY <1>2, HoldIdle

LEMMA FrameHoldsIdle ==
    ASSUME TypeOK, HoldsIdle, NEW f \in frames, FrameStep(f)
    PROVE  HoldsIdle'
<1> DEFINE a == f.agent
<1>1. a \in Agent /\ hold[a] \in Hold
  BY FrameTyped DEF TypeOK
<1>2. CASE UNCHANGED hold
  BY <1>2 DEF HoldsIdle
<1>3. CASE \E R : HoldForWait(a, R)
  BY <1>1, <1>3, HoldForWaitIdle
<1>4. CASE FailsIntoHold(f)
  <2> DEFINE h == [kind |-> "accel", held |-> hold[a].held \cup {Continuation(f)},
                   aux |-> FALSE, emptied |-> FALSE]
  <2>1. hold' = [hold EXCEPT ![a] = h] /\ h.kind # "none"
    BY <1>4 DEF FailsIntoHold
  <2> HIDE DEF h
  <2> QED  BY <1>1, <2>1, HoldIdle
<1>5. CASE FailsExhausted(f)
  <2> DEFINE again == Request1(a, "wake", f.reads)
             h == IF hold[a].kind # "none" THEN Adding(hold[a], {again})
                  ELSE [NoHold EXCEPT !.kind = "rearm", !.held = {again}]
  <2>1. UNCHANGED hold \/ hold' = [hold EXCEPT ![a] = h]
    BY <1>5 DEF FailsExhausted
  <2>2. h.kind # "none"
    BY <1>1, HoldRecords
  <2> HIDE DEF h
  <2> QED  BY <1>1, <1>2, <2>1, <2>2, HoldIdle
<1> QED  BY <1>2, <1>3, <1>4, <1>5 DEF FrameStep, BeginStreams, BeginStopped, BeginWithdrawn, BeginHeld,
            FailsIntoWait, FailsIntoRetry, GuardRetries, RetryStarts, Completes, BudgetRestarts, EndsTurn,
            Aborted, Leaves

(* Holds that lose some of what they held.                                  *)
LEMMA HoldsShrinkIdle ==
    ASSUME HoldsIdle, \A b \in Agent : hold'[b].kind = hold[b].kind /\ hold'[b].held \subseteq hold[b].held
    PROVE  HoldsIdle'
BY DEF HoldsIdle

LEMMA WithdrawHoldsIdle ==
    ASSUME TypeOK, HoldsIdle, NEW w \in Wake, Withdraw(w)
    PROVE  HoldsIdle'
<1> DEFINE left(b) == Without(w, hold[b].held)
           out(b) == hold[b].emptied \/ (hold[b].held # {} /\ left(b) = {})
<1>1. hold' = [b \in Agent |-> [hold[b] EXCEPT !.held = left(b), !.emptied = out(b)]]
  BY DEF Withdraw, TypeOK, Hold
<1>2. \A b \in Agent : hold[b] \in Hold /\ (hold[b].held = {} => left(b) = {})
  BY DEF TypeOK, Without
<1> HIDE DEF left, out
<1>3. \A b \in Agent : hold'[b].kind = hold[b].kind /\ hold'[b].held = left(b)
  BY <1>1, <1>2 DEF Hold
<1> QED  BY <1>2, <1>3 DEF HoldsIdle

LEMMA DropHoldsIdle ==
    ASSUME TypeOK, HoldsIdle, NEW S, DropContinuations(S, TRUE)
    PROVE  HoldsIdle'
<1> DEFINE gone(R) == {r \in R : r.agent \in S /\ ContinuesTurn(r)}
           left(b) == hold[b].held \ gone(hold[b].held)
           out(b) == hold[b].emptied \/ (hold[b].held # {} /\ left(b) = {})
<1>1. hold' = [b \in Agent |-> [hold[b] EXCEPT !.held = left(b), !.emptied = out(b)]]
  BY DEF DropContinuations, TypeOK, Hold
<1>2. \A b \in Agent : hold[b] \in Hold /\ left(b) \subseteq hold[b].held
  BY DEF TypeOK
<1> HIDE DEF left, out
<1>3. \A b \in Agent : hold'[b].kind = hold[b].kind /\ hold'[b].held = left(b)
  BY <1>1, <1>2 DEF Hold
<1> QED  BY <1>2, <1>3, HoldsShrinkIdle

LEMMA StepHoldsIdle ==
    ASSUME TypeOK, HoldsIdle, [Next]_vars
    PROVE  HoldsIdle'
<1>1. CASE UNCHANGED hold
  BY <1>1 DEF HoldsIdle
<1>2. ASSUME NEW r \in parked, UnparkStarts(r)
      PROVE  HoldsIdle'
  <2> DEFINE a == r.agent
             h == [NoHold EXCEPT !.kind = "wait", !.held = {r}]
  <2>1. UNCHANGED hold \/ hold' = [hold EXCEPT ![a] = h]
    BY <1>2 DEF UnparkStarts
  <2>2. a \in Agent /\ h.kind # "none"
    BY DEF TypeOK, Request, NoHold
  <2> HIDE DEF h
  <2> QED  BY <1>1, <2>1, <2>2, HoldIdle
<1>3. ASSUME NEW x \in Aux, AuxStep(x)
      PROVE  HoldsIdle'
  <2> DEFINE a == AuxAgent[x]
             h == [kind |-> "accel", held |-> hold[a].held, aux |-> hold[a].kind = "none" \/ hold[a].aux,
                   emptied |-> hold[a].emptied /\ hold[a].held = {}]
  <2>1. UNCHANGED hold \/ hold' = [hold EXCEPT ![a] = h]
    BY <1>3 DEF AuxStep, AuxCalls, AuxWoken, AuxEnds, AuxFails, TypeOK
  <2>2. a \in Agent /\ h.kind # "none"
    BY SchedulerConstants
  <2> HIDE DEF h
  <2> QED  BY <1>1, <2>1, <2>2, HoldIdle
<1>4. ASSUME NEW a \in Agent, HoldExpires(a)
      PROVE  HoldsIdle'
  <2>1. hold' = [hold EXCEPT ![a] = NoHold] /\ NoHold.held = {}
    BY <1>4 DEF HoldExpires, NoHold
  <2> QED  BY <2>1, HoldIdle
<1>5. CASE Operator
  <2>1. CASE Stop
    BY <2>1 DEF Stop, HoldsIdle, NoHold
  <2>2. UNCHANGED hold \/ Stop \/ \E S : DropContinuations(S, TRUE)
    BY <1>5 DEF Operator, Quiesce, Abandon, ResumeBegins, ResumeEnds, Abort
  <2> QED  BY <1>1, <2>1, <2>2, DropHoldsIdle
<1>6. UNCHANGED hold \/ (\E w \in Wake : Withdraw(w)) \/ (\E a \in Agent : PassStep(a))
        \/ (\E r \in parked : UnparkStarts(r)) \/ (\E f \in frames : FrameStep(f))
        \/ (\E x \in Aux : AuxStep(x)) \/ (\E a \in Agent : HoldExpires(a)) \/ Operator
  BY DEF Next, vars, WakeArrives, PassBegins, PassEnds, UnparkGivesBack, WaitEnds
<1> QED  BY <1>1, <1>2, <1>3, <1>4, <1>5, <1>6, WithdrawHoldsIdle, PassHoldsIdle, FrameHoldsIdle

(* The pass's hands fill when a pass begins only.                           *)
LEMMA StepPassIdle ==
    ASSUME PassIdle, [Next]_vars
    PROVE  PassIdle'
<1> DEFINE Same == passing' = passing /\ (pass = {} => pass' = {})
<1>1. ASSUME NEW w \in Wake, WakeArrives(w) \/ Withdraw(w) PROVE Same
  <2>1. CASE WakeArrives(w)
    BY <2>1 DEF WakeArrives
  <2>2. CASE Withdraw(w)
    BY <2>2 DEF Withdraw, Without
  <2> QED  BY <1>1, <2>1, <2>2
<1>2. ASSUME NEW a \in Agent, PassStep(a) PROVE Same
  <2>1. passing' = passing /\ pass' = pass \ Of(a, pass)
    <3>1. CASE PassHolds(a)
      BY <3>1 DEF PassHolds
    <3>2. CASE PassWaits(a)
      BY <3>2 DEF PassWaits
    <3>3. CASE PassParks(a)
      BY <3>3 DEF PassParks, TakeGroup
    <3>4. CASE PassRequeues(a)
      BY <3>4 DEF PassRequeues, TakeGroup
    <3>5. CASE PassReads(a)
      BY <3>5 DEF PassReads, TakeGroup
    <3>6. CASE PassDrops(a)
      BY <3>6 DEF PassDrops, TakeGroup
    <3>7. CASE PassStarts(a)
      BY <3>7 DEF PassStarts, TakeGroup
    <3>8. CASE PassStopped(a)
      BY <3>8 DEF PassStopped, TakeGroup
    <3> QED  BY <1>2, <3>1, <3>2, <3>3, <3>4, <3>5, <3>6, <3>7, <3>8 DEF PassStep
  <2> QED  BY <2>1
<1>3. ASSUME NEW r \in parked, UnparkGivesBack(r) \/ UnparkStarts(r) PROVE Same
  <2>1. CASE UnparkGivesBack(r)
    BY <2>1 DEF UnparkGivesBack
  <2>2. CASE UnparkStarts(r)
    BY <2>2 DEF UnparkStarts
  <2> QED  BY <1>3, <2>1, <2>2
<1>4. ASSUME NEW f \in frames, FrameStep(f) PROVE Same
  <2>1. QueueSame \/ UNCHANGED work => Same
    BY DEF QueueSame, work
  <2>2. CASE BeginStreams(f) \/ BeginStopped(f) \/ BeginWithdrawn(f) \/ BeginHeld(f)
    BY <2>1, <2>2 DEF BeginStreams, BeginStopped, BeginWithdrawn, BeginHeld
  <2>3. CASE FailsIntoHold(f) \/ FailsIntoWait(f)
    BY <2>1, <2>3 DEF FailsIntoHold, FailsIntoWait
  <2>4. CASE FailsIntoRetry(f) \/ FailsExhausted(f) \/ GuardRetries(f)
    BY <2>1, <2>4 DEF FailsIntoRetry, FailsExhausted, GuardRetries
  <2>5. CASE RetryStarts(f)
    BY <2>1, <2>5 DEF RetryStarts
  <2>6. CASE Completes(f)
    BY <2>6 DEF Completes
  <2>7. CASE BudgetRestarts(f)
    BY <2>7 DEF BudgetRestarts
  <2>8. CASE EndsTurn(f)
    BY <2>1, <2>8 DEF EndsTurn
  <2>9. CASE Aborted(f) \/ Leaves(f)
    BY <2>1, <2>9 DEF Aborted, Leaves
  <2> QED  BY <1>4, <2>2, <2>3, <2>4, <2>5, <2>6, <2>7, <2>8, <2>9 DEF FrameStep
<1>5. ASSUME NEW x \in Aux, AuxStep(x) PROVE Same
  <2>1. AuxSame
    BY <1>5 DEF AuxStep, AuxCalls, AuxWoken, AuxEnds, AuxFails
  <2> QED  BY <2>1 DEF AuxSame, work
<1>6. ASSUME NEW a \in Agent, WaitEnds(a) \/ HoldExpires(a) PROVE Same
  <2>1. CASE WaitEnds(a)
    BY <2>1 DEF WaitEnds, work
  <2>2. CASE HoldExpires(a)
    BY <2>2 DEF HoldExpires
  <2> QED  BY <1>6, <2>1, <2>2
<1>7. ASSUME Operator PROVE Same
  <2>1. CASE Quiesce \/ ResumeBegins \/ ResumeEnds
    BY <2>1 DEF Quiesce, ResumeBegins, ResumeEnds, work
  <2>2. ASSUME NEW S, DropContinuations(S, TRUE) PROVE pass = {} => pass' = {}
    BY <2>2 DEF DropContinuations
  <2>3. CASE Abandon
    BY <2>2, <2>3 DEF Abandon
  <2>4. CASE Stop
    BY <2>4 DEF Stop
  <2>5. ASSUME NEW a \in Agent, Abort(a) PROVE Same
    BY <2>2, <2>5 DEF Abort
  <2> QED  BY <1>7, <2>1, <2>3, <2>4, <2>5 DEF Operator
<1>8. ASSUME UNCHANGED vars PROVE Same
  BY <1>8 DEF vars, work
<1>9. ASSUME Same PROVE PassIdle'
  BY <1>9 DEF PassIdle
<1>10. CASE PassBegins
  BY <1>10 DEF PassBegins, PassIdle
<1>11. CASE PassEnds
  BY <1>11 DEF PassEnds, PassIdle
<1> HIDE DEF Same
<1> QED  BY <1>1, <1>2, <1>3, <1>4, <1>5, <1>6, <1>7, <1>8, <1>9, <1>10, <1>11 DEF Next

(* A frame becomes one that hands nothing on.                               *)
LEMMA BecomeHandsIdle ==
    ASSUME HandsIdle, NEW f, NEW g, Become(f, g), HandedOn(g) => g.reads = {}
    PROVE  HandsIdle'
BY DEF HandsIdle, HandedOn, Become

LEMMA FrameHandsIdle ==
    ASSUME TypeOK, HandsIdle, NEW f \in frames, FrameStep(f)
    PROVE  HandsIdle'
<1>1. f \in Frame /\ f.agent \in Agent
  BY FrameTyped
<1>2. ASSUME NEW g, Become(f, g),
             \/ g = [f EXCEPT !.phase = "ending"] \/ g = [f EXCEPT !.phase = "backoff"]
             \/ g = [f EXCEPT !.phase = "backoff", !.attempt = @ + 1]
             \/ f.phase = "streaming" /\ g = [f EXCEPT !.stop = "shutdown"]
             \/ g = [f EXCEPT !.stop = "budget_restart", !.reads = {}]
             \/ g = [f EXCEPT !.stop = "turn_ended", !.reads = {}]
      PROVE  HandsIdle'
  <2>1. HandedOn(f) => f.reads = {}
    BY DEF HandsIdle
  <2>2. HandedOn(g) => g.reads = {}
    BY <1>1, <1>2, <2>1 DEF Frame, HandedOn, Gone
  <2> QED  BY <1>2, <2>2, BecomeHandsIdle
<1>3. CASE \/ BeginStopped(f) \/ BeginWithdrawn(f) \/ BeginHeld(f) \/ FailsIntoHold(f) \/ FailsIntoWait(f)
           \/ FailsIntoRetry(f) \/ FailsExhausted(f) \/ GuardRetries(f)
  BY <1>2, <1>3 DEF BeginStopped, BeginWithdrawn, BeginHeld, FailsIntoHold, FailsIntoWait, FailsIntoRetry,
                    FailsExhausted, GuardRetries
<1>4. CASE Completes(f) \/ BudgetRestarts(f) \/ EndsTurn(f) \/ Aborted(f)
  BY <1>2, <1>4 DEF Completes, BudgetRestarts, EndsTurn, Aborted, Streams
<1>5. CASE BeginStreams(f) \/ Leaves(f)
  <2> DEFINE streaming == [f EXCEPT !.phase = "streaming", !.inPass = FALSE, !.parent = NoToken]
  <2>1. \/ frames' = ReturnTo(f, frames \ {f})
        \/ f.stop = "none" /\ frames' = ReturnTo(f, frames \ {f}) \cup {streaming}
    <3> HIDE DEF streaming
    <3> QED  BY <1>5 DEF BeginStreams, Leaves, streaming
  <2>2. f.stop = "none" => ~HandedOn(streaming)
    BY <1>1 DEF Frame, HandedOn, Gone
  <2>3. ASSUME NEW h \in ReturnTo(f, frames \ {f}), HandedOn(h)
        PROVE  h.reads = {}
    <3>1. PICK g \in frames : h = g \/ h = [g EXCEPT !.phase = "ending"]
      BY DEF ReturnTo
    <3>2. HandedOn(g) => g.reads = {}
      BY DEF HandsIdle
    <3>3. CASE h = g
      BY <2>3, <3>2, <3>3
    <3>4. CASE h = [g EXCEPT !.phase = "ending"]
      <4>1. g \in Frame
        BY DEF TypeOK
      <4>2. h.phase = "ending" /\ h.stop = g.stop /\ h.reads = g.reads
        BY <3>4, <4>1 DEF Frame
      <4>3. HandedOn(g)
        BY <2>3, <4>2 DEF HandedOn
      <4> QED  BY <3>2, <4>2, <4>3
    <3> QED  BY <3>1, <3>3, <3>4
  <2> HIDE DEF streaming
  <2> QED  BY <2>1, <2>2, <2>3 DEF HandsIdle, HandedOn
<1>6. CASE RetryStarts(f)
  <2> DEFINE handing == [f EXCEPT !.phase = "handing", !.reads = {}]
  <2>1. \/ Become(f, [f EXCEPT !.phase = "ending"])
        \/ \E new : ~HandedOn(new) /\ frames' = (frames \ {f}) \cup {handing, new}
    BY <1>6 DEF RetryStarts, NewFrame, HandedOn, Gone
  <2>2. handing.reads = {}
    BY <1>1 DEF Frame
  <2> HIDE DEF handing
  <2>3. CASE \E new : ~HandedOn(new) /\ frames' = (frames \ {f}) \cup {handing, new}
    BY <2>2, <2>3 DEF HandsIdle, HandedOn
  <2> QED  BY <1>2, <2>1, <2>3
<1> QED  BY <1>3, <1>4, <1>5, <1>6 DEF FrameStep

LEMMA MarkedHandsIdle ==
    ASSUME TypeOK, HandsIdle, NEW M, NEW s, s \notin Gone, Marks(M, s)
    PROVE  HandsIdle'
<1>1. \A f \in frames : LET g == [f EXCEPT !.stop = s]
                        IN  g.phase = f.phase /\ g.stop = s /\ g.reads = f.reads
  BY DEF TypeOK, Frame
<1>2. \A g \in frames' : \E f \in frames : (HandedOn(g) => HandedOn(f)) /\ g.reads = f.reads
  <2> SUFFICES ASSUME NEW g \in frames'
               PROVE  \E f \in frames : (HandedOn(g) => HandedOn(f)) /\ g.reads = f.reads
    OBVIOUS
  <2>1. PICK f \in frames : g = f \/ g = [f EXCEPT !.stop = s]
    BY DEF Marks
  <2>2. (HandedOn(g) => HandedOn(f)) /\ g.reads = f.reads
    BY <1>1, <2>1 DEF HandedOn
  <2> QED  BY <2>2
<1> QED  BY <1>2 DEF HandsIdle, HandedOn

LEMMA StepHandsIdle ==
    ASSUME TypeOK, HandsIdle, [Next]_vars
    PROVE  HandsIdle'
<1>1. CASE UNCHANGED frames
  BY <1>1 DEF HandsIdle, HandedOn
<1>2. ASSUME NEW new, ~HandedOn(new), frames' = frames \cup {new}
      PROVE  HandsIdle'
  BY <1>2 DEF HandsIdle, HandedOn
<1>3. ASSUME NEW a \in Agent, PassStarts(a)
      PROVE  HandsIdle'
  <2>1. UNCHANGED frames \/ \E new : ~HandedOn(new) /\ frames' = frames \cup {new}
    BY <1>3 DEF PassStarts, NewFrame, HandedOn, Gone
  <2> QED  BY <1>1, <1>2, <2>1
<1>4. ASSUME NEW r \in parked, UnparkStarts(r)
      PROVE  HandsIdle'
  <2>1. UNCHANGED frames \/ \E new : ~HandedOn(new) /\ frames' = frames \cup {new}
    BY <1>4 DEF UnparkStarts, NewFrame, HandedOn, Gone
  <2> QED  BY <1>1, <1>2, <2>1
<1>5. ASSUME NEW a \in Agent, Abort(a)
      PROVE  HandsIdle'
  <2>1. UNCHANGED frames \/ \E f \in Abortable(a) : Become(f, [f EXCEPT !.stop = "caller"])
    BY <1>5 DEF Abort
  <2>2. ASSUME NEW f \in Abortable(a), Become(f, [f EXCEPT !.stop = "caller"])
        PROVE  HandsIdle'
    <3>1. f \in Frame /\ f.phase # "handing"
      BY DEF Abortable, Waiting, TypeOK
    <3>2. ~HandedOn([f EXCEPT !.stop = "caller"])
      BY <3>1 DEF Frame, HandedOn, Gone
    <3> QED  BY <2>2, <3>2, BecomeHandsIdle
  <2> QED  BY <1>1, <2>1, <2>2
<1>6. CASE Abandon
  <2> DEFINE M == {f \in frames : /\ f.agent \notin {r.agent : r \in OnTheirWay({})}
                                  /\ f.stop \in {"none", "caller"}
                                  /\ Waiting(f) \/ (f.phase = "streaming" /\ f.stop = "none")}
  <2>1. Marks(M, "abandon")
    BY <1>6 DEF Abandon, Marks
  <2> QED  BY <2>1, MarkedHandsIdle DEF Gone
<1>7. CASE Stop
  <2> DEFINE M == {f \in frames : f.phase = "streaming" /\ f.stop \in {"none", "abandon"}}
  <2>1. Marks(M, "shutdown")
    BY <1>7 DEF Stop, Marks
  <2> QED  BY <2>1, MarkedHandsIdle DEF Gone
<1>8. UNCHANGED frames \/ (\E a \in Agent : PassStarts(a) \/ Abort(a)) \/ (\E r \in parked : UnparkStarts(r))
        \/ (\E f \in frames : FrameStep(f)) \/ Abandon \/ Stop
  BY DEF Next, vars, WakeArrives, Withdraw, PassBegins, PassEnds, PassStep, PassHolds, PassWaits, PassParks,
         PassRequeues, PassReads, PassDrops, PassStopped, UnparkGivesBack, AuxStep, AuxCalls, AuxWoken, AuxEnds,
         AuxFails, AuxSame, WaitEnds, HoldExpires, Operator, Quiesce, ResumeBegins, ResumeEnds
<1> QED  BY <1>1, <1>3, <1>4, <1>5, <1>6, <1>7, <1>8, FrameHandsIdle

-----------------------------------------------------------------------------
(* Every step keeps every wake in one place.                                *)
LEMMA InitiallyConserved ==
    ASSUME Init
    PROVE  WInv
<1>1. Idle
  BY DEF Init, Idle, HoldsIdle, PassIdle, HandsIdle, NoHold
<1>2. ASSUME NEW w \in Wake
      PROVE  Conserved(w)
  <2>1. \A b \in Agent : /\ Pend(b) = {} /\ Pas(b) = {} /\ Held(b) = {} /\ Park(b) = {}
                         /\ ReadToks(b, w) = {}
    BY DEF Init, Pend, Pas, Held, Park, Of, ReadToks, FramesOf, NoHold
  <2>2. \A b \in Agent : Once(b, w) /\ ~Here(b, w)
    BY <2>1 DEF Once, Here, Loose, Anywhere, Single, Has
  <2> QED  BY <2>2 DEF Init, Conserved
<1> QED  BY <1>1, <1>2 DEF WInv

LEMMA StepConserved ==
    ASSUME CInv, [Next]_vars, NEW w \in Wake
    PROVE  Conserved(w)'
<1>1. CASE UNCHANGED vars
  BY <1>1, MarksConserved DEF vars
<1>2. ASSUME NEW v \in Wake, WakeArrives(v) \/ Withdraw(v)
      PROVE  Conserved(w)'
  BY <1>2, ArrivesConserved, WithdrawConserved
<1>3. CASE PassBegins \/ PassEnds
  BY <1>3, PassTurnsConserved
<1>4. ASSUME NEW a \in Agent, PassStep(a)
      PROVE  Conserved(w)'
  BY <1>4, PassKeepsConserved, PassLeavesConserved, PassStartsConserved DEF PassStep
<1>5. ASSUME NEW r \in parked, UnparkGivesBack(r) \/ UnparkStarts(r)
      PROVE  Conserved(w)'
  BY <1>5, GivesBackConserved, UnparkStartsConserved
<1>6. ASSUME NEW f \in frames, FrameStep(f)
      PROVE  Conserved(w)'
  BY <1>6, FramesChangeConserved, StreamsConserved, FailsHeldConserved, ExhaustedConserved, RetryConserved,
     CompletesConserved, BudgetConserved DEF FrameStep
<1>7. ASSUME NEW x \in Aux, AuxStep(x)
      PROVE  Conserved(w)'
  BY <1>7, AuxConserved
<1>8. ASSUME NEW a \in Agent, WaitEnds(a) \/ HoldExpires(a)
      PROVE  Conserved(w)'
  BY <1>8, MarksConserved, HoldEndsConserved DEF WaitEnds
<1>9. CASE Operator
  <2>1. CASE Quiesce \/ ResumeBegins \/ ResumeEnds
    BY <2>1, MarksConserved DEF Quiesce, ResumeBegins, ResumeEnds
  <2> QED  BY <1>9, <2>1, AbortConserved, AbandonConserved, StopConserved DEF Operator
<1> QED  BY <1>1, <1>2, <1>3, <1>4, <1>5, <1>6, <1>7, <1>8, <1>9 DEF Next

(* A wake is with its agent, in one of its queues or with one of its turns, *)
(* from its arrival until a turn that read it is over or it is dropped: no  *)
(* hold, merged start, retry, restart or stop loses it or gives it twice.   *)
THEOREM WakesAreKept == Spec => []CInv
<1>1. Init /\ OInv => CInv
  BY InitiallyConserved DEF CInv
<1>2. CInv /\ OInv' /\ [Next]_vars => CInv'
  BY StepConserved, StepHoldsIdle, StepPassIdle, StepHandsIdle DEF CInv, WInv, Idle, OInv
<1> QED  BY <1>1, <1>2, TurnsAreOwned, PTL DEF Spec

(* What the run checks: the places a wake is in are one.                    *)
LEMMA PlacesByAgent ==
    ASSUME CInv, NEW w \in arrived
    PROVE  LET a == AgentOf[w]
           IN  /\ {r \in pending : Waits(w, r)} = {r \in Pend(a) : \E p \in r.parts : p \in Reading(w)}
               /\ {r \in pass : Waits(w, r)} = {r \in Pas(a) : \E p \in r.parts : p \in Reading(w)}
               /\ {r \in parked : Waits(w, r)} = {r \in Park(a) : \E p \in r.parts : p \in Reading(w)}
               /\ {c \in Agent : \E r \in hold[c].held : Waits(w, r)}
                    = IF Has(Held(a), Reading(w)) THEN {a} ELSE {}
               /\ {f \in frames : f.phase # "ending" /\ w \in f.reads} = {f \in FramesOf(a) : Answers(f, w)}
<1> DEFINE a == AgentOf[w]
           P == Reading(w)
<1>1. TypeOK /\ w \in Wake /\ a \in Agent
  BY SchedulerConstants DEF CInv, OInv, TypeOK
<1>2. \A c \in Agent : Here(c, w) => c = a
  BY <1>1 DEF CInv, WInv, Conserved
<1>3. \A r \in Request : Waits(w, r) <=> \E p \in r.parts : p \in P
  BY ReadingReads DEF Waits, Request
<1>4. ASSUME NEW r \in Request, r \in pending \/ r \in pass \/ r \in parked, \E p \in r.parts : p \in P
      PROVE  r.agent = a
  <2>1. r.agent \in Agent
    BY DEF Request
  <2>2. Here(r.agent, w)
    BY <1>4 DEF Here, Anywhere, Has, Pend, Pas, Park, Of
  <2> QED  BY <1>2, <2>1, <2>2
<1>5. /\ {r \in pending : Waits(w, r)} = {r \in Pend(a) : \E p \in r.parts : p \in P}
      /\ {r \in pass : Waits(w, r)} = {r \in Pas(a) : \E p \in r.parts : p \in P}
      /\ {r \in parked : Waits(w, r)} = {r \in Park(a) : \E p \in r.parts : p \in P}
  <2>1. \A r : r \in pending \/ r \in pass \/ r \in parked => r \in Request
    BY <1>1 DEF TypeOK
  <2> HIDE DEF P, a
  <2> QED  BY <1>3, <1>4, <2>1 DEF Pend, Pas, Park, Of
<1>6. {c \in Agent : \E r \in hold[c].held : Waits(w, r)} = IF Has(Held(a), P) THEN {a} ELSE {}
  <2>1. \A c \in Agent : Held(c) \in SUBSET Request
    BY <1>1, QueuesTyped
  <2>2. \A c \in Agent : (\E r \in hold[c].held : Waits(w, r)) <=> Has(Held(c), P)
    BY <1>3, <2>1 DEF Has, Held
  <2>3. \A c \in Agent : Has(Held(c), P) => c = a
    BY <1>2 DEF Here, Anywhere
  <2> HIDE DEF P, a
  <2> QED  BY <1>1, <2>2, <2>3
<1>7. {f \in frames : f.phase # "ending" /\ w \in f.reads} = {f \in FramesOf(a) : Answers(f, w)}
  <2>1. ASSUME NEW f \in frames, Answers(f, w)
        PROVE  f.agent = a
    <3>1. f.agent \in Agent /\ f.tok \in ReadToks(f.agent, w)
      BY <1>1, <2>1, FrameTyped DEF ReadToks, FramesOf
    <3> QED  BY <1>2, <3>1 DEF Here
  <2> HIDE DEF a
  <2> QED  BY <2>1 DEF FramesOf, Answers
<1> QED  BY <1>5, <1>6, <1>7

(* A wake that arrived is queued, in the pass's hands, parked, held, read by*)
(* a turn, answered or dropped: in one of these places, and in one only.    *)
(* None is lost, none runs twice.                                           *)
THEOREM WakesAreConserved == Spec => []WakeConserved
<1>1. CInv => WakeConserved
  <2> SUFFICES ASSUME CInv, NEW w \in arrived
               PROVE  Places(w) = 1
    BY DEF WakeConserved
  <2> DEFINE a == AgentOf[w]
             P == Reading(w)
             with(R) == {r \in R : \E p \in r.parts : p \in P}
             readers == {f \in FramesOf(a) : Answers(f, w)}
             holders == IF Has(Held(a), P) THEN {a} ELSE {}
             one(b) == IF b THEN 1 ELSE 0
  <2>1. TypeOK /\ Distinct /\ w \in Wake /\ a \in Agent
    BY SchedulerConstants DEF CInv, OInv, Owners, TypeOK
  <2>2. Conserved(w) /\ Once(a, w)
    BY <2>1 DEF CInv, WInv, Conserved
  <2>3. Places(w) = Cardinality(with(Pend(a))) + Cardinality(with(Pas(a))) + Cardinality(with(Park(a)))
                    + Cardinality(holders) + Cardinality(readers)
                    + one(w \in over) + one(w \in dropped)
    BY PlacesByAgent DEF Places
  <2>4. \A R : Single(R, P) => Cardinality(with(R)) = one(Has(R, P))
    <3>1. ASSUME NEW R, Single(R, P)
          PROVE  Cardinality(with(R)) = one(Has(R, P))
      <4>1. \A r, s \in with(R) : r = s
        BY <3>1 DEF Single
      <4>2. with(R) = {} <=> ~Has(R, P)
        BY DEF Has
      <4> QED  BY <4>1, <4>2, NoMoreThanOne
    <3> QED  BY <3>1
  <2>5. Cardinality(holders) = one(Has(Held(a), P))
    <3>1. \A x, y \in holders : x = y
      OBVIOUS
    <3>2. holders = {} <=> ~Has(Held(a), P)
      OBVIOUS
    <3> QED  BY <3>1, <3>2, NoMoreThanOne
  <2>6. Cardinality(readers) = one(ReadToks(a, w) # {})
    <3>1. \A f, g \in readers : f.tok = g.tok
      BY <2>2 DEF Once, ReadToks
    <3>2. \A f, g \in readers : f = g
      BY <2>1, <3>1 DEF Distinct, FramesOf
    <3>3. readers = {} <=> ReadToks(a, w) = {}
      BY DEF ReadToks
    <3> HIDE DEF readers
    <3> QED  BY <3>2, <3>3, NoMoreThanOne
  <2>7. /\ Single(Pend(a), P) /\ Single(Pas(a), P) /\ Single(Park(a), P)
        /\ ~(Has(Pend(a), P) /\ Has(Pas(a), P)) /\ ~(Has(Pend(a), P) /\ Has(Held(a), P))
        /\ ~(Has(Pas(a), P) /\ Has(Held(a), P))
        /\ Has(Pend(a), P) \/ Has(Pas(a), P) \/ Has(Held(a), P) => ~Has(Park(a), P) /\ ReadToks(a, w) = {}
        /\ Has(Park(a), P) => ReadToks(a, w) = {}
    BY <2>2 DEF Once, Loose, Anywhere
  <2>8. LET somewhere == Has(Pend(a), P) \/ Has(Pas(a), P) \/ Has(Held(a), P) \/ Has(Park(a), P)
                           \/ ReadToks(a, w) # {}
        IN  /\ somewhere => w \notin over /\ w \notin dropped
            /\ somewhere \/ w \in over \/ w \in dropped
            /\ ~(w \in over /\ w \in dropped)
    BY <2>1, <2>2 DEF Conserved, Here, Anywhere
  <2>9. Places(w) = one(Has(Pend(a), P)) + one(Has(Pas(a), P)) + one(Has(Park(a), P))
                    + one(Has(Held(a), P)) + one(ReadToks(a, w) # {})
                    + one(w \in over) + one(w \in dropped)
    BY <2>3, <2>4, <2>5, <2>6, <2>7
  <2> HIDE DEF P
  <2> QED  BY <2>7, <2>8, <2>9
<1> QED  BY <1>1, WakesAreKept, PTL

-----------------------------------------------------------------------------
(* What AgentTurns sees.                                                    *)

(* The parts asked of an agent, wherever they are; whether a turn has taken *)
(* the wake; whether it waits for one; and whether the agent has a turn.    *)
PartsAt(b) == PartsOf(RequestsOf(b))
Answered(w) == \E f \in frames : Answers(f, w)
Taken(w) == Answered(w) \/ \E b \in Agent : \E p \in PartsAt(b) : Continues(p) /\ w \in p.reads
Queued(w) == \E b \in Agent : \E p \in PartsAt(b) : ~Continues(p) /\ w \in p.reads
Holding(b) == token[b] # NoToken \/ \E p \in PartsAt(b) : Continues(p)

LEMMA AskedByAgent ==
    ASSUME OInv
    PROVE  /\ \A w : InTurn(w) <=> Taken(w)
           /\ TurnHolders = {b \in Agent : Holding(b)}
<1> DEFINE held == UNION {hold[c].held : c \in Agent}
           asked == pending \cup pass \cup parked \cup held
<1>1. \A c \in Agent : \A r \in hold[c].held : r.agent = c
  BY DEF OInv, Owners, Owned, Held
<1>2. \A r \in asked : r.agent \in Agent
  <2>1. \A r \in pending \cup pass \cup parked : r.agent \in Agent
    BY DEF OInv, TypeOK, Request
  <2> QED  BY <1>1, <2>1
<1>3. ASSUME NEW b \in Agent, NEW r
      PROVE  r \in RequestsOf(b) <=> r \in asked /\ r.agent = b
  <2>1. r \in Held(b) <=> r \in held /\ r.agent = b
    BY <1>1 DEF Held
  <2> HIDE DEF held
  <2> QED  BY <2>1 DEF RequestsOf, Pend, Pas, Park, Of
<1>4. OnTheirWay({}) = {r \in asked : ContinuesTurn(r)}
  BY DEF OnTheirWay
<1> HIDE DEF asked
<1>5. \A b \in Agent : \A p : p \in PartsAt(b) <=> \E r \in asked : r.agent = b /\ p \in r.parts
  BY <1>3 DEF PartsAt, PartsOf
<1>6. ASSUME NEW w
      PROVE  InTurn(w) <=> Taken(w)
  <2>1. (\E r \in OnTheirWay({}) : \E p \in r.parts : Continues(p) /\ w \in p.reads)
          <=> \E r \in asked : \E p \in r.parts : Continues(p) /\ w \in p.reads
    BY <1>4 DEF ContinuesTurn
  <2>2. (\E b \in Agent : \E p \in PartsAt(b) : Continues(p) /\ w \in p.reads)
          <=> \E r \in asked : \E p \in r.parts : Continues(p) /\ w \in p.reads
    BY <1>2, <1>5
  <2> QED  BY <2>1, <2>2 DEF InTurn, Taken, Answered, Answers
<1>7. ASSUME NEW b \in Agent
      PROVE  (\E r \in OnTheirWay({}) : r.agent = b) <=> \E p \in PartsAt(b) : Continues(p)
  BY <1>4, <1>5 DEF ContinuesTurn
<1>8. \A r \in OnTheirWay({}) : r.agent \in Agent
  BY <1>2, <1>4
<1> QED  BY <1>6, <1>7, <1>8 DEF TurnHolders, Holding

(* A wake with its agent waits for a turn or is taken by one, never both,   *)
(* and an agent whose wake is taken has a turn.                             *)
LEMMA Standing ==
    ASSUME CInv, NEW w \in Wake
    PROVE  /\ Taken(w) \/ Queued(w) <=> w \in arrived /\ w \notin over /\ w \notin dropped
           /\ ~(Taken(w) /\ Queued(w))
           /\ Taken(w) => Holding(AgentOf[w])
           /\ \A b \in Agent : \A p \in PartsAt(b) : w \in p.reads => b = AgentOf[w]
           /\ \A f \in frames : Answers(f, w) => f.agent = AgentOf[w]
<1> DEFINE P == Reading(w)
           a == AgentOf[w]
<1>1. OInv /\ TypeOK /\ Conserved(w) /\ a \in Agent
  BY SchedulerConstants DEF CInv, WInv, OInv
<1>2. ASSUME NEW b \in Agent
      PROVE  /\ PartsAt(b) \subseteq Part
             /\ Has(RequestsOf(b), P) <=> \E p \in PartsAt(b) : w \in p.reads
             /\ \A p, q \in PartsAt(b) : w \in p.reads /\ w \in q.reads => p = q
             /\ Has(RequestsOf(b), P) => ReadToks(b, w) = {}
             /\ Here(b, w) <=> Has(RequestsOf(b), P) \/ ReadToks(b, w) # {}
  <2>1. PartsAt(b) \subseteq Part
    <3>1. RequestsOf(b) \subseteq Request
      BY <1>1, QueuesTyped DEF RequestsOf
    <3> QED  BY <3>1 DEF PartsAt, PartsOf, Request
  <2>2. \A p \in PartsAt(b) : p \in P <=> w \in p.reads
    BY <2>1 DEF Reading
  <2>3. Once(b, w)
    BY <1>1 DEF Conserved
  <2>4. /\ Single(RequestsOf(b), P) /\ (Has(RequestsOf(b), P) => ReadToks(b, w) = {})
        /\ Here(b, w) <=> Has(RequestsOf(b), P) \/ ReadToks(b, w) # {}
    BY <2>3, OnceEverywhere
  <2> HIDE DEF P
  <2>5. /\ Has(RequestsOf(b), P) <=> \E p \in PartsAt(b) : p \in P
        /\ \A p, q \in PartsAt(b) : p \in P /\ q \in P => p = q
    BY <2>4, PartsHas DEF PartsAt
  <2> QED  BY <2>1, <2>2, <2>4, <2>5
<1>3. \A b \in Agent : ReadToks(b, w) # {} <=> \E f \in frames : f.agent = b /\ Answers(f, w)
  BY DEF ReadToks, FramesOf
<1>4. \A f \in frames : f.agent \in Agent
  BY <1>1, FrameTyped
<1>5. \A b \in Agent : Here(b, w) => b = a /\ w \in arrived /\ w \notin over /\ w \notin dropped
  BY <1>1 DEF Conserved
<1>6. /\ \A b \in Agent : \A p \in PartsAt(b) : w \in p.reads => b = a
      /\ \A f \in frames : Answers(f, w) => f.agent = a
  BY <1>2, <1>3, <1>4, <1>5
<1>7. Here(a, w) <=> Taken(w) \/ Queued(w)
  BY <1>1, <1>2, <1>3, <1>6 DEF Taken, Queued, Answered
<1>8. Taken(w) \/ Queued(w) <=> w \in arrived /\ w \notin over /\ w \notin dropped
  BY <1>1, <1>5, <1>7 DEF Conserved
<1>9. ~(Taken(w) /\ Queued(w))
  BY <1>1, <1>2, <1>3, <1>6 DEF Taken, Queued, Answered
<1>10. ASSUME Taken(w)
       PROVE  Holding(a)
  <2>1. CASE Answered(w)
    <3>1. PICK f \in frames : Answers(f, w)
      BY <2>1 DEF Answered
    <3>2. ~HandedOn(f)
      BY <3>1 DEF CInv, WInv, Idle, HandsIdle, Answers
    <3>3. Living(f)
      BY <1>1, <3>1, <3>2, FrameTyped DEF Living, HandedOn, Answers, Frame
    <3>4. token[a] = f.tok
      BY <1>1, <1>6, <3>1, <3>3, LiveCarries
    <3>5. f.tok \in Token
      BY <1>1, FrameTyped
    <3> QED  BY <3>4, <3>5, SchedulerConstants DEF Holding
  <2>2. CASE ~Answered(w)
    BY <1>6, <1>10, <2>2 DEF Taken, Holding
  <2> QED  BY <2>1, <2>2
<1> QED  BY <1>6, <1>8, <1>9, <1>10

(* Where AgentTurns sees a wake.                                            *)
Stage(w) == IF w \notin arrived THEN "new"
            ELSE IF w \in over \cup dropped THEN "done"
            ELSE IF InTurn(w) THEN "inTurn" ELSE "waiting"

(* What Standing and AskedByAgent say, of this state and of the next.       *)
Staged ==
    /\ \A w \in Wake :
         /\ Stage(w) = IF w \notin arrived THEN "new" ELSE IF Taken(w) THEN "inTurn"
                       ELSE IF Queued(w) THEN "waiting" ELSE "done"
         /\ Taken(w) \/ Queued(w) <=> w \in arrived /\ w \notin over /\ w \notin dropped
         /\ ~(Taken(w) /\ Queued(w))
         /\ Taken(w) => Holding(AgentOf[w])
    /\ TurnHolders = {b \in Agent : Holding(b)}

LEMMA StagedNow == CInv => Staged
<1> SUFFICES ASSUME CInv
             PROVE  Staged
  OBVIOUS
<1>1. OInv
  BY DEF CInv
<1> QED  BY <1>1, Standing, AskedByAgent DEF Staged, Stage

LEMMA StagedNext == CInv' => Staged'
BY StagedNow, PTL

(* A step that takes no wake and queues none, and begins no turn: wakes are *)
(* settled, turns end.                                                      *)
LEMMA StepSettles ==
    ASSUME CInv, CInv', UNCHANGED <<arrived, quiesced>>,
           \A w \in Wake : /\ Taken(w)' => Taken(w)
                           /\ Queued(w)' => Queued(w),
           \A b \in Agent : Holding(b)' => Holding(b)
    PROVE  Turns!Settle
<1> DEFINE W == {w \in Wake : (Taken(w) \/ Queued(w)) /\ ~(Taken(w)' \/ Queued(w)')}
<1>1. W \in SUBSET (Turns!At("waiting") \cup Turns!At("inTurn"))
  <2>1. \A w \in W : Stage(w) \in {"waiting", "inTurn"}
    BY StagedNow DEF Staged
  <2> HIDE DEF W
  <2>2. W \subseteq Wake
    BY DEF W
  <2> QED  BY <2>1, <2>2 DEF Turns!At, Stage
<1>2. \A w \in Wake : Stage(w)' = IF w \in W THEN "done" ELSE Stage(w)
  <2> SUFFICES ASSUME NEW w \in Wake
               PROVE  Stage(w)' = IF w \in W THEN "done" ELSE Stage(w)
    OBVIOUS
  <2>1. Stage(w)' = IF w \notin arrived THEN "new" ELSE IF Taken(w)' THEN "inTurn"
                    ELSE IF Queued(w)' THEN "waiting" ELSE "done"
    BY StagedNext DEF Staged
  <2>2. /\ ~(Taken(w) /\ Queued(w))
        /\ Taken(w) \/ Queued(w) => w \in arrived
    BY StagedNow DEF Staged
  <2> QED  BY <2>1, <2>2, StagedNow DEF Staged
<1>3. [w \in Wake |-> Stage(w)]' = [w \in Wake |-> IF w \in W THEN "done" ELSE [v \in Wake |-> Stage(v)][w]]
  <2> HIDE DEF W
  <2> QED  BY <1>2
<1>4. TurnHolders' \in SUBSET TurnHolders
  BY StagedNow, StagedNext DEF Staged
<1>5. \A w \in Wake : Stage(w)' = "inTurn" => AgentOf[w] \in TurnHolders'
  <2> SUFFICES ASSUME NEW w \in Wake, Stage(w)' = "inTurn"
               PROVE  AgentOf[w] \in TurnHolders'
    OBVIOUS
  <2>1. Taken(w)'
    BY StagedNext DEF Staged
  <2>2. Holding(AgentOf[w])' /\ AgentOf[w] \in Agent
    BY <2>1, StagedNext, SchedulerConstants DEF Staged
  <2> QED  BY <2>2, StagedNext DEF Staged
<1> HIDE DEF W
<1> QED  BY <1>1, <1>3, <1>4, <1>5 DEF Turns!Settle, Turns!Move, Stage

(* A turn of a begins with wakes that waited for it, or merges them into the*)
(* one it carries on; those whose rows were read are settled.               *)
LEMMA StepBegins ==
    ASSUME CInv, CInv', NEW a \in Agent, ~quiesced, UNCHANGED <<arrived, quiesced>>,
           \A w \in Wake : /\ Taken(w) => Taken(w)'
                           /\ Taken(w)' => Taken(w) \/ Queued(w)
                           /\ Queued(w)' => Queued(w)
                           /\ Queued(w) /\ ~Queued(w)' => AgentOf[w] = a,
           \A b \in Agent : Holding(b)' <=> Holding(b) \/ b = a
    PROVE  Turns!Begin(a)
<1> DEFINE W == {w \in Wake : Queued(w) /\ Taken(w)'}
           D == {w \in Wake : Queued(w) /\ ~Taken(w)' /\ ~Queued(w)'}
<1>1. \A w \in Wake : ~(Taken(w)' /\ Queued(w)')
  BY StagedNext DEF Staged
<1>2. \A w \in W \cup D : w \in Wake /\ Stage(w) = "waiting" /\ AgentOf[w] = a
  BY <1>1, StagedNow DEF Staged
<1>3. \A w \in Wake : Stage(w)' = IF w \in W THEN "inTurn" ELSE IF w \in D THEN "done" ELSE Stage(w)
  <2> SUFFICES ASSUME NEW w \in Wake
               PROVE  Stage(w)' = IF w \in W THEN "inTurn" ELSE IF w \in D THEN "done" ELSE Stage(w)
    OBVIOUS
  <2>1. Stage(w)' = IF w \notin arrived THEN "new" ELSE IF Taken(w)' THEN "inTurn"
                    ELSE IF Queued(w)' THEN "waiting" ELSE "done"
    BY StagedNext DEF Staged
  <2>2. /\ Stage(w) = IF w \notin arrived THEN "new" ELSE IF Taken(w) THEN "inTurn"
                      ELSE IF Queued(w) THEN "waiting" ELSE "done"
        /\ Taken(w) \/ Queued(w) => w \in arrived
        /\ ~(Taken(w) /\ Queued(w))
    BY StagedNow DEF Staged
  <2> QED  BY <1>1, <2>1, <2>2
<1> HIDE DEF W, D
<1>4. /\ W \in SUBSET (Turns!At("waiting") \cap Turns!OfAgent(a))
      /\ D \in SUBSET (Turns!At("waiting") \cap Turns!OfAgent(a))
  BY <1>2 DEF Turns!At, Turns!OfAgent, Stage
<1>5. [w \in Wake |-> Stage(w)]' =
        [w \in Wake |-> IF w \in W THEN "inTurn" ELSE IF w \in D THEN "done"
                        ELSE [v \in Wake |-> Stage(v)][w]]
  BY <1>3
<1>6. TurnHolders' = TurnHolders \cup {a}
  BY StagedNow, StagedNext DEF Staged
<1> QED  BY <1>4, <1>5, <1>6 DEF Turns!Begin, Stage

(* A turn of a gives wakes back to wait for another.                        *)
LEMMA StepGivesBack ==
    ASSUME CInv, CInv', NEW a \in Agent, UNCHANGED <<arrived, over, dropped, quiesced>>,
           \A w \in Wake : /\ Taken(w)' => Taken(w)
                           /\ Queued(w)' => Queued(w) \/ (Taken(w) /\ AgentOf[w] = a),
           \A b \in Agent : Holding(b)' <=> Holding(b), Holding(a)
    PROVE  Turns!GiveBack(a)
<1> DEFINE W == {w \in Wake : Taken(w) /\ Queued(w)'}
<1>1. \A w \in Wake : ~(Taken(w)' /\ Queued(w)') /\ (Taken(w)' \/ Queued(w)' <=> Taken(w) \/ Queued(w))
  BY StagedNow, StagedNext DEF Staged
<1>2. \A w \in W : w \in Wake /\ Stage(w) = "inTurn" /\ AgentOf[w] = a
  BY <1>1, StagedNow DEF Staged
<1>3. \A w \in Wake : Stage(w)' = IF w \in W THEN "waiting" ELSE Stage(w)
  <2> SUFFICES ASSUME NEW w \in Wake
               PROVE  Stage(w)' = IF w \in W THEN "waiting" ELSE Stage(w)
    OBVIOUS
  <2>1. Stage(w)' = IF w \notin arrived THEN "new" ELSE IF Taken(w)' THEN "inTurn"
                    ELSE IF Queued(w)' THEN "waiting" ELSE "done"
    BY StagedNext DEF Staged
  <2>2. /\ Stage(w) = IF w \notin arrived THEN "new" ELSE IF Taken(w) THEN "inTurn"
                      ELSE IF Queued(w) THEN "waiting" ELSE "done"
        /\ Taken(w) \/ Queued(w) => w \in arrived
        /\ ~(Taken(w) /\ Queued(w))
    BY StagedNow DEF Staged
  <2> QED  BY <1>1, <2>1, <2>2
<1> HIDE DEF W
<1>4. W \in SUBSET (Turns!At("inTurn") \cap Turns!OfAgent(a))
  BY <1>2 DEF Turns!At, Turns!OfAgent, Stage
<1>5. [w \in Wake |-> Stage(w)]' =
        [w \in Wake |-> IF w \in W THEN "waiting" ELSE [v \in Wake |-> Stage(v)][w]]
  BY <1>3
<1>6. TurnHolders' = TurnHolders /\ a \in TurnHolders
  BY StagedNow, StagedNext DEF Staged
<1> QED  BY <1>4, <1>5, <1>6 DEF Turns!GiveBack, Turns!Move, Stage

(* A wake arrives to wait.                                                  *)
LEMMA StepArrives ==
    ASSUME CInv, CInv', NEW v \in Wake, v \notin arrived, arrived' = arrived \cup {v},
           UNCHANGED <<over, dropped, quiesced>>,
           \A w \in Wake : /\ Taken(w)' => Taken(w)
                           /\ Queued(w)' => Queued(w) \/ w = v,
           \A b \in Agent : Holding(b)' <=> Holding(b)
    PROVE  Turns!Arrive(v)
<1> DEFINE W == {v}
<1>1. \A w \in Wake : Stage(w)' = IF w \in W THEN "waiting" ELSE Stage(w)
  <2> SUFFICES ASSUME NEW w \in Wake
               PROVE  Stage(w)' = IF w \in W THEN "waiting" ELSE Stage(w)
    OBVIOUS
  <2>1. /\ Stage(w)' = IF w \notin arrived' THEN "new" ELSE IF Taken(w)' THEN "inTurn"
                       ELSE IF Queued(w)' THEN "waiting" ELSE "done"
        /\ Taken(w)' \/ Queued(w)' <=> w \in arrived' /\ w \notin over /\ w \notin dropped
        /\ ~(Taken(w)' /\ Queued(w)')
    BY StagedNext DEF Staged
  <2>2. /\ Stage(w) = IF w \notin arrived THEN "new" ELSE IF Taken(w) THEN "inTurn"
                      ELSE IF Queued(w) THEN "waiting" ELSE "done"
        /\ Taken(w) \/ Queued(w) <=> w \in arrived /\ w \notin over /\ w \notin dropped
        /\ ~(Taken(w) /\ Queued(w))
    BY StagedNow DEF Staged
  <2>3. w \notin arrived => w \notin over /\ w \notin dropped
    BY DEF CInv, WInv, Conserved
  <2> QED  BY <2>1, <2>2, <2>3
<1>2. Stage(v) = "new"
  BY DEF Stage
<1> HIDE DEF W
<1>3. [w \in Wake |-> Stage(w)]' =
        [w \in Wake |-> IF w \in W THEN "waiting" ELSE [u \in Wake |-> Stage(u)][w]]
  BY <1>1
<1>4. TurnHolders' = TurnHolders
  BY StagedNow, StagedNext DEF Staged
<1> QED  BY <1>2, <1>3, <1>4 DEF Turns!Arrive, Turns!Move, Stage, W

(* The host is marked in or out of service.                                 *)
LEMMA StepMarks ==
    ASSUME CInv', UNCHANGED <<work, hold, parked, frames, token, story>>
    PROVE  Turns!Mode
<1>1. \A w : Stage(w)' = Stage(w)
  BY DEF Stage, InTurn, OnTheirWay, ContinuesTurn, Continues, work, story
<1>2. TurnHolders' = TurnHolders
  BY DEF TurnHolders, OnTheirWay, ContinuesTurn, Continues, work
<1>3. [w \in Wake |-> Stage(w)]' = [w \in Wake |-> Stage(w)]
  BY <1>1
<1>4. quiesced' \in BOOLEAN
  BY DEF CInv, OInv, TypeOK
<1> QED  BY <1>2, <1>3, <1>4 DEF Turns!Mode, Stage

-----------------------------------------------------------------------------
(* Parts moving.                                                            *)

LEMMA PartsTogether ==
    ASSUME NEW R, NEW S
    PROVE  /\ PartsOf(R \cup S) = PartsOf(R) \cup PartsOf(S)
           /\ R \subseteq S => PartsOf(R) \subseteq PartsOf(S)
           /\ PartsOf({}) = {}
BY DEF PartsOf

LEMMA PartsSingly ==
    ASSUME NEW a, NEW Q
    PROVE  PartsOf(Singly(a, Q)) = Q
<1> DEFINE one(p) == [agent |-> a, parts |-> {p}]
<1>1. \A p : one(p).parts = {p}
  OBVIOUS
<1>2. \A s : s \in Singly(a, Q) <=> \E p \in Q : s = one(p)
  BY DEF Singly
<1> HIDE DEF one
<1> QED  BY <1>1, <1>2 DEF PartsOf

LEMMA PartsOne ==
    ASSUME NEW a, NEW k, NEW reads
    PROVE  PartsOf({Request1(a, k, reads)}) = {[kind |-> k, reads |-> reads]}
BY DEF PartsOf, Request1

(* Where an agent's parts are.                                              *)
LEMMA PartsWhere ==
    ASSUME NEW b
    PROVE  /\ PartsAt(b) = PartsOf(Pend(b)) \cup PartsOf(Pas(b)) \cup PartsOf(Park(b)) \cup PartsOf(Held(b))
           /\ PartsAt(b)' = PartsOf(Pend(b)') \cup PartsOf(Pas(b)') \cup PartsOf(Park(b)') \cup PartsOf(Held(b)')
BY PartsTogether DEF PartsAt, RequestsOf, PartsOf

LEMMA PartsStay ==
    ASSUME NEW b, SameQueues(b)
    PROVE  PartsAt(b)' = PartsAt(b)
BY PartsWhere DEF SameQueues

(* Steps of which each part asked for afterwards was asked for before, reads*)
(* nothing and carries no turn on, or carries on a turn there was.          *)
LEMMA PartsSettle ==
    ASSUME CInv, CInv', UNCHANGED <<arrived, quiesced>>,
           \A b \in Agent : \A p \in PartsAt(b)' :
              \/ p \in PartsAt(b)
              \/ ~Continues(p) /\ p.reads = {}
              \/ Continues(p) /\ Holding(b) /\ \A w \in p.reads : Taken(w),
           \A w \in Wake : Answered(w)' => Taken(w),
           \A b \in Agent : token'[b] # NoToken => Holding(b)
    PROVE  Turns!Settle
<1>1. \A p : Continues(p)' <=> Continues(p)
  BY DEF Continues
<1>2. ASSUME NEW w \in Wake
      PROVE  /\ Taken(w)' => Taken(w)
             /\ Queued(w)' => Queued(w)
  <2>1. ASSUME NEW b \in Agent, NEW p \in PartsAt(b)', w \in p.reads
        PROVE  /\ Continues(p) => Taken(w)
               /\ ~Continues(p) => Queued(w)
    BY <2>1 DEF Taken, Queued
  <2> QED  BY <1>1, <2>1 DEF Taken, Queued
<1>3. ASSUME NEW b \in Agent
      PROVE  Holding(b)' => Holding(b)
  <2>1. ASSUME NEW p \in PartsAt(b)', Continues(p)
        PROVE  Holding(b)
    BY <2>1 DEF Holding
  <2> QED  BY <1>1, <2>1 DEF Holding
<1> QED  BY <1>2, <1>3, StepSettles

(* Steps that leave the frames and the tokens.                              *)
LEMMA QueuesSettle ==
    ASSUME CInv, CInv', UNCHANGED <<arrived, quiesced, frames, token>>,
           \A b \in Agent : \A p \in PartsAt(b)' : p \in PartsAt(b) \/ (~Continues(p) /\ p.reads = {})
    PROVE  Turns!Settle
<1>1. \A w \in Wake : Answered(w)' => Taken(w)
  BY DEF Answered, Answers, Taken
<1>2. \A b \in Agent : token'[b] # NoToken => Holding(b)
  BY DEF Holding
<1> QED  BY <1>1, <1>2, PartsSettle

(* The group of the pass taken, with some of it going back.                 *)
LEMMA TakenParts ==
    ASSUME OInv, NEW a \in Agent, NEW back \in SUBSET Unheld(a), TakeGroup(a, back),
           NEW b \in Agent
    PROVE  /\ Unheld(a) \subseteq PartsAt(a)
           /\ PartsOf(Pend(b)') \cup PartsOf(Pas(b)') \cup PartsOf(Held(b)') \subseteq PartsAt(b)
<1>1. Unheld(a) = PartsOf(Pas(a)) \cup PartsOf(Held(a))
  BY PartsTogether DEF Unheld, Pas, Held
<1>2. Unheld(a) \subseteq PartsAt(a)
  BY <1>1, PartsWhere
<1>3. CASE b = a
  <2>1. Pend(a)' = Pend(a) \cup Singly(a, back) /\ Pas(a)' = {} /\ Held(a)' = {}
    BY TakeGroupQueues DEF OInv
  <2>2. PartsOf(Pend(a) \cup Singly(a, back)) = PartsOf(Pend(a)) \cup back /\ PartsOf({}) = {}
    <3>1. PartsOf(Singly(a, back)) = back
      BY PartsSingly
    <3>2. PartsOf(Pend(a) \cup Singly(a, back)) = PartsOf(Pend(a)) \cup PartsOf(Singly(a, back))
      BY PartsTogether
    <3>3. PartsOf({}) = {}
      BY PartsTogether
    <3> QED  BY <3>1, <3>2, <3>3
  <2> QED  BY <1>2, <1>3, <2>1, <2>2, PartsWhere
<1>4. CASE b # a
  <2>1. Pend(b)' = Pend(b) /\ Pas(b)' = Pas(b) /\ Held(b)' = Held(b)
    BY <1>4, TakeGroupQueues DEF OInv
  <2> QED  BY <1>2, <2>1, PartsWhere
<1> QED  BY <1>2, <1>3, <1>4

LEMMA PassLeavesSettles ==
    ASSUME CInv, CInv', NEW a \in Agent,
           PassParks(a) \/ PassRequeues(a) \/ PassReads(a) \/ PassDrops(a) \/ PassStopped(a)
    PROVE  Turns!Settle
<1>1. OInv
  BY DEF CInv
<1>2. \E back \in SUBSET Unheld(a) : TakeGroup(a, back)
  <2>1. Kept(a) \in SUBSET Unheld(a) /\ Kept(a) \ Ready(a) \in SUBSET Unheld(a)
    BY DEF Kept
  <2> QED  BY <2>1 DEF PassParks, PassRequeues, PassReads, PassDrops, PassStopped
<1>3. PICK back \in SUBSET Unheld(a) : TakeGroup(a, back)
  BY <1>2
<1>4. UNCHANGED <<arrived, quiesced, frames, token, parked>>
  BY <1>3 DEF PassParks, PassRequeues, PassReads, PassDrops, PassStopped, TakeGroup, host
<1>5. ASSUME NEW b \in Agent
      PROVE  PartsAt(b)' \subseteq PartsAt(b)
  <2>1. PartsOf(Pend(b)') \cup PartsOf(Pas(b)') \cup PartsOf(Held(b)') \subseteq PartsAt(b)
    BY <1>1, <1>3, TakenParts
  <2>2. Park(b)' = Park(b)
    BY <1>4 DEF Park
  <2> QED  BY <2>1, <2>2, PartsWhere
<1> QED  BY <1>4, <1>5, QueuesSettle

LEMMA PassKeepsSettles ==
    ASSUME CInv, CInv', NEW a \in Agent, PassHolds(a) \/ PassWaits(a)
    PROVE  Turns!Settle
<1>1. OInv /\ TypeOK
  BY DEF CInv, OInv
<1>2. UNCHANGED <<arrived, quiesced, frames, token>>
  BY DEF PassHolds, PassWaits, host, story
<1>3. ASSUME NEW b \in Agent
      PROVE  PartsAt(b)' \subseteq PartsAt(b)
  <2>1. /\ Pend(b)' = Pend(b) /\ Park(b)' = Park(b)
        /\ Pas(b)' = IF b = a THEN {} ELSE Pas(b)
        /\ b # a => Held(b)' = Held(b)
        /\ PassHolds(a) => Held(a)' = Held(a) \cup Pas(a)
        /\ PassWaits(a) => Held(a)' = IF closed THEN {} ELSE Singly(a, Unheld(a))
    BY <1>1, HoldQueues
  <2>2. Unheld(a) = PartsOf(Pas(a)) \cup PartsOf(Held(a))
    BY PartsTogether DEF Unheld, Pas, Held
  <2>3. PartsOf(Held(a)') \subseteq PartsOf(Pas(a)) \cup PartsOf(Held(a))
    <3>1. PartsOf(Singly(a, Unheld(a))) = Unheld(a) /\ PartsOf({}) = {}
          /\ PartsOf(Held(a) \cup Pas(a)) = PartsOf(Held(a)) \cup PartsOf(Pas(a))
      BY PartsSingly, PartsTogether
    <3> QED  BY <2>1, <2>2, <3>1
  <2>4. PartsOf({}) = {}
    BY PartsTogether
  <2> QED  BY <2>1, <2>3, <2>4, PartsWhere
<1> QED  BY <1>2, <1>3, QueuesSettle

LEMMA PassTurnsSettles ==
    ASSUME CInv, CInv', PassBegins \/ PassEnds
    PROVE  Turns!Settle
<1>1. UNCHANGED <<arrived, quiesced, frames, token, parked, hold>>
  BY DEF PassBegins, PassEnds, host, story
<1>2. ASSUME NEW b \in Agent
      PROVE  PartsAt(b)' \subseteq PartsAt(b)
  <2>1. Park(b)' = Park(b) /\ Held(b)' = Held(b)
    BY <1>1 DEF Park, Held
  <2>2. \/ Pend(b)' = {} /\ Pas(b)' = Pend(b)
        \/ Pend(b)' = Pend(b) /\ Pas(b)' = Pas(b)
    <3>1. (pending' = {} /\ pass' = pending) \/ UNCHANGED <<pending, pass>>
      BY DEF PassBegins, PassEnds
    <3> QED  BY <3>1, OfSets DEF Pend, Pas
  <2>3. PartsOf({}) = {}
    BY PartsTogether
  <2> QED  BY <2>1, <2>2, <2>3, PartsWhere
<1> QED  BY <1>1, <1>2, QueuesSettle

-----------------------------------------------------------------------------
(* Wakes arrive and are withdrawn; holds end; calls go on.                  *)

LEMMA ArrivalArrives ==
    ASSUME CInv, CInv', NEW v \in Wake, WakeArrives(v)
    PROVE  Turns!Arrive(v)
<1> DEFINE one == [kind |-> "wake", reads |-> {v}]
<1>1. TypeOK /\ AgentOf[v] \in Agent
  BY SchedulerConstants DEF CInv, OInv
<1>2. /\ v \notin arrived /\ arrived' = arrived \cup {v}
      /\ UNCHANGED <<over, dropped, quiesced, frames, token>>
  BY DEF WakeArrives, host
<1>3. one.reads = {v} /\ ~Continues(one)
  BY DEF Continues
<1>4. ASSUME NEW b \in Agent
      PROVE  PartsAt(b) \subseteq PartsAt(b)' /\ PartsAt(b)' \subseteq PartsAt(b) \cup {one}
  <2> DEFINE R == IF b = AgentOf[v] THEN {Request1(AgentOf[v], "wake", {v})} ELSE {}
  <2>1. Pend(b)' = Pend(b) \cup R /\ Pas(b)' = Pas(b) /\ Held(b)' = Held(b) /\ Park(b)' = Park(b)
    BY <1>1, ArrivesQueues
  <2>2. PartsOf(R) \subseteq {one}
    <3>1. PartsOf({Request1(AgentOf[v], "wake", {v})}) = {one}
      BY PartsOne
    <3>2. PartsOf({}) = {}
      BY PartsTogether
    <3> QED  BY <3>1, <3>2
  <2> HIDE DEF R, one
  <2>3. PartsOf(Pend(b) \cup R) = PartsOf(Pend(b)) \cup PartsOf(R)
    BY PartsTogether
  <2> QED  BY <2>1, <2>2, <2>3, PartsWhere
<1>5. \A p : Continues(p)' <=> Continues(p)
  BY DEF Continues
<1> HIDE DEF one
<1>6. ASSUME NEW w \in Wake
      PROVE  /\ Taken(w)' => Taken(w)
             /\ Queued(w)' => Queued(w) \/ w = v
  <2>1. Answered(w)' <=> Answered(w)
    BY <1>2 DEF Answered, Answers
  <2>2. \A b \in Agent : \A p \in PartsAt(b)' : p \in PartsAt(b) \/ p = one
    BY <1>4
  <2> QED  BY <1>3, <1>5, <2>1, <2>2 DEF Taken, Queued
<1>7. \A b \in Agent : Holding(b)' <=> Holding(b)
  <2>1. \A b \in Agent : \A p : p \in PartsAt(b)' /\ Continues(p) <=> p \in PartsAt(b) /\ Continues(p)
    BY <1>3, <1>4
  <2> QED  BY <1>2, <1>5, <2>1 DEF Holding
<1> QED  BY <1>2, <1>6, <1>7, StepArrives

LEMMA WithdrawSettles ==
    ASSUME CInv, CInv', NEW v \in Wake, Withdraw(v)
    PROVE  Turns!Settle
<1>1. TypeOK /\ UNCHANGED <<arrived, quiesced, frames, token>>
  BY DEF CInv, OInv, Withdraw, host
<1>2. \A R \in SUBSET Request : \A M : PartsOf(Partly(v, R, M)) \subseteq PartsOf(R)
  <2> SUFFICES ASSUME NEW R \in SUBSET Request, NEW M, NEW s \in Partly(v, R, M), NEW p \in s.parts
               PROVE  p \in PartsOf(R)
    BY DEF PartsOf
  <2>1. CASE s \in R
    BY <2>1 DEF PartsOf
  <2>2. CASE s \notin R
    <3>1. s \in Without(v, R \cap M)
      BY <2>2 DEF Partly
    <3>2. PICK t \in R \cap M : s = [t EXCEPT !.parts = {x \in @ : ~IsWake(v, x)}]
      BY <3>1 DEF Without
    <3>3. s.parts \subseteq t.parts
      BY <3>2 DEF Request
    <3> QED  BY <3>3 DEF PartsOf
  <2> QED  BY <2>1, <2>2
<1>3. ASSUME NEW b \in Agent
      PROVE  PartsAt(b)' \subseteq PartsAt(b)
  <2>1. PICK m : /\ Pend(b)' = Partly(v, Pend(b), Pend(b)) /\ Held(b)' = Partly(v, Held(b), Held(b))
                 /\ Pas(b)' = Partly(v, Pas(b), m) /\ Park(b)' = Partly(v, Park(b), m)
    BY <1>1, WithdrawQueues
  <2>2. /\ Pend(b) \in SUBSET Request /\ Pas(b) \in SUBSET Request
        /\ Held(b) \in SUBSET Request /\ Park(b) \in SUBSET Request
    BY <1>1, QueuesTyped
  <2>3. /\ PartsOf(Partly(v, Pend(b), Pend(b))) \subseteq PartsOf(Pend(b))
        /\ PartsOf(Partly(v, Held(b), Held(b))) \subseteq PartsOf(Held(b))
        /\ PartsOf(Partly(v, Pas(b), m)) \subseteq PartsOf(Pas(b))
        /\ PartsOf(Partly(v, Park(b), m)) \subseteq PartsOf(Park(b))
    BY <1>2, <2>2
  <2> QED  BY <2>1, <2>3, PartsWhere
<1> QED  BY <1>1, <1>3, QueuesSettle

LEMMA HoldEndsSettles ==
    ASSUME CInv, CInv', NEW a \in Agent, HoldExpires(a)
    PROVE  Turns!Settle
<1> DEFINE again == [kind |-> "wake", reads |-> {}]
<1>1. OInv /\ UNCHANGED <<arrived, quiesced, frames, token>>
  BY DEF CInv, HoldExpires, host, story
<1>2. ASSUME NEW b \in Agent
      PROVE  PartsAt(b)' \subseteq PartsAt(b) \cup {again}
  <2>1. /\ Pas(b)' = Pas(b) /\ Park(b)' = Park(b)
        /\ b # a => Pend(b)' = Pend(b) /\ Held(b)' = Held(b)
    BY <1>1, ExpiresQueues
  <2>2. /\ Held(a)' = {}
        /\ \/ Pend(a)' = Pend(a)
           \/ Pend(a)' = Pend(a) \cup Held(a)
           \/ Pend(a)' = Pend(a) \cup {Request1(a, "wake", {})}
    BY <1>1, ExpiresQueues
  <2>3. PartsOf({Request1(a, "wake", {})}) = {again}
    BY PartsOne
  <2>4. \A S : PartsOf(Pend(a) \cup S) = PartsOf(Pend(a)) \cup PartsOf(S)
    BY PartsTogether
  <2>5. PartsOf({}) = {}
    BY PartsTogether
  <2> HIDE DEF again
  <2>6. PartsOf(Pend(a)') \subseteq PartsOf(Pend(a)) \cup PartsOf(Held(a)) \cup {again}
    BY <2>2, <2>3, <2>4
  <2>7. CASE b = a
    BY <2>1, <2>2, <2>5, <2>6, <2>7, PartsWhere
  <2>8. CASE b # a
    BY <2>1, <2>8, PartsWhere
  <2> QED  BY <2>7, <2>8
<1>3. again.reads = {} /\ ~Continues(again)
  BY DEF Continues
<1> HIDE DEF again
<1> QED  BY <1>1, <1>2, <1>3, QueuesSettle

(* Calls, waits and marks leave the requests.                               *)
LEMMA MarksSettle ==
    ASSUME CInv, CInv', UNCHANGED <<arrived, quiesced, frames, token>>, \A b \in Agent : SameQueues(b)
    PROVE  Turns!Settle
<1>1. \A b \in Agent : PartsAt(b)' = PartsAt(b)
  BY PartsStay
<1> QED  BY <1>1, QueuesSettle

LEMMA AuxSettles ==
    ASSUME CInv, CInv', NEW x \in Aux, AuxStep(x)
    PROVE  Turns!Settle
<1>1. UNCHANGED <<arrived, quiesced, frames, token>>
  BY DEF AuxStep, AuxCalls, AuxWoken, AuxEnds, AuxFails, AuxSame, story
<1>2. \A b \in Agent : SameQueues(b)
  BY AuxQueues DEF CInv, OInv
<1> QED  BY <1>1, <1>2, MarksSettle

-----------------------------------------------------------------------------
(* Turns on their way dropped.                                              *)

LEMMA DropParts ==
    ASSUME OInv, NEW S, DropContinuations(S, TRUE), NEW b \in Agent
    PROVE  PartsAt(b)' \subseteq PartsAt(b)
<1>1. /\ Pend(b)' = Staying(b, S, Pend(b)) \cup Again(b, S)
      /\ Pas(b)' = Staying(b, S, Pas(b))
      /\ Held(b)' = Staying(b, S, Held(b))
      /\ Park(b)' = Staying(b, S, Park(b))
  BY DropQueues
<1>2. \A R : Staying(b, S, R) \subseteq R
  BY DEF Staying
<1>3. \A R : PartsOf(Staying(b, S, R)) \subseteq PartsOf(R)
  BY <1>2 DEF PartsOf
<1>4. PartsOf(Again(b, S)) \subseteq PartsAt(b)
  <2> DEFINE wakes(r) == {p \in r.parts : ~Continues(p)}
             one(p) == [agent |-> b, parts |-> {p}]
  <2>1. \A s : s \in Again(b, S) <=> \E r \in Going(b, S) : \E p \in wakes(r) : s = one(p)
    BY DEF Again, Singly
  <2>2. \A p : one(p).parts = {p}
    OBVIOUS
  <2> HIDE DEF one
  <2>3. \A p \in PartsOf(Again(b, S)) : \E r \in Going(b, S) : p \in r.parts
    BY <2>1, <2>2 DEF PartsOf
  <2>4. Going(b, S) \subseteq RequestsOf(b)
    BY DEF Going, RequestsOf
  <2> QED  BY <2>3, <2>4 DEF PartsAt, PartsOf
<1>5. PartsOf(Staying(b, S, Pend(b)) \cup Again(b, S)) = PartsOf(Staying(b, S, Pend(b))) \cup PartsOf(Again(b, S))
  BY PartsTogether
<1>6. /\ PartsOf(Pend(b)') \subseteq PartsOf(Pend(b)) \cup PartsAt(b)
      /\ PartsOf(Pas(b)') \subseteq PartsOf(Pas(b))
      /\ PartsOf(Held(b)') \subseteq PartsOf(Held(b))
      /\ PartsOf(Park(b)') \subseteq PartsOf(Park(b))
  <2>1. /\ PartsOf(Staying(b, S, Pend(b))) \subseteq PartsOf(Pend(b))
        /\ PartsOf(Staying(b, S, Pas(b))) \subseteq PartsOf(Pas(b))
        /\ PartsOf(Staying(b, S, Held(b))) \subseteq PartsOf(Held(b))
        /\ PartsOf(Staying(b, S, Park(b))) \subseteq PartsOf(Park(b))
    BY <1>3
  <2> QED  BY <1>1, <1>4, <1>5, <2>1
<1> QED  BY <1>6, PartsWhere

(* Frames told to stop answer what they answered.                           *)
LEMMA MarkedAnswer ==
    ASSUME TypeOK, NEW M, NEW s, Marks(M, s), NEW w
    PROVE  Answered(w)' => Answered(w)
<1>1. \A f \in frames : LET g == [f EXCEPT !.stop = s] IN g.phase = f.phase /\ g.reads = f.reads
  BY DEF TypeOK, Frame
<1>2. \A g \in frames' : \E f \in frames : g.phase = f.phase /\ g.reads = f.reads
  <2> SUFFICES ASSUME NEW g \in frames'
               PROVE  \E f \in frames : g.phase = f.phase /\ g.reads = f.reads
    OBVIOUS
  <2>1. PICK f \in frames : g = f \/ g = [f EXCEPT !.stop = s]
    BY DEF Marks
  <2>2. g.phase = f.phase /\ g.reads = f.reads
    BY <1>1, <2>1
  <2> QED  BY <2>2
<1> QED  BY <1>2 DEF Answered, Answers

(* Steps that drop parts and leave every frame with what it answers.        *)
LEMMA DropsSettle ==
    ASSUME CInv, CInv', UNCHANGED <<arrived, quiesced, token>>,
           \A b \in Agent : PartsAt(b)' \subseteq PartsAt(b),
           \A w \in Wake : Answered(w)' => Answered(w)
    PROVE  Turns!Settle
<1>1. \A w \in Wake : Answered(w)' => Taken(w)
  BY DEF Taken
<1>2. \A b \in Agent : token'[b] # NoToken => Holding(b)
  BY DEF Holding
<1> QED  BY <1>1, <1>2, PartsSettle

LEMMA AbortSettles ==
    ASSUME CInv, CInv', NEW a \in Agent, Abort(a)
    PROVE  Turns!Settle
<1>1. OInv /\ TypeOK /\ UNCHANGED <<arrived, quiesced, token>>
  BY DEF CInv, OInv, Abort, host
<1>2. CASE DropContinuations({a}, TRUE) /\ UNCHANGED frames
  <2>1. \A w \in Wake : Answered(w)' => Answered(w)
    BY <1>2 DEF Answered, Answers
  <2>2. \A b \in Agent : PartsAt(b)' \subseteq PartsAt(b)
    BY <1>1, <1>2, DropParts
  <2> QED  BY <1>1, <2>1, <2>2, DropsSettle
<1>3. CASE ~(DropContinuations({a}, TRUE) /\ UNCHANGED frames)
  <2>1. PICK f \in Abortable(a) : /\ Become(f, [f EXCEPT !.stop = "caller"])
                                  /\ UNCHANGED <<pending, pass, parked, hold>>
    BY <1>3 DEF Abort
  <2>2. \A b \in Agent : PartsAt(b)' = PartsAt(b)
    BY <2>1, PartsWhere DEF Pend, Pas, Park, Held
  <2>3. f \in frames /\ f \in Frame
    BY <1>1 DEF Abortable, TypeOK
  <2>4. ASSUME NEW w \in Wake
        PROVE  Answered(w)' => Answered(w)
    <3>1. LET g == [f EXCEPT !.stop = "caller"] IN g.phase = f.phase /\ g.reads = f.reads
      BY <2>3 DEF Frame
    <3> QED  BY <2>1, <2>3, <3>1 DEF Answered, Answers, Become
  <2> QED  BY <1>1, <2>2, <2>4, DropsSettle
<1> QED  BY <1>2, <1>3

LEMMA AbandonSettles ==
    ASSUME CInv, CInv', Abandon
    PROVE  Turns!Settle
<1> DEFINE S == {r.agent : r \in OnTheirWay({})}
           M == {f \in frames : /\ f.agent \notin S
                                /\ f.stop \in {"none", "caller"}
                                /\ Waiting(f) \/ (f.phase = "streaming" /\ f.stop = "none")}
<1>1. OInv /\ TypeOK /\ UNCHANGED <<arrived, quiesced, token>>
  BY DEF CInv, OInv, Abandon, host
<1>2. DropContinuations(S, TRUE) /\ Marks(M, "abandon")
  BY DEF Abandon, Marks
<1> HIDE DEF S, M
<1>3. \A b \in Agent : PartsAt(b)' \subseteq PartsAt(b)
  BY <1>1, <1>2, DropParts
<1>4. \A w \in Wake : Answered(w)' => Answered(w)
  BY <1>1, <1>2, MarkedAnswer
<1> QED  BY <1>1, <1>3, <1>4, DropsSettle

LEMMA StopSettles ==
    ASSUME CInv, CInv', Stop
    PROVE  Turns!Settle
<1> DEFINE M == {f \in frames : f.phase = "streaming" /\ f.stop \in {"none", "abandon"}}
<1>1. TypeOK /\ UNCHANGED <<arrived, quiesced, token>>
  BY DEF CInv, OInv, Stop
<1>2. Marks(M, "shutdown")
  BY DEF Stop, Marks
<1>3. /\ pending' \subseteq pending /\ pass' \subseteq pass /\ parked' \subseteq parked
      /\ hold' = [a \in Agent |-> NoHold]
  BY DEF Stop
<1>4. ASSUME NEW b \in Agent
      PROVE  PartsAt(b)' \subseteq PartsAt(b)
  <2>1. Pend(b)' \subseteq Pend(b) /\ Pas(b)' \subseteq Pas(b) /\ Park(b)' \subseteq Park(b)
    BY <1>3 DEF Pend, Pas, Park, Of
  <2>2. Held(b)' = {}
    BY <1>3 DEF Held, NoHold
  <2>3. \A R, T : R \subseteq T => PartsOf(R) \subseteq PartsOf(T)
    BY PartsTogether
  <2>4. PartsOf({}) = {}
    BY PartsTogether
  <2> QED  BY <2>1, <2>2, <2>3, <2>4, PartsWhere
<1> HIDE DEF M
<1>5. \A w \in Wake : Answered(w)' => Answered(w)
  BY <1>1, <1>2, MarkedAnswer
<1> QED  BY <1>1, <1>4, <1>5, DropsSettle

-----------------------------------------------------------------------------
(* Turns beginning.                                                         *)

(* A new frame of a answers what the parts Q of its agent read.             *)
LEMMA StartAnswers ==
    ASSUME NEW a \in Agent, NEW new, NEW Q, Q \subseteq PartsAt(a),
           frames' = frames \cup {new}, new.phase = "starting", new.reads = Reads(Q), NEW w
    PROVE  Answered(w)' <=> Answered(w) \/ \E p \in Q : w \in p.reads
<1>1. Answers(new, w) <=> \E p \in Q : w \in p.reads
  BY DEF Answers, Reads
<1>2. \A h : Answers(h, w)' <=> Answers(h, w)
  BY DEF Answers
<1> QED  BY <1>1, <1>2 DEF Answered

(* It begins a turn, or carries on what Q continues.                        *)
LEMMA StartBegins ==
    ASSUME CInv, CInv', NEW a \in Agent, ~quiesced, UNCHANGED <<arrived, quiesced>>,
           NEW new, NEW Q, Q \subseteq PartsAt(a),
           frames' = frames \cup {new}, new.phase = "starting", new.reads = Reads(Q),
           token' = [token EXCEPT ![a] = new.tok], new.tok \in Token,
           \A b \in Agent : b # a => PartsAt(b)' = PartsAt(b),
           PartsAt(a)' \subseteq PartsAt(a),
           \A p \in PartsAt(a) : Continues(p) => p \in Q \/ p \in PartsAt(a)'
    PROVE  Turns!Begin(a)
<1>1. \A p : Continues(p)' <=> Continues(p)
  BY DEF Continues
<1>2. \A w : Answered(w)' <=> Answered(w) \/ \E p \in Q : w \in p.reads
  BY StartAnswers
<1>3. ASSUME NEW w \in Wake
      PROVE  /\ Taken(w) => Taken(w)'
             /\ Taken(w)' => Taken(w) \/ Queued(w)
             /\ Queued(w)' => Queued(w)
             /\ Queued(w) /\ ~Queued(w)' => AgentOf[w] = a
  <2>1. ASSUME Taken(w)
        PROVE  Taken(w)'
    <3>1. CASE Answered(w)
      BY <1>2, <3>1 DEF Taken
    <3>2. CASE ~Answered(w)
      <4>1. PICK b \in Agent : \E p \in PartsAt(b) : Continues(p) /\ w \in p.reads
        BY <2>1, <3>2 DEF Taken
      <4>2. PICK p \in PartsAt(b) : Continues(p) /\ w \in p.reads
        BY <4>1
      <4>3. p \in PartsAt(b)' \/ p \in Q
        BY <4>2
      <4>4. CASE p \in PartsAt(b)'
        BY <1>1, <4>2, <4>4 DEF Taken
      <4>5. CASE p \in Q
        BY <1>2, <4>2, <4>5 DEF Taken
      <4> QED  BY <4>3, <4>4, <4>5
    <3> QED  BY <3>1, <3>2
  <2>2. \A b \in Agent : PartsAt(b)' \subseteq PartsAt(b)
    OBVIOUS
  <2>3. Taken(w)' => Taken(w) \/ Queued(w)
    <3>1. Answered(w)' => Taken(w) \/ Queued(w)
      BY <1>2 DEF Taken, Queued
    <3>2. ASSUME NEW b \in Agent, NEW p \in PartsAt(b)', Continues(p)', w \in p.reads
          PROVE  Taken(w)
      BY <1>1, <2>2, <3>2 DEF Taken
    <3> QED  BY <3>1, <3>2 DEF Taken
  <2>4. Queued(w)' => Queued(w)
    <3>1. ASSUME NEW b \in Agent, NEW p \in PartsAt(b)', ~Continues(p)', w \in p.reads
          PROVE  Queued(w)
      BY <1>1, <2>2, <3>1 DEF Queued
    <3> QED  BY <3>1 DEF Queued
  <2>5. ASSUME Queued(w), ~Queued(w)'
        PROVE  AgentOf[w] = a
    <3>1. PICK b \in Agent : \E p \in PartsAt(b) : ~Continues(p) /\ w \in p.reads
      BY <2>5 DEF Queued
    <3>2. PICK p \in PartsAt(b) : ~Continues(p) /\ w \in p.reads
      BY <3>1
    <3>3. b = a
      <4>1. p \notin PartsAt(b)'
        BY <1>1, <2>5, <3>2 DEF Queued
      <4> QED  BY <4>1
    <3> QED  BY <3>2, <3>3, Standing
  <2> QED  BY <2>1, <2>3, <2>4, <2>5
<1>4. ASSUME NEW b \in Agent
      PROVE  Holding(b)' <=> Holding(b) \/ b = a
  <2>1. token'[b] = IF b = a THEN new.tok ELSE token[b]
    BY DEF CInv, OInv, TypeOK
  <2>2. CASE b = a
    BY <2>1, <2>2, SchedulerConstants DEF Holding
  <2>3. CASE b # a
    BY <1>1, <2>1, <2>3 DEF Holding
  <2> QED  BY <2>2, <2>3
<1> QED  BY <1>3, <1>4, StepBegins

LEMMA StartSettles ==
    ASSUME CInv, CInv', NEW a \in Agent, UNCHANGED <<arrived, quiesced>>,
           NEW new, NEW Q, Q \subseteq PartsAt(a), Q # {}, \A p \in Q : Continues(p),
           frames' = frames \cup {new}, new.phase = "starting", new.reads = Reads(Q),
           token' = [token EXCEPT ![a] = new.tok],
           \A b \in Agent : PartsAt(b)' \subseteq PartsAt(b)
    PROVE  Turns!Settle
<1>1. \A w \in Wake : Answered(w)' => Taken(w)
  <2> SUFFICES ASSUME NEW w \in Wake, Answered(w)'
               PROVE  Taken(w)
    OBVIOUS
  <2>1. Answered(w) \/ \E p \in Q : w \in p.reads
    BY StartAnswers
  <2> QED  BY <2>1 DEF Taken
<1>2. \A b \in Agent : token'[b] # NoToken => Holding(b)
  <2> SUFFICES ASSUME NEW b \in Agent, token'[b] # NoToken
               PROVE  Holding(b)
    OBVIOUS
  <2>1. CASE b = a
    BY <2>1 DEF Holding
  <2>2. CASE b # a
    <3>1. token'[b] = token[b]
      BY <2>2 DEF CInv, OInv, TypeOK
    <3> QED  BY <3>1 DEF Holding
  <2> QED  BY <2>1, <2>2
<1> QED  BY <1>1, <1>2, PartsSettle

-----------------------------------------------------------------------------
(* A parked start goes back, or goes on.                                    *)

LEMMA UnparkParts ==
    ASSUME OInv, NEW r \in parked, parked' = parked \ {r}
    PROVE  /\ r.agent \in Agent /\ r.parts \subseteq PartsAt(r.agent)
           /\ PartsOf(Park(r.agent)') = {}
           /\ \A b \in Agent : b # r.agent => Park(b)' = Park(b)
<1>1. /\ r.agent \in Agent /\ Park(r.agent) = {r}
      /\ \A b \in Agent : Of(b, parked \ {r}) = IF b = r.agent THEN {} ELSE Park(b)
  BY ParkedAlone
<1>2. \A b \in Agent : Park(b)' = IF b = r.agent THEN {} ELSE Park(b)
  BY <1>1 DEF Park
<1>3. PartsOf({}) = {}
  BY PartsTogether
<1>4. PartsOf({r}) = r.parts
  BY DEF PartsOf
<1> QED  BY <1>1, <1>2, <1>3, <1>4, PartsWhere

LEMMA GivesBackSettles ==
    ASSUME CInv, CInv', NEW r \in parked, UnparkGivesBack(r)
    PROVE  Turns!Settle
<1> DEFINE a == r.agent
<1>1. /\ OInv /\ parked' = parked \ {r}
      /\ UNCHANGED <<arrived, quiesced, frames, token, pass, hold>>
  BY DEF CInv, UnparkGivesBack, host
<1>2. /\ a \in Agent /\ r.parts \subseteq PartsAt(a) /\ PartsOf(Park(a)') = {}
      /\ \A b \in Agent : b # a => Park(b)' = Park(b)
  BY <1>1, UnparkParts
<1>3. PICK R \in {{}, {r}, Singly(a, r.parts)} : pending' = pending \cup R
  <2>1. pending \cup {} = pending
    OBVIOUS
  <2> QED  BY <2>1 DEF UnparkGivesBack
<1>4. PartsOf(R) \subseteq r.parts /\ \A s \in R : s.agent = a
  <2>1. PartsOf(Singly(a, r.parts)) = r.parts
    BY PartsSingly
  <2>2. PartsOf({r}) = r.parts
    BY DEF PartsOf
  <2>3. PartsOf({}) = {}
    BY PartsTogether
  <2>4. \A s \in Singly(a, r.parts) : s.agent = a
    BY DEF Singly
  <2> QED  BY <2>1, <2>2, <2>3, <2>4
<1>5. ASSUME NEW b \in Agent
      PROVE  PartsAt(b)' \subseteq PartsAt(b)
  <2>1. Pend(b)' = Pend(b) \cup (IF b = a THEN R ELSE {}) /\ Pas(b)' = Pas(b) /\ Held(b)' = Held(b)
    BY <1>1, <1>3, <1>4 DEF Pend, Pas, Held, Of
  <2>2. PartsOf(Pend(b) \cup R) = PartsOf(Pend(b)) \cup PartsOf(R)
    BY PartsTogether
  <2>3. /\ PartsAt(b) = PartsOf(Pend(b)) \cup PartsOf(Pas(b)) \cup PartsOf(Park(b)) \cup PartsOf(Held(b))
        /\ PartsAt(b)' = PartsOf(Pend(b)') \cup PartsOf(Pas(b)') \cup PartsOf(Park(b)') \cup PartsOf(Held(b)')
    BY PartsWhere
  <2>4. PartsOf(Pas(b)') = PartsOf(Pas(b)) /\ PartsOf(Held(b)') = PartsOf(Held(b))
    BY <2>1
  <2>5. CASE b = a
    <3>1. PartsOf(Pend(b)') = PartsOf(Pend(b)) \cup PartsOf(R)
      BY <2>1, <2>2, <2>5
    <3>2. PartsOf(Park(b)') = {} /\ PartsOf(R) \subseteq PartsAt(b)
      BY <1>2, <1>4, <2>5
    <3> QED  BY <2>3, <2>4, <3>1, <3>2
  <2>6. CASE b # a
    <3>1. Pend(b)' = Pend(b) /\ Park(b)' = Park(b)
      BY <1>2, <2>1, <2>6
    <3> QED  BY <2>3, <2>4, <3>1
  <2> QED  BY <2>5, <2>6
<1> QED  BY <1>1, <1>5, QueuesSettle

LEMMA UnparkTurns ==
    ASSUME CInv, CInv', NEW r \in parked, UnparkStarts(r)
    PROVE  Turns!Settle \/ Turns!Begin(r.agent)
<1> DEFINE a == r.agent
           kept == [NoHold EXCEPT !.kind = "wait", !.held = {r}]
           new == NewFrame(a, r.parts, 0, FALSE, NoToken)
<1>1. /\ OInv /\ TypeOK /\ parked' = parked \ {r}
      /\ UNCHANGED <<arrived, quiesced, pending, pass>>
      /\ GoesOn(r)
  BY DEF CInv, OInv, UnparkStarts, host, story
<1>2. /\ a \in Agent /\ r.parts \subseteq PartsAt(a) /\ PartsOf(Park(a)') = {}
      /\ \A b \in Agent : b # a => Park(b)' = Park(b)
  BY <1>1, UnparkParts
<1>3. \A b \in Agent : Pend(b)' = Pend(b) /\ Pas(b)' = Pas(b)
  BY <1>1 DEF Pend, Pas
<1>4. CASE bound[a]
  <2>1. hold' = [hold EXCEPT ![a] = kept] /\ UNCHANGED <<frames, token>>
    BY <1>4 DEF UnparkStarts
  <2>2. kept.held = {r}
    BY DEF NoHold
  <2> HIDE DEF kept
  <2>3. \A b \in Agent : Held(b)' = IF b = a THEN {r} ELSE Held(b)
    BY <1>1, <2>1, <2>2 DEF TypeOK, Held
  <2>4. PartsOf({r}) = r.parts
    BY DEF PartsOf
  <2>5. ASSUME NEW b \in Agent
        PROVE  PartsAt(b)' \subseteq PartsAt(b)
    <3>1. CASE b = a
      <4>1. PartsOf(Held(a)') = r.parts
        BY <1>2, <2>3, <2>4
      <4>2. PartsOf(Pend(a)') = PartsOf(Pend(a)) /\ PartsOf(Pas(a)') = PartsOf(Pas(a))
        BY <1>2, <1>3
      <4> HIDE DEF a
      <4> QED  BY <1>2, <3>1, <4>1, <4>2, PartsWhere
    <3>2. CASE b # a
      BY <1>2, <1>3, <2>3, <3>2, PartsWhere
    <3> QED  BY <3>1, <3>2
  <2> QED  BY <1>1, <2>1, <2>5, QueuesSettle
<1>5. CASE ~bound[a]
  <2>1. /\ FreeTokens # {} /\ frames' = frames \cup {new} /\ token' = [token EXCEPT ![a] = new.tok]
        /\ UNCHANGED hold
    BY <1>5 DEF UnparkStarts
  <2>2. new.tok \in Token /\ new.phase = "starting" /\ new.reads = Reads(r.parts)
    <3>1. (CHOOSE t \in FreeTokens : TRUE) \in FreeTokens
      BY <2>1
    <3> QED  BY <3>1 DEF NewFrame, FreeTokens
  <2> HIDE DEF new
  <2>3. \A b \in Agent : Held(b)' = Held(b)
    BY <2>1 DEF Held
  <2>4. \A b \in Agent : b # a => PartsAt(b)' = PartsAt(b)
    BY <1>2, <1>3, <2>3, PartsWhere
  <2>5. /\ PartsAt(a)' \subseteq PartsAt(a)
        /\ \A p \in PartsAt(a) : p \in r.parts \/ p \in PartsAt(a)'
    <3>1. PartsOf(Park(a)) = r.parts
      <4>1. Park(a) = {r}
        BY <1>1, ParkedAlone
      <4> QED  BY <4>1 DEF PartsOf
    <3> QED  BY <1>2, <1>3, <2>3, <3>1, PartsWhere
  <2>6. CASE quiesced
    <3>1. r.parts # {} /\ \A p \in r.parts : Continues(p)
      BY <1>1, <2>6 DEF GoesOn
    <3>2. \A b \in Agent : PartsAt(b)' \subseteq PartsAt(b)
      BY <2>4, <2>5
    <3> HIDE DEF a
    <3> QED  BY <1>1, <1>2, <2>1, <2>2, <3>1, <3>2, StartSettles DEF a
  <2>7. CASE ~quiesced
    <3> HIDE DEF a
    <3> QED  BY <1>1, <1>2, <2>1, <2>2, <2>4, <2>5, <2>7, StartBegins DEF a
  <2> QED  BY <2>6, <2>7
<1> QED  BY <1>4, <1>5

-----------------------------------------------------------------------------
(* Frames go on, hand their turns on, or end.                               *)

LEMMA BecomeAnswers ==
    ASSUME NEW f \in frames, NEW g, Become(f, g), g.reads \subseteq f.reads, f.phase # "ending", NEW w
    PROVE  Answered(w)' => Answered(w)
BY DEF Answered, Answers, Become

(* What a live frame answers is taken by its agent's turn.                  *)
LEMMA LiveHolds ==
    ASSUME OInv, NEW f \in frames, Living(f)
    PROVE  /\ f.agent \in Agent /\ Holding(f.agent) /\ f.phase # "ending"
           /\ \A w \in f.reads : Answered(w) /\ Taken(w)
<1>1. f.agent \in Agent /\ token[f.agent] = f.tok
  BY LiveCarries
<1>2. f.tok \in Token
  BY FrameTyped DEF OInv
<1>3. f.phase # "ending"
  BY DEF Living
<1>4. \A w \in f.reads : Answers(f, w)
  BY <1>3 DEF Answers
<1> QED  BY <1>1, <1>2, <1>3, <1>4, SchedulerConstants DEF Holding, Answered, Taken

(* Its turn goes on in a request, if at all.                                *)
LEMMA HandsOnSettles ==
    ASSUME CInv, CInv', NEW f \in frames, Living(f), NEW g, Become(f, g), g.reads \subseteq f.reads,
           UNCHANGED <<arrived, quiesced, token>>,
           \A b \in Agent : \A p \in PartsAt(b)' :
              \/ p \in PartsAt(b)
              \/ ~Continues(p) /\ p.reads = {}
              \/ b = f.agent /\ Continues(p) /\ p.reads = f.reads
    PROVE  Turns!Settle
<1>1. Holding(f.agent) /\ f.phase # "ending" /\ \A w \in f.reads : Taken(w)
  BY LiveHolds DEF CInv
<1>2. \A w \in Wake : Answered(w)' => Taken(w)
  BY <1>1, BecomeAnswers DEF Taken
<1>3. \A b \in Agent : token'[b] # NoToken => Holding(b)
  BY DEF Holding
<1>4. ASSUME NEW b \in Agent, NEW p \in PartsAt(b)'
      PROVE  \/ p \in PartsAt(b)
             \/ ~Continues(p) /\ p.reads = {}
             \/ Continues(p) /\ Holding(b) /\ \A w \in p.reads : Taken(w)
  BY <1>1
<1> QED  BY <1>2, <1>3, <1>4, PartsSettle

LEMMA FramesSettle ==
    ASSUME CInv, CInv', NEW f \in frames,
           BeginStopped(f) \/ BeginWithdrawn(f) \/ FailsIntoRetry(f) \/ GuardRetries(f)
             \/ EndsTurn(f) \/ Aborted(f)
    PROVE  Turns!Settle
<1>1. f \in Frame /\ UNCHANGED <<pending, pass, parked, hold, arrived, quiesced, token>>
  BY FrameTyped DEF CInv, OInv, BeginStopped, BeginWithdrawn, FailsIntoRetry, GuardRetries,
     EndsTurn, Aborted, QueueSame, work, host
<1>2. \A b \in Agent : PartsAt(b)' = PartsAt(b)
  BY <1>1, PartsWhere DEF Pend, Pas, Held, Park
<1>3. f.phase # "ending"
  BY DEF BeginStopped, BeginWithdrawn, FailsIntoRetry, GuardRetries, EndsTurn, Aborted,
     Waiting, Failing, Streams
<1>4. PICK g \in Changes(f) : Become(f, g)
  BY DEF BeginStopped, BeginWithdrawn, FailsIntoRetry, GuardRetries, EndsTurn, Aborted, Changes
<1>5. g.reads \subseteq f.reads
  BY <1>1 DEF Changes, Frame
<1>6. \A w \in Wake : Answered(w)' => Answered(w)
  BY <1>3, <1>4, <1>5, BecomeAnswers
<1> QED  BY <1>1, <1>2, <1>6, DropsSettle

(* A frame handed back to, one that streams, one that leaves.               *)
LEMMA ReturnsSettle ==
    ASSUME CInv, CInv', NEW f \in frames, BeginStreams(f) \/ Leaves(f)
    PROVE  Turns!Settle
<1> DEFINE streaming == [f EXCEPT !.phase = "streaming", !.inPass = FALSE, !.parent = NoToken]
<1>1. /\ TypeOK /\ f \in Frame
      /\ UNCHANGED <<pending, pass, parked, hold, arrived, quiesced>>
  BY FrameTyped DEF CInv, OInv, BeginStreams, Leaves, QueueSame, work, host
<1>2. \A b \in Agent : PartsAt(b)' = PartsAt(b)
  BY <1>1, PartsWhere DEF Pend, Pas, Held, Park
<1>3. ASSUME NEW F \in SUBSET frames, NEW g \in ReturnTo(f, F), NEW w, Answers(g, w)
      PROVE  Answered(w)
  <2>1. PICK h \in F : g = h \/ g = [h EXCEPT !.phase = "ending"]
    BY <1>3 DEF ReturnTo
  <2>2. h \in Frame
    BY <1>1 DEF TypeOK
  <2>3. g # [h EXCEPT !.phase = "ending"] \/ g = h
    BY <1>3, <2>2 DEF Answers, Frame
  <2> QED  BY <1>3, <2>1, <2>3 DEF Answered
<1>4. BeginStreams(f) => \A w : Answers(streaming, w) => Answered(w)
  BY <1>1 DEF BeginStreams, Answers, Answered, Frame
<1>5. frames \ {f} \in SUBSET frames
  OBVIOUS
<1>6. \/ frames' = ReturnTo(f, frames \ {f})
      \/ BeginStreams(f) /\ frames' = ReturnTo(f, frames \ {f}) \cup {streaming}
  BY DEF BeginStreams, Leaves
<1> HIDE DEF streaming
<1>7. ASSUME NEW w \in Wake
      PROVE  Answered(w)' => Answered(w)
  <2>1. \A g \in frames' : Answers(g, w) => Answered(w)
    BY <1>3, <1>4, <1>5, <1>6
  <2>2. Answered(w)' <=> \E g \in frames' : Answers(g, w)
    BY DEF Answered, Answers
  <2> QED  BY <2>1, <2>2
<1>8. \A b \in Agent : token'[b] # NoToken => Holding(b)
  BY <1>1 DEF BeginStreams, Leaves, TokenCleared, TypeOK, Holding
<1>9. \A w \in Wake : Answered(w)' => Taken(w)
  BY <1>7 DEF Taken
<1> QED  BY <1>1, <1>2, <1>8, <1>9, PartsSettle

(* A request more of a frame's agent, queued or held.                       *)
LEMMA OneMorePart ==
    ASSUME NEW a \in Agent, NEW kind, NEW reads, NEW R, R = {Request1(a, kind, reads)},
           \A b \in Agent : b # a => SameQueues(b), Pas(a)' = Pas(a), Park(a)' = Park(a),
           \/ Pend(a)' = Pend(a) \cup R /\ Held(a)' = Held(a)
           \/ Pend(a)' = Pend(a) /\ Held(a)' = Held(a) \cup R,
           NEW b \in Agent
    PROVE  PartsAt(b)' = IF b = a THEN PartsAt(b) \cup {[kind |-> kind, reads |-> reads]} ELSE PartsAt(b)
<1>1. PartsOf(R) = {[kind |-> kind, reads |-> reads]}
  BY PartsOne
<1>2. \A T : PartsOf(T \cup R) = PartsOf(T) \cup PartsOf(R)
  BY PartsTogether
<1>3. CASE b = a
  BY <1>1, <1>2, <1>3, PartsWhere
<1>4. CASE b # a
  BY <1>4, PartsStay
<1> QED  BY <1>3, <1>4

LEMMA HeldOverSettles ==
    ASSUME CInv, CInv', NEW f \in frames, Living(f), Become(f, [f EXCEPT !.phase = "ending"]),
           UNCHANGED <<pending, pass, parked, arrived, quiesced, token>>,
           \A b \in Agent : Held(b)' = IF b = f.agent THEN Held(b) \cup {Continuation(f)} ELSE Held(b)
    PROVE  Turns!Settle
<1> DEFINE a == f.agent
           g == [f EXCEPT !.phase = "ending"]
           kind == IF f.restart THEN "restart" ELSE "retry"
           R == {Continuation(f)}
           one == [kind |-> kind, reads |-> f.reads]
<1>1. f \in Frame /\ a \in Agent
  BY FrameTyped DEF CInv, OInv
<1>2. Become(f, g) /\ g.reads \subseteq f.reads
  BY <1>1 DEF Frame
<1>3. R = {Request1(a, kind, f.reads)}
  BY DEF Continuation
<1>4. \A b \in Agent : Pend(b)' = Pend(b) /\ Pas(b)' = Pas(b) /\ Park(b)' = Park(b)
  BY DEF Pend, Pas, Park
<1>5. \A b \in Agent : b # a => SameQueues(b)
  BY <1>4 DEF SameQueues
<1>6. Pend(a)' = Pend(a) /\ Held(a)' = Held(a) \cup R /\ Pas(a)' = Pas(a) /\ Park(a)' = Park(a)
  BY <1>1, <1>4
<1>7. one.reads = f.reads /\ Continues(one)
  BY DEF Continues
<1> HIDE DEF R, g, kind
<1>8. \A b \in Agent : PartsAt(b)' = IF b = a THEN PartsAt(b) \cup {one} ELSE PartsAt(b)
  <2>1. SUFFICES ASSUME NEW b \in Agent
                 PROVE  PartsAt(b)' = IF b = a THEN PartsAt(b) \cup {one} ELSE PartsAt(b)
    OBVIOUS
  <2>2. CASE b # a
    <3>1. SameQueues(b)
      BY <1>5, <2>2
    <3> QED  BY <2>2, <3>1, PartsStay
  <2>3. CASE b = a
    <3>1. PartsOf(R) = {one}
      BY <1>3, PartsOne
    <3>2. PartsOf(Held(b) \cup R) = PartsOf(Held(b)) \cup PartsOf(R)
      BY PartsTogether
    <3>3. /\ PartsOf(Pend(b)') = PartsOf(Pend(b)) /\ PartsOf(Pas(b)') = PartsOf(Pas(b))
          /\ PartsOf(Park(b)') = PartsOf(Park(b))
          /\ PartsOf(Held(b)') = PartsOf(Held(b)) \cup {one}
      BY <1>6, <2>3, <3>1, <3>2
    <3>4. /\ PartsAt(b) = PartsOf(Pend(b)) \cup PartsOf(Pas(b)) \cup PartsOf(Park(b)) \cup PartsOf(Held(b))
          /\ PartsAt(b)' = PartsOf(Pend(b)') \cup PartsOf(Pas(b)') \cup PartsOf(Park(b)') \cup PartsOf(Held(b)')
      BY PartsWhere
    <3> QED  BY <2>3, <3>3, <3>4
  <2> QED  BY <2>2, <2>3
<1> HIDE DEF one, a
<1>9. \A b \in Agent : \A p \in PartsAt(b)' :
         p \in PartsAt(b) \/ (b = f.agent /\ Continues(p) /\ p.reads = f.reads)
  BY <1>7, <1>8 DEF a
<1> QED  BY <1>2, <1>9, HandsOnSettles

LEMMA FailsHeldSettles ==
    ASSUME CInv, CInv', NEW f \in frames, BeginHeld(f) \/ FailsIntoHold(f) \/ FailsIntoWait(f)
    PROVE  Turns!Settle
<1>1. f.agent \in Agent /\ TypeOK
  BY FrameTyped DEF CInv, OInv
<1>2. /\ Living(f) /\ Become(f, [f EXCEPT !.phase = "ending"])
      /\ UNCHANGED <<pending, pass, parked, arrived, quiesced, token>>
  BY DEF BeginHeld, FailsIntoHold, FailsIntoWait, Failing, QueueSame, story, work, host, Living, Gone
<1>3. \A b \in Agent : Held(b)' = IF b = f.agent THEN Held(b) \cup {Continuation(f)} ELSE Held(b)
  <2>1. CASE BeginHeld(f) \/ FailsIntoWait(f)
    <3>1. HoldForWait(f.agent, {Continuation(f)})
      BY <2>1 DEF BeginHeld, FailsIntoWait
    <3> QED  BY <1>1, <3>1, HoldForWaitQueues
  <2>2. CASE FailsIntoHold(f)
    BY <1>1, <2>2 DEF FailsIntoHold, TypeOK, Held
  <2> QED  BY <2>1, <2>2
<1> QED  BY <1>2, <1>3, HeldOverSettles

LEMMA CompletesSettles ==
    ASSUME CInv, CInv', NEW f \in frames, Completes(f)
    PROVE  Turns!Settle
<1> DEFINE a == f.agent
           g == [f EXCEPT !.phase = "ending"]
           R == {Request1(a, "auto", {})}
           auto == [kind |-> "auto", reads |-> {}]
<1>1. f \in Frame /\ a \in Agent
  BY FrameTyped DEF CInv, OInv
<1>2. /\ Living(f) /\ Become(f, g)
      /\ pending' = pending \/ pending' = pending \cup R
      /\ UNCHANGED <<pass, parked, hold, arrived, quiesced, token>>
  BY DEF Completes, Streams, Living, Gone, host
<1>3. g.reads \subseteq f.reads
  BY <1>1 DEF Frame
<1>4. \A b : Of(b, R) = IF b = a THEN R ELSE {}
  BY OfNew
<1>5. PartsOf(R) = {auto}
  BY PartsOne
<1>6. auto.reads = {} /\ ~Continues(auto)
  BY DEF Continues
<1> HIDE DEF g, R, auto
<1>7. ASSUME NEW b \in Agent
      PROVE  PartsAt(b)' \subseteq PartsAt(b) \cup {auto}
  <2>1. Pas(b)' = Pas(b) /\ Held(b)' = Held(b) /\ Park(b)' = Park(b)
    BY <1>2 DEF Pas, Held, Park
  <2>2. Pend(b)' = Pend(b) \/ Pend(b)' = Pend(b) \cup Of(b, R)
    <3>1. \A c : Of(c, pending \cup R) = Of(c, pending) \cup Of(c, R)
      BY OfSets
    <3> QED  BY <1>2, <3>1 DEF Pend
  <2>3. PartsOf(Pend(b) \cup Of(b, R)) = PartsOf(Pend(b)) \cup PartsOf(Of(b, R))
    BY PartsTogether
  <2>4. PartsOf({}) = {}
    BY PartsTogether
  <2>5. PartsOf(Pend(b)') \subseteq PartsOf(Pend(b)) \cup {auto}
    BY <1>4, <1>5, <2>2, <2>3, <2>4
  <2> QED  BY <2>1, <2>5, PartsWhere
<1>8. \A b \in Agent : \A p \in PartsAt(b)' : p \in PartsAt(b) \/ (~Continues(p) /\ p.reads = {})
  BY <1>6, <1>7
<1> QED  BY <1>2, <1>3, <1>8, HandsOnSettles

LEMMA BudgetSettles ==
    ASSUME CInv, CInv', NEW f \in frames, BudgetRestarts(f)
    PROVE  Turns!Settle
<1> DEFINE a == f.agent
           R == {Request1(a, "restart", f.reads)}
           one == [kind |-> "restart", reads |-> f.reads]
           cut == [f EXCEPT !.stop = "budget_restart", !.reads = {}]
           down == [f EXCEPT !.stop = "shutdown"]
<1>1. /\ f \in Frame /\ a \in Agent /\ Living(f)
      /\ UNCHANGED <<pass, parked, hold, arrived, quiesced, token>>
  BY FrameTyped DEF CInv, OInv, BudgetRestarts, Streams, Living, Gone, host, story
<1>2. cut.reads \subseteq f.reads /\ down.reads \subseteq f.reads
  BY <1>1 DEF Frame
<1>3. one.reads = f.reads /\ Continues(one)
  BY DEF Continues
<1>4. CASE closed
  <2>1. Become(f, down) /\ UNCHANGED pending
    BY <1>4 DEF BudgetRestarts
  <2>2. \A b \in Agent : PartsAt(b)' = PartsAt(b)
    BY <1>1, <2>1, PartsWhere DEF Pend, Pas, Held, Park
  <2> HIDE DEF down
  <2> QED  BY <1>1, <1>2, <2>1, <2>2, HandsOnSettles
<1>5. CASE ~closed
  <2>1. Become(f, cut) /\ pending' = pending \cup R
    BY <1>5 DEF BudgetRestarts
  <2>2. \A b : Of(b, R) = IF b = a THEN R ELSE {}
    BY OfNew
  <2>3. R = {Request1(a, "restart", f.reads)}
    OBVIOUS
  <2> HIDE DEF R, cut
  <2>4. \A b \in Agent : /\ Pend(b)' = Pend(b) \cup Of(b, R) /\ Pas(b)' = Pas(b)
                         /\ Held(b)' = Held(b) /\ Park(b)' = Park(b)
    <3>1. \A b \in Agent : Pend(b)' = Of(b, pending \cup R)
      BY <2>1 DEF Pend
    <3>2. \A b \in Agent : Of(b, pending \cup R) = Of(b, pending) \cup Of(b, R)
      BY OfSets
    <3>3. \A b \in Agent : Pend(b)' = Pend(b) \cup Of(b, R)
      BY <3>1, <3>2 DEF Pend
    <3>4. \A b \in Agent : Pas(b)' = Pas(b) /\ Held(b)' = Held(b) /\ Park(b)' = Park(b)
      BY <1>1 DEF Pas, Held, Park
    <3> QED  BY <3>3, <3>4
  <2>5. \A b \in Agent : b # a => SameQueues(b)
    BY <2>2, <2>4 DEF SameQueues
  <2>6. Pend(a)' = Pend(a) \cup R /\ Pas(a)' = Pas(a) /\ Held(a)' = Held(a) /\ Park(a)' = Park(a)
    BY <1>1, <2>2, <2>4
  <2>7. \A b \in Agent : PartsAt(b)' = IF b = a THEN PartsAt(b) \cup {one} ELSE PartsAt(b)
    BY <1>1, <2>3, <2>5, <2>6, OneMorePart
  <2> HIDE DEF one, a
  <2>8. \A b \in Agent : \A p \in PartsAt(b)' :
           p \in PartsAt(b) \/ (b = f.agent /\ Continues(p) /\ p.reads = f.reads)
    BY <1>3, <2>7 DEF a
  <2> QED  BY <1>1, <1>2, <2>1, <2>8, HandsOnSettles
<1> QED  BY <1>4, <1>5

(* An exhausted turn is over, or gives its wakes back.                      *)
LEMMA ExhaustedGivesBack ==
    ASSUME CInv, CInv', NEW f \in frames, FailsExhausted(f)
    PROVE  Turns!Settle \/ Turns!GiveBack(f.agent)
<1> DEFINE a == f.agent
           g == [f EXCEPT !.phase = "ending"]
           again == Request1(a, "wake", f.reads)
           one == [kind |-> "wake", reads |-> f.reads]
           R == {again}
<1>1. f \in Frame /\ a \in Agent /\ TypeOK /\ OInv
  BY FrameTyped DEF CInv, OInv
<1>2. /\ Living(f) /\ Become(f, g)
      /\ UNCHANGED <<pending, pass, parked, arrived, dropped, quiesced, token>>
  BY DEF FailsExhausted, Failing, Living, Gone, work, host
<1>3. g.reads \subseteq f.reads
  BY <1>1 DEF Frame
<1>4. \A b \in Agent : Pend(b)' = Pend(b) /\ Pas(b)' = Pas(b) /\ Park(b)' = Park(b)
  BY <1>2 DEF Pend, Pas, Park
<1>5. CASE UNCHANGED hold
  <2>1. \A b \in Agent : PartsAt(b)' = PartsAt(b)
    BY <1>4, <1>5, PartsWhere DEF Held
  <2> HIDE DEF g
  <2> QED  BY <1>2, <1>3, <2>1, HandsOnSettles
<1>6. CASE ~UNCHANGED hold
  <2>1. /\ hold' = [hold EXCEPT ![a] =
                     IF hold[a].kind # "none" THEN Adding(hold[a], {again})
                     ELSE [NoHold EXCEPT !.kind = "rearm", !.held = {again}]]
        /\ UNCHANGED over
    BY <1>6 DEF FailsExhausted
  <2>2. hold \in [Agent -> Hold] /\ hold[a] \in Hold
    BY <1>1 DEF TypeOK
  <2>3. Adding(hold[a], {again}).held = Held(a) \cup {again}
    BY <2>2 DEF Adding, Hold, Held
  <2>4. [NoHold EXCEPT !.kind = "rearm", !.held = {again}].held = {again}
    BY DEF NoHold
  <2>5. hold[a].kind = "none" => Held(a) = {}
    BY <1>1 DEF CInv, WInv, Idle, HoldsIdle, Held
  <2>6. R = {Request1(a, "wake", f.reads)}
    OBVIOUS
  <2> HIDE DEF again, R
  <2>7. \A b \in Agent : Held(b)' = IF b = a THEN Held(b) \cup {again} ELSE Held(b)
    BY <1>1, <2>1, <2>2, <2>3, <2>4, <2>5 DEF Held
  <2>8. \A b \in Agent : b # a => SameQueues(b)
    BY <1>4, <2>7 DEF SameQueues
  <2>9. Pend(a)' = Pend(a) /\ Held(a)' = Held(a) \cup R /\ Pas(a)' = Pas(a) /\ Park(a)' = Park(a)
    BY <1>1, <1>4, <2>7 DEF R
  <2>10. \A b \in Agent : PartsAt(b)' = IF b = a THEN PartsAt(b) \cup {one} ELSE PartsAt(b)
    BY <1>1, <2>6, <2>8, <2>9, OneMorePart
  <2>11. one.reads = f.reads /\ ~Continues(one) /\ \A p : Continues(p)' <=> Continues(p)
    BY DEF Continues
  <2> HIDE DEF one, g
  <2>12. Holding(a) /\ f.phase # "ending" /\ \A w \in f.reads : Answered(w) /\ Taken(w)
    BY <1>1, <1>2, LiveHolds
  <2>13. ASSUME NEW b \in Agent, NEW p
         PROVE  p \in PartsAt(b)' => p \in PartsAt(b) \/ p = one
    BY <2>10
  <2>14. ASSUME NEW w \in Wake
         PROVE  /\ Taken(w)' => Taken(w)
                /\ Queued(w)' => Queued(w) \/ (Taken(w) /\ AgentOf[w] = a)
    <3>1. Answered(w)' => Taken(w)
      BY <1>2, <1>3, <2>12, BecomeAnswers DEF Taken
    <3>2. Taken(w)' => Taken(w)
      BY <2>11, <2>13, <3>1 DEF Taken
    <3>3. w \in f.reads => Taken(w) /\ AgentOf[w] = a
      BY <2>12, Standing DEF Answers
    <3>4. Queued(w)' => Queued(w) \/ w \in f.reads
      BY <2>11, <2>13 DEF Queued
    <3> QED  BY <3>2, <3>3, <3>4
  <2>15. \A b \in Agent : Holding(b)' <=> Holding(b)
    <3>1. ASSUME NEW b \in Agent, NEW p
          PROVE  p \in PartsAt(b)' /\ Continues(p) <=> p \in PartsAt(b) /\ Continues(p)
      BY <2>10, <2>11
    <3> QED  BY <1>2, <2>11, <3>1 DEF Holding
  <2>16. UNCHANGED <<arrived, over, dropped, quiesced>>
    BY <1>2, <2>1
  <2> HIDE DEF a
  <2> QED  BY <1>1, <2>12, <2>14, <2>15, <2>16, StepGivesBack DEF a
<1> QED  BY <1>5, <1>6

(* A turn tries again: held, or under a new frame that answers what the old *)
(* one did.                                                                 *)
LEMMA RetrySettles ==
    ASSUME CInv, CInv', NEW f \in frames, RetryStarts(f)
    PROVE  Turns!Settle
<1> DEFINE a == f.agent
           kind == IF f.restart THEN "restart" ELSE "retry"
           parts == {[kind |-> kind, reads |-> f.reads]}
           new == NewFrame(a, parts, f.attempt, f.inPass, f.tok)
           handing == [f EXCEPT !.phase = "handing", !.reads = {}]
<1>1. /\ f \in Frame /\ a \in Agent /\ f.tok \in Toks(a) /\ TypeOK /\ OInv /\ Living(f)
      /\ ~closed /\ UNCHANGED <<pending, pass, arrived, quiesced>>
  BY FrameTyped DEF CInv, OInv, RetryStarts, Living, Gone, work, host, story
<1>2. ~AuxRunning(a)
  BY <1>1 DEF OInv, Owners, Owned, Excluded, AuxRunning
<1>3. CASE bound[a]
  <2>1. /\ HoldForWait(a, {Continuation(f)})
        /\ Become(f, [f EXCEPT !.phase = "ending"]) /\ UNCHANGED <<token, parked>>
    BY <1>2, <1>3 DEF RetryStarts
  <2>2. \A b \in Agent : Held(b)' = IF b = a THEN Held(b) \cup {Continuation(f)} ELSE Held(b)
    BY <1>1, <2>1, HoldForWaitQueues
  <2> QED  BY <1>1, <2>1, <2>2, HeldOverSettles
<1>4. CASE ~bound[a]
  <2>1. /\ frames' = (frames \ {f}) \cup {handing, new} /\ UNCHANGED <<hold, parked>>
        /\ token' = [token EXCEPT ![a] = new.tok]
    BY <1>2, <1>4 DEF RetryStarts
  <2>2. new.reads = f.reads
    <3>1. new.reads = Reads(parts)
      BY DEF NewFrame
    <3>2. Reads(parts) = f.reads
      BY DEF Reads
    <3> HIDE DEF new, parts
    <3> QED  BY <3>1, <3>2
  <2>3. handing.reads = {}
    BY <1>1 DEF Frame
  <2> HIDE DEF new, handing
  <2>4. Holding(a) /\ \A w \in f.reads : Answered(w)
    BY <1>1, LiveHolds
  <2>5. \A w \in Wake : Answered(w)' => Taken(w)
    <3> SUFFICES ASSUME NEW w \in Wake, Answered(w)'
                 PROVE  Taken(w)
      OBVIOUS
    <3>1. PICK g \in frames' : Answers(g, w)
      BY DEF Answered, Answers
    <3>2. g \in frames \/ w \in f.reads
      BY <2>1, <2>2, <2>3, <3>1 DEF Answers
    <3> QED  BY <2>4, <3>1, <3>2 DEF Answered, Taken
  <2>6. \A b \in Agent : token'[b] # NoToken => Holding(b)
    <3>1. \A b \in Agent : b # a => token'[b] = token[b]
      BY <1>1, <2>1 DEF TypeOK
    <3> HIDE DEF a
    <3> QED  BY <2>4, <3>1 DEF Holding
  <2>7. \A b \in Agent : PartsAt(b)' = PartsAt(b)
    BY <1>1, <2>1, PartsWhere DEF Pend, Pas, Held, Park
  <2> QED  BY <1>1, <2>5, <2>6, <2>7, PartsSettle
<1> QED  BY <1>3, <1>4

-----------------------------------------------------------------------------
(* The pass starts a turn.                                                  *)

(* A merged start has the parts it merges, or one that carries their turn on*)
(* and reads what they read.                                                *)
LEMMA MergedParts ==
    ASSUME NEW Q, NEW p \in Merged(Q)
    PROVE  p \in Q \/ (Continues(p) /\ p.reads = Reads(Q) /\ \A q \in Q : Continues(q))
BY DEF Merged, Continues

LEMMA PassTurns ==
    ASSUME CInv, CInv', NEW a \in Agent, PassStarts(a)
    PROVE  Turns!Settle \/ Turns!Begin(a)
<1>1. PICK read \in SUBSET {p \in Ready(a) : p.kind = "wake"} :
        LET parts == Merged(Ready(a) \ read)
        IN  /\ Ready(a) # read /\ ~Busy(a) /\ ~closed
            /\ TakeGroup(a, Kept(a) \ Ready(a))
            /\ IF AuxRunning(a)
               THEN /\ parked' = parked \cup {[agent |-> a, parts |-> parts]}
                    /\ UNCHANGED <<frames, token>>
               ELSE LET new == NewFrame(a, parts, 0, TRUE, NoToken)
                    IN  /\ FreeTokens # {}
                        /\ frames' = frames \cup {new}
                        /\ token' = [token EXCEPT ![a] = new.tok]
                        /\ UNCHANGED parked
  BY DEF PassStarts
<1> DEFINE back == Kept(a) \ Ready(a)
           on == Ready(a) \ read
           parts == Merged(on)
           r == [agent |-> a, parts |-> parts]
           new == NewFrame(a, parts, 0, TRUE, NoToken)
<1>2. TypeOK /\ OInv
  BY DEF CInv, OInv
<1>3. Park(a) = {}
  BY <1>1, <1>2, StartsAlone
<1>4. /\ back \in SUBSET Unheld(a) /\ on \subseteq Unheld(a) /\ on # {}
      /\ quiesced => \A p \in on : Continues(p)
      /\ ~quiesced => \A p \in Unheld(a) : Continues(p) => p \in back \/ p \in on
  <2>1. Ready(a) \subseteq Passing(a) /\ Passing(a) \subseteq Kept(a) /\ Kept(a) \subseteq Unheld(a)
    BY DEF Ready, Passing, Kept
  <2>2. on # {}
    BY <1>1
  <2>3. quiesced => \A p \in on : Continues(p)
    BY <2>1 DEF Passing
  <2>4. \A p \in read : ~Continues(p)
    BY DEF Continues
  <2>5. ~quiesced => Kept(a) = Unheld(a)
    BY DEF Kept
  <2> QED  BY <2>1, <2>2, <2>3, <2>4, <2>5
<1>5. /\ UNCHANGED <<arrived, quiesced>>
      /\ Unheld(a) \subseteq PartsAt(a)
      /\ Pend(a)' = Pend(a) \cup Singly(a, back)
      /\ \A b \in Agent : PartsOf(Pend(b)') \cup PartsOf(Pas(b)') \cup PartsOf(Held(b)') \subseteq PartsAt(b)
      /\ \A b \in Agent : b # a => Pend(b)' = Pend(b) /\ Pas(b)' = Pas(b) /\ Held(b)' = Held(b)
  BY <1>1, <1>2, <1>4, TakeGroupQueues, TakenParts DEF TakeGroup, host
<1>6. on \subseteq PartsAt(a)
  BY <1>4, <1>5
<1>7. CASE AuxRunning(a)
  <2>1. parked' = parked \cup {r} /\ UNCHANGED <<frames, token>>
    BY <1>1, <1>7
  <2>2. r.agent = a /\ r.parts = parts
    OBVIOUS
  <2>3. \A p \in parts : \/ p \in on
                         \/ Continues(p) /\ p.reads = Reads(on) /\ \A q \in on : Continues(q)
    BY MergedParts
  <2> HIDE DEF r, parts, on, back
  <2>4. Park(a)' = {r} /\ \A b \in Agent : b # a => Park(b)' = Park(b)
    BY <1>3, <2>1, <2>2 DEF Park, Of
  <2>5. PartsOf(Park(a)') = parts
    BY <2>2, <2>4 DEF PartsOf
  <2>6. ASSUME NEW b \in Agent, NEW p \in PartsAt(b)'
        PROVE  \/ p \in PartsAt(b)
               \/ b = a /\ Continues(p) /\ p.reads = Reads(on) /\ \A q \in on : Continues(q)
    <3>1. CASE b = a
      BY <1>5, <1>6, <2>3, <2>5, <3>1, PartsWhere
    <3>2. CASE b # a
      BY <1>5, <2>4, <3>2, PartsWhere
    <3> QED  BY <3>1, <3>2
  <2>7. ASSUME \A q \in on : Continues(q)
        PROVE  Holding(a) /\ \A w \in Reads(on) : Taken(w)
    BY <1>4, <1>6, <2>7 DEF Holding, Taken, Reads
  <2>8. \A w \in Wake : Answered(w)' => Taken(w)
    BY <2>1 DEF Answered, Answers, Taken
  <2>9. \A b \in Agent : token'[b] # NoToken => Holding(b)
    BY <2>1 DEF Holding
  <2>10. \A b \in Agent : \A p \in PartsAt(b)' :
            \/ p \in PartsAt(b)
            \/ ~Continues(p) /\ p.reads = {}
            \/ Continues(p) /\ Holding(b) /\ \A w \in p.reads : Taken(w)
    BY <2>6, <2>7
  <2> QED  BY <1>5, <2>8, <2>9, <2>10, PartsSettle
<1>8. CASE ~AuxRunning(a)
  <2>1. /\ FreeTokens # {} /\ frames' = frames \cup {new} /\ UNCHANGED parked
        /\ token' = [token EXCEPT ![a] = new.tok]
    BY <1>1, <1>8
  <2>2. new.tok \in Token /\ new.phase = "starting" /\ new.reads = Reads(on)
    <3>1. (CHOOSE t \in FreeTokens : TRUE) \in FreeTokens
      BY <2>1
    <3>2. Reads(parts) = Reads(on)
      BY MergedReads
    <3> QED  BY <3>1, <3>2 DEF NewFrame, FreeTokens
  <2> HIDE DEF new, parts, on, back
  <2>3. \A b \in Agent : Park(b)' = Park(b)
    BY <2>1 DEF Park
  <2>4. \A b \in Agent : b # a => PartsAt(b)' = PartsAt(b)
    BY <1>5, <2>3, PartsWhere
  <2>5. PartsOf({}) = {}
    BY PartsTogether
  <2>6. PartsAt(a)' \subseteq PartsAt(a)
    BY <1>3, <1>5, <2>3, <2>5, PartsWhere
  <2>7. CASE quiesced
    <3>1. \A b \in Agent : PartsAt(b)' \subseteq PartsAt(b)
      BY <2>4, <2>6
    <3> QED  BY <1>4, <1>5, <1>6, <2>1, <2>2, <2>7, <3>1, StartSettles
  <2>8. CASE ~quiesced
    <3>1. PartsOf(Pend(a)') = PartsOf(Pend(a)) \cup back
      <4>1. PartsOf(Pend(a) \cup Singly(a, back)) = PartsOf(Pend(a)) \cup PartsOf(Singly(a, back))
        BY PartsTogether
      <4>2. PartsOf(Singly(a, back)) = back
        BY PartsSingly
      <4> QED  BY <1>5, <4>1, <4>2
    <3>2. PartsAt(a) = PartsOf(Pend(a)) \cup Unheld(a)
      <4>1. Unheld(a) = PartsOf(Pas(a)) \cup PartsOf(Held(a))
        BY PartsTogether DEF Unheld, Pas, Held
      <4> QED  BY <1>3, <2>5, <4>1, PartsWhere
    <3>3. PartsOf(Pend(a)') \subseteq PartsAt(a)'
      BY PartsWhere
    <3>4. \A p \in PartsAt(a) : Continues(p) => p \in on \/ p \in PartsAt(a)'
      BY <1>4, <2>8, <3>1, <3>2, <3>3
    <3> QED  BY <1>5, <1>6, <2>1, <2>2, <2>4, <2>6, <2>8, <3>4, StartBegins
  <2> QED  BY <2>7, <2>8
<1> QED  BY <1>7, <1>8

-----------------------------------------------------------------------------
(* The scheduler keeps the promise.                                         *)

LEMMA InitiallyPromised == CInv /\ Init => Turns!Init
<1> SUFFICES ASSUME CInv, Init
             PROVE  Turns!Init
  OBVIOUS
<1>1. \A w : Stage(w) = "new"
  BY DEF Init, Stage
<1>2. TurnHolders = {}
  <2>1. OnTheirWay({}) = {}
    BY DEF Init, OnTheirWay, NoHold
  <2> QED  BY <2>1 DEF Init, TurnHolders
<1> QED  BY <1>1, <1>2 DEF Init, Turns!Init, Stage

(* Every step of the scheduler is one that AgentTurns allows.               *)
LEMMA StepPromised ==
    ASSUME CInv, CInv', [Next]_vars
    PROVE  [Turns!Next]_(Turns!vars)
<1>1. Turns!Settle \/ Turns!Mode => Turns!Next
  BY DEF Turns!Next
<1>2. \A a \in Agent : Turns!Begin(a) \/ Turns!GiveBack(a) => Turns!Next
  BY DEF Turns!Next
<1>3. CASE UNCHANGED vars
  <2>1. UNCHANGED <<arrived, quiesced, frames, token>> /\ \A b \in Agent : SameQueues(b)
    BY <1>3 DEF vars, work, host, story, SameQueues, Pend, Pas, Held, Park
  <2> QED  BY <1>1, <2>1, MarksSettle
<1>4. ASSUME NEW v \in Wake, WakeArrives(v) \/ Withdraw(v)
      PROVE  Turns!Next
  <2>1. CASE WakeArrives(v)
    BY <2>1, ArrivalArrives DEF Turns!Next
  <2>2. CASE Withdraw(v)
    BY <1>1, <2>2, WithdrawSettles
  <2> QED  BY <1>4, <2>1, <2>2
<1>5. CASE PassBegins \/ PassEnds
  BY <1>1, <1>5, PassTurnsSettles
<1>6. ASSUME NEW a \in Agent, PassStep(a)
      PROVE  Turns!Next
  <2>1. CASE PassStarts(a)
    BY <1>1, <1>2, <2>1, PassTurns
  <2>2. CASE ~PassStarts(a)
    BY <1>1, <1>6, <2>2, PassKeepsSettles, PassLeavesSettles DEF PassStep
  <2> QED  BY <2>1, <2>2
<1>7. ASSUME NEW r \in parked, UnparkGivesBack(r) \/ UnparkStarts(r)
      PROVE  Turns!Next
  <2>1. r.agent \in Agent
    BY ParkedAlone DEF CInv
  <2> QED  BY <1>1, <1>2, <1>7, <2>1, GivesBackSettles, UnparkTurns
<1>8. ASSUME NEW f \in frames, FrameStep(f)
      PROVE  Turns!Next
  <2>1. f.agent \in Agent
    BY FrameTyped DEF CInv, OInv
  <2>2. CASE FailsExhausted(f)
    BY <1>1, <1>2, <2>1, <2>2, ExhaustedGivesBack
  <2>3. CASE ~FailsExhausted(f)
    BY <1>1, <1>8, <2>3, FramesSettle, ReturnsSettle, FailsHeldSettles, CompletesSettles, BudgetSettles,
       RetrySettles DEF FrameStep
  <2> QED  BY <2>2, <2>3
<1>9. ASSUME NEW x \in Aux, AuxStep(x)
      PROVE  Turns!Next
  BY <1>1, <1>9, AuxSettles
<1>10. ASSUME NEW a \in Agent, WaitEnds(a) \/ HoldExpires(a)
       PROVE  Turns!Next
  <2>1. CASE HoldExpires(a)
    BY <1>1, <2>1, HoldEndsSettles
  <2>2. CASE WaitEnds(a)
    <3>1. UNCHANGED <<arrived, quiesced, frames, token>> /\ \A b \in Agent : SameQueues(b)
      BY <2>2 DEF WaitEnds, work, host, story, SameQueues, Pend, Pas, Held, Park
    <3> QED  BY <1>1, <3>1, MarksSettle
  <2> QED  BY <1>10, <2>1, <2>2
<1>11. CASE Operator
  <2>1. CASE Quiesce \/ ResumeBegins \/ ResumeEnds
    <3>1. UNCHANGED <<work, hold, parked, frames, token, story>>
      BY <2>1 DEF Quiesce, ResumeBegins, ResumeEnds
    <3> QED  BY <1>1, <3>1, StepMarks
  <2> QED  BY <1>1, <1>11, <2>1, AbortSettles, AbandonSettles, StopSettles DEF Operator
<1> QED  BY <1>3, <1>4, <1>5, <1>6, <1>7, <1>8, <1>9, <1>10, <1>11 DEF Next

(* The scheduler, with its queues, holds, gate, retries and stops, does to  *)
(* wakes and turns what AgentTurns allows and nothing else.                 *)
THEOREM TurnsKeepTheirPromise == Spec => ImplementsAgentTurns
<1>1. CInv /\ Init => Turns!Init
  BY InitiallyPromised
<1>2. CInv /\ CInv' /\ [Next]_vars => [Turns!Next]_(Turns!vars)
  BY StepPromised
<1> QED  BY <1>1, <1>2, WakesAreKept, PTL DEF Spec, ImplementsAgentTurns, Turns!Spec
-----------------------------------------------------------------------------
(* What AgentTurns keeps, and so a scheduler that implements it.            *)

LEMMA TurnsTyped == Turns!Spec => []Turns!TypeOK
<1>1. Turns!Init => Turns!TypeOK
  BY DEF Turns!Init, Turns!TypeOK, Turns!Stage
<1>2. Turns!TypeOK /\ [Turns!Next]_(Turns!vars) => Turns!TypeOK'
  <2> SUFFICES ASSUME Turns!TypeOK, [Turns!Next]_(Turns!vars)
               PROVE  Turns!TypeOK'
    OBVIOUS
  <2> USE DEF Turns!TypeOK, Turns!Stage
  <2>1. ASSUME NEW w \in Wake, Turns!Arrive(w) PROVE Turns!TypeOK'
    BY <2>1 DEF Turns!Arrive, Turns!Move
  <2>2. ASSUME NEW a \in Agent, Turns!Begin(a) PROVE Turns!TypeOK'
    BY <2>2 DEF Turns!Begin
  <2>3. ASSUME NEW a \in Agent, Turns!GiveBack(a) PROVE Turns!TypeOK'
    BY <2>3 DEF Turns!GiveBack, Turns!Move
  <2>4. CASE Turns!Settle
    BY <2>4 DEF Turns!Settle, Turns!Move
  <2>5. CASE Turns!Mode
    BY <2>5 DEF Turns!Mode
  <2>6. CASE UNCHANGED Turns!vars
    BY <2>6 DEF Turns!vars
  <2> QED  BY <2>1, <2>2, <2>3, <2>4, <2>5, <2>6 DEF Turns!Next
<1> QED  BY <1>1, <1>2, PTL DEF Turns!Spec

LEMMA InTurnsHaveTurns == Turns!Spec => []Turns!InTurnIsAlive
<1>1. Turns!Init => Turns!InTurnIsAlive
  BY DEF Turns!Init, Turns!InTurnIsAlive, Turns!At
<1>2. Turns!TypeOK /\ Turns!InTurnIsAlive /\ [Turns!Next]_(Turns!vars) => Turns!InTurnIsAlive'
  <2> SUFFICES ASSUME Turns!TypeOK, Turns!InTurnIsAlive, [Turns!Next]_(Turns!vars)
               PROVE  Turns!InTurnIsAlive'
    OBVIOUS
  <2> USE DEF Turns!InTurnIsAlive, Turns!At
  <2>1. ASSUME NEW v \in Wake, Turns!Arrive(v) PROVE Turns!InTurnIsAlive'
    BY <2>1 DEF Turns!Arrive, Turns!Move
  <2>2. ASSUME NEW a \in Agent, Turns!Begin(a) PROVE Turns!InTurnIsAlive'
    BY <2>2 DEF Turns!Begin, Turns!OfAgent
  <2>3. ASSUME NEW a \in Agent, Turns!GiveBack(a) PROVE Turns!InTurnIsAlive'
    BY <2>3 DEF Turns!GiveBack, Turns!Move
  <2>4. CASE Turns!Settle
    BY <2>4 DEF Turns!Settle
  <2>5. CASE Turns!Mode
    BY <2>5 DEF Turns!Mode
  <2>6. CASE UNCHANGED Turns!vars
    BY <2>6 DEF Turns!vars
  <2> QED  BY <2>1, <2>2, <2>3, <2>4, <2>5, <2>6 DEF Turns!Next
<1> QED  BY <1>1, <1>2, TurnsTyped, PTL DEF Turns!Spec

(* A wake a turn has taken is of an agent that has a turn: no turn ends and *)
(* leaves a wake it took behind (turnHolders against the rows a turn reads).*)
THEOREM WakesInTurnsHaveTurns == Spec => []Turns!InTurnIsAlive
<1>1. Spec => Turns!Spec
  BY TurnsKeepTheirPromise DEF ImplementsAgentTurns
<1> QED  BY <1>1, InTurnsHaveTurns, PTL
=============================================================================
