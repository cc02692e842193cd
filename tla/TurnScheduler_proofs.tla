------------------------ MODULE TurnScheduler_proofs ------------------------
(***************************************************************************)
(* Proofs about TurnScheduler: type correctness; a quiesced host begins no *)
(* turn; an agent's turn is carried by one thing at a time, and the        *)
(* agent's gate counts its turns.                                          *)
(***************************************************************************)
EXTENDS TurnScheduler, FiniteSetTheorems, FunctionTheorems, TLAPS

-----------------------------------------------------------------------------
(* The operators on requests, gates and frames keep to their types.         *)

(* What the parts of typed requests read are wakes.                         *)
LEMMA ReadsType ==
    ASSUME NEW parts \in SUBSET Part
    PROVE  Reads(parts) \subseteq Wake
BY DEF Reads, Part

(* The parts of typed requests are parts.                                   *)
LEMMA PartsOfType ==
    ASSUME NEW R \in SUBSET Request
    PROVE  PartsOf(R) \subseteq Part
BY DEF PartsOf, Request

(* A merged start taken apart is requests again.                            *)
LEMMA SinglyType ==
    ASSUME NEW a \in Agent, NEW parts \in SUBSET Part
    PROVE  Singly(a, parts) \subseteq Request
BY DEF Singly, Request

(* A request of one part is a request.                                      *)
LEMMA Request1Type ==
    ASSUME NEW a \in Agent, NEW kind \in {"wake", "auto", "retry", "restart"},
           NEW reads \in SUBSET Wake, kind = "auto" => reads = {}
    PROVE  Request1(a, kind, reads) \in Request
BY DEF Request1, Request, Part

(* Withdrawing a wake leaves requests.                                      *)
LEMMA WithoutType ==
    ASSUME NEW w, NEW R \in SUBSET Request
    PROVE  Without(w, R) \subseteq Request
<1>1. ASSUME NEW r \in Request
      PROVE  [r EXCEPT !.parts = {p \in @ : ~IsWake(w, p)}] \in Request
  BY DEF Request
<1> QED  BY <1>1 DEF Without

(* What carries a typed frame on is a request.                              *)
LEMMA ContinuationType ==
    ASSUME NEW f \in Frame
    PROVE  Continuation(f) \in Request
<1>1. f.agent \in Agent /\ f.reads \in SUBSET Wake
  BY DEF Frame
<1> QED  BY <1>1, Request1Type DEF Continuation

(* Entering and leaving the gate, ending a recovery and releasing a hold    *)
(* keep a gate a gate.                                                      *)
LEMMA GateOperators ==
    ASSUME NEW g \in Gate
    PROVE  Acquire(g) \in Gate /\ Release(g) \in Gate /\ Ended(g) \in Gate
<1>1. g.depth \in Nat /\ g.depth + 1 \in Nat /\ (g.depth > 0 => g.depth - 1 \in Nat)
  BY DEF Gate
<1>2. Acquire(g) \in Gate
  BY <1>1 DEF Acquire, Gate
<1>3. Release(g) \in Gate
  <2>1. (IF g.depth > 0 THEN g.depth - 1 ELSE 0) \in Nat
    BY <1>1
  <2> QED  BY <2>1 DEF Release, Gate
<1>4. Ended(g) \in Gate
  BY DEF Ended, Gate
<1> QED  BY <1>2, <1>3, <1>4

LEMMA ReleasedGateType ==
    ASSUME TypeOK, NEW a \in Agent
    PROVE  ReleasedGate(a) \in Gate
<1>1. gate[a] \in Gate
  BY DEF TypeOK
<1> QED  BY <1>1 DEF ReleasedGate, Gate

(* Letting waiters in keeps every call in one of its places.                *)
AuxPlaces == [Aux -> {"idle", "waiting", "woken", "running"}]

LEMMA FlushType ==
    ASSUME TypeOK, NEW a, NEW g, NEW h, Flush(a, g, h)
    PROVE  aux' \in AuxPlaces
BY DEF TypeOK, AuxPlaces, Flush

LEMMA EndPendingPrimaryType ==
    ASSUME TypeOK, NEW a \in Agent, NEW g \in Gate, NEW h, NEW when,
           EndPendingPrimary(a, g, h, when)
    PROVE  gate' \in [Agent -> Gate] /\ aux' \in AuxPlaces
<1>1. CASE when /\ EndsPending(g)
  <2>1. gate' = [gate EXCEPT ![a] = Ended(g)] /\ Flush(a, Ended(g), h)
    BY <1>1 DEF EndPendingPrimary
  <2> QED  BY <2>1, GateOperators, FlushType DEF TypeOK
<1>2. CASE ~(when /\ EndsPending(g))
  BY <1>2 DEF EndPendingPrimary, TypeOK, AuxPlaces
<1> QED  BY <1>1, <1>2

(* What the pass takes for an agent, and what of it may start.              *)
LEMMA TakenType ==
    ASSUME TypeOK, NEW a \in Agent
    PROVE  /\ Unheld(a) \subseteq Part /\ Kept(a) \subseteq Part
           /\ Ready(a) \subseteq Kept(a)
<1>1. hold[a].held \subseteq Request /\ Of(a, pass) \subseteq Request
  BY DEF TypeOK, Hold, Of
<1>2. Unheld(a) \subseteq Part
  BY <1>1, PartsOfType DEF Unheld
<1>3. Kept(a) \subseteq Unheld(a)
  BY DEF Kept
<1>4. Ready(a) \subseteq Kept(a)
  BY DEF Ready, Passing
<1> QED  BY <1>2, <1>3, <1>4

(* A merged start is made of parts.                                         *)
LEMMA MergedType ==
    ASSUME NEW parts \in SUBSET Part
    PROVE  Merged(parts) \subseteq Part
<1>1. Reads(parts) \subseteq Wake
  BY ReadsType
<1> QED  BY <1>1 DEF Merged, Part

(* A new frame is a frame, under a token no frame has.                      *)
LEMMA NewFrameType ==
    ASSUME NEW a \in Agent, NEW parts \in SUBSET Part, NEW attempt \in 0..MaxAttempts,
           NEW inPass \in BOOLEAN, NEW parent \in Token \cup {NoToken}, FreeTokens # {}
    PROVE  NewFrame(a, parts, attempt, inPass, parent) \in Frame
<1>1. (CHOOSE t \in FreeTokens : TRUE) \in Token
  BY DEF FreeTokens
<1>2. Reads(parts) \subseteq Wake
  BY ReadsType
<1> QED  BY <1>1, <1>2 DEF NewFrame, Frame

(* A frame that ends hands back to the frame that started it.               *)
LEMMA ReturnToType ==
    ASSUME NEW f, NEW F \in SUBSET Frame
    PROVE  ReturnTo(f, F) \subseteq Frame
<1>1. ASSUME NEW g \in Frame
      PROVE  [g EXCEPT !.phase = "ending"] \in Frame
  BY DEF Frame
<1> QED  BY <1>1 DEF ReturnTo

-----------------------------------------------------------------------------
(* Type correctness, action by action.                                      *)

(* An arriving or a withdrawn wake.                                         *)
LEMMA ArrivalType ==
    ASSUME TypeOK, NEW w \in Wake, WakeArrives(w) \/ Withdraw(w)
    PROVE  TypeOK'
<1>1. CASE WakeArrives(w)
  <2>1. AgentOf[w] \in Agent
    BY SchedulerConstants
  <2>2. Request1(AgentOf[w], "wake", {w}) \in Request
    BY <2>1, Request1Type
  <2> QED  BY <1>1, <2>2 DEF WakeArrives, TypeOK, host
<1>2. CASE Withdraw(w)
  <2> DEFINE merged == {r \in parked : ContinuesTurn(r)} \cup {r \in pass : Cardinality(r.parts) > 1}
  <2>1. pending' \subseteq Request
    BY <1>2, WithoutType DEF Withdraw, TypeOK
  <2>2. parked' \subseteq Request
    <3>1. Without(w, parked \cap merged) \subseteq Request
      BY WithoutType DEF TypeOK
    <3>2. parked' = (parked \ merged) \cup Without(w, parked \cap merged)
      BY <1>2 DEF Withdraw
    <3> QED  BY <3>1, <3>2 DEF TypeOK
  <2>3. pass' \subseteq Request
    <3>1. Without(w, pass \cap merged) \subseteq Request
      BY WithoutType DEF TypeOK
    <3>2. pass' = (pass \ merged) \cup Without(w, pass \cap merged)
      BY <1>2 DEF Withdraw
    <3> QED  BY <3>1, <3>2 DEF TypeOK
  <2>4. hold' \in [Agent -> Hold]
    <3>1. ASSUME NEW a \in Agent
          PROVE  Without(w, hold[a].held) \subseteq Request /\ hold[a] \in Hold
      <4>1. hold[a] \in Hold /\ hold[a].held \subseteq Request
        BY DEF TypeOK, Hold
      <4> QED  BY <4>1, WithoutType
    <3>2. ASSUME NEW a \in Agent, NEW left \in SUBSET Request
          PROVE  [hold[a] EXCEPT !.held = left,
                    !.emptied = @ \/ (hold[a].held # {} /\ left = {})] \in Hold
      BY <3>1 DEF Hold
    <3> QED  BY <1>2, <3>1, <3>2 DEF Withdraw
  <2> QED  BY <1>2, <2>1, <2>2, <2>3, <2>4 DEF Withdraw, TypeOK, host
<1> QED  BY <1>1, <1>2

(* The pass begins, ends, and holds what it brings.                         *)
LEMMA PassType ==
    ASSUME TypeOK, NEW a \in Agent, PassBegins \/ PassEnds \/ PassHolds(a)
    PROVE  TypeOK'
<1>1. CASE PassBegins \/ PassEnds
  BY <1>1 DEF PassBegins, PassEnds, TypeOK, host, story
<1>2. CASE PassHolds(a)
  <2>1. hold[a] \in Hold /\ hold[a].held \cup Of(a, pass) \subseteq Request
    BY DEF TypeOK, Hold, Of
  <2>2. Adding(hold[a], Of(a, pass)) \in Hold
    BY <2>1 DEF Hold, Adding
  <2>3. hold' \in [Agent -> Hold]
    BY <1>2, <2>2 DEF PassHolds, TypeOK
  <2> QED  BY <1>2, <2>3 DEF PassHolds, TypeOK, host, story
<1> QED  BY <1>1, <1>2

(* A hold that keeps typed requests is a hold.                              *)
LEMMA HoldTypes ==
    /\ NoHold \in Hold
    /\ \A R \in SUBSET Request, k \in {"accel", "wait", "rearm"} :
         [NoHold EXCEPT !.kind = k, !.held = R] \in Hold
BY DEF NoHold, Hold

(* A recorded wait keeps the agent's requests.                              *)
LEMMA PassWaitsType ==
    ASSUME TypeOK, NEW a \in Agent, PassWaits(a)
    PROVE  TypeOK'
<1>1. Unheld(a) \subseteq Part
  BY TakenType
<1>2. Singly(a, Unheld(a)) \subseteq Request /\ Reads(Unheld(a)) \subseteq Wake
  BY <1>1, SinglyType, ReadsType
<1>3. hold' \in [Agent -> Hold]
  BY <1>2, HoldTypes DEF PassWaits, TypeOK
<1>4. gate' \in [Agent -> Gate]
  BY ReleasedGateType DEF PassWaits, TypeOK
<1>5. dropped' \subseteq Wake
  BY <1>2 DEF PassWaits, TypeOK
<1> QED  BY <1>3, <1>4, <1>5 DEF PassWaits, TypeOK, host

(* What every group taken leaves behind.                                    *)
LEMMA TakeGroupType ==
    ASSUME TypeOK, NEW a \in Agent, NEW back \in SUBSET Part, TakeGroup(a, back)
    PROVE  /\ pending' \subseteq Request /\ pass' \subseteq Request /\ passing' \in BOOLEAN
           /\ hold' \in [Agent -> Hold] /\ bound' \in [Agent -> BOOLEAN]
           /\ rearms' \in [Agent -> 0..MaxRearms]
           /\ quiesced' \in BOOLEAN /\ resuming' \in BOOLEAN /\ closed' \in BOOLEAN
           /\ awaited' \subseteq Aux /\ arrived' \subseteq Wake
<1>1. Singly(a, back) \subseteq Request
  BY SinglyType
<1>2. pending' \subseteq Request /\ pass' \subseteq Request
  BY <1>1 DEF TakeGroup, TypeOK
<1>3. hold' \in [Agent -> Hold]
  BY HoldTypes DEF TakeGroup, TypeOK
<1> QED  BY <1>2, <1>3 DEF TakeGroup, TypeOK, host

(* A group that starts nothing.                                             *)
LEMMA PassLeavesType ==
    ASSUME TypeOK, NEW a \in Agent,
           \/ PassParks(a) \/ PassRequeues(a) \/ PassReads(a) \/ PassDrops(a) \/ PassStopped(a)
    PROVE  TypeOK'
<1>1. Kept(a) \subseteq Part /\ Kept(a) \ Ready(a) \subseteq Part /\ Ready(a) \subseteq Part
  BY TakenType
<1>2. /\ Reads(Ready(a)) \subseteq Wake
      /\ Reads({p \in Ready(a) : Continues(p)}) \subseteq Wake
      /\ Reads({p \in Ready(a) : ~Continues(p)}) \subseteq Wake
  BY <1>1, ReadsType
<1>3. ReleasedGate(a) \in Gate
  BY ReleasedGateType
<1>4. CASE PassParks(a) \/ PassRequeues(a)
  <2>1. TakeGroup(a, Kept(a))
    BY <1>4 DEF PassParks, PassRequeues
  <2>2. gate' \in [Agent -> Gate]
    BY <1>3, <1>4 DEF PassParks, PassRequeues, TypeOK
  <2> QED  BY <1>1, <1>4, <2>1, <2>2, TakeGroupType DEF PassParks, PassRequeues, TypeOK
<1>5. CASE PassReads(a) \/ PassDrops(a)
  <2>1. TakeGroup(a, Kept(a) \ Ready(a))
    BY <1>5 DEF PassReads, PassDrops
  <2>2. gate' \in [Agent -> Gate] /\ aux' \in AuxPlaces
    BY <1>3, <1>5, EndPendingPrimaryType DEF PassReads, PassDrops
  <2>3. over' \subseteq Wake /\ dropped' \subseteq Wake
    BY <1>2, <1>5 DEF PassReads, PassDrops, TypeOK
  <2> QED  BY <1>1, <1>5, <2>1, <2>2, <2>3, TakeGroupType
           DEF PassReads, PassDrops, TypeOK, AuxPlaces
<1>6. CASE PassStopped(a)
  <2>1. TakeGroup(a, Kept(a) \ Ready(a))
    BY <1>6 DEF PassStopped
  <2>2. dropped' \subseteq Wake
    BY <1>2, <1>6 DEF PassStopped, TypeOK
  <2> QED  BY <1>1, <1>6, <2>1, <2>2, TakeGroupType DEF PassStopped, TypeOK
<1> QED  BY <1>4, <1>5, <1>6

(* A group that starts a turn.                                              *)
LEMMA PassStartsType ==
    ASSUME TypeOK, NEW a \in Agent, PassStarts(a)
    PROVE  TypeOK'
<1>1. PICK read \in SUBSET {p \in Ready(a) : p.kind = "wake"} :
        LET parts == Merged(Ready(a) \ read) IN
        /\ TakeGroup(a, Kept(a) \ Ready(a))
        /\ dropped' = dropped \cup Reads(read)
        /\ gate' = [gate EXCEPT ![a] = Acquire(ReleasedGate(a))]
        /\ IF AuxRunning(a)
           THEN /\ parked' = parked \cup {[agent |-> a, parts |-> parts]}
                /\ UNCHANGED <<frames, token>>
           ELSE LET new == NewFrame(a, parts, 0, TRUE, NoToken)
                IN  /\ FreeTokens # {}
                    /\ frames' = frames \cup {new}
                    /\ token' = [token EXCEPT ![a] = new.tok]
                    /\ UNCHANGED parked
        /\ UNCHANGED <<aux, over>>
  BY DEF PassStarts
<1> DEFINE parts == Merged(Ready(a) \ read)
           new == NewFrame(a, parts, 0, TRUE, NoToken)
<1>2. Ready(a) \ read \subseteq Part /\ read \subseteq Part /\ Kept(a) \ Ready(a) \subseteq Part
  BY TakenType
<1>3. parts \subseteq Part /\ Reads(read) \subseteq Wake
  BY <1>2, MergedType, ReadsType
<1>4. gate' \in [Agent -> Gate]
  BY <1>1, ReleasedGateType, GateOperators DEF TypeOK
<1>5. parked' \subseteq Request /\ frames' \subseteq Frame /\ token' \in [Agent -> Token \cup {NoToken}]
  <2>1. CASE AuxRunning(a)
    BY <1>1, <1>3, <2>1 DEF Request, TypeOK
  <2>2. CASE ~AuxRunning(a)
    <3>1. FreeTokens # {} /\ frames' = frames \cup {new} /\ token' = [token EXCEPT ![a] = new.tok]
          /\ parked' = parked
      BY <1>1, <2>2
    <3>2. 0 \in 0..MaxAttempts
      BY SchedulerConstants
    <3>3. new \in Frame
      BY <1>3, <3>1, <3>2, NewFrameType
    <3>4. new.tok \in Token
      BY <3>3 DEF Frame
    <3> QED  BY <3>1, <3>3, <3>4 DEF TypeOK
  <2> QED  BY <2>1, <2>2
<1> QED  BY <1>1, <1>2, <1>3, <1>4, <1>5, TakeGroupType DEF TypeOK

(* A parked start goes back or on.                                          *)
LEMMA UnparkType ==
    ASSUME TypeOK, NEW r \in parked, UnparkGivesBack(r) \/ UnparkStarts(r)
    PROVE  TypeOK'
<1> DEFINE a == r.agent
<1>1. r \in Request /\ a \in Agent /\ r.parts \subseteq Part
  BY DEF TypeOK, Request
<1>2. Reads(r.parts) \subseteq Wake /\ Singly(a, r.parts) \subseteq Request
  BY <1>1, ReadsType, SinglyType
<1>3. Release(gate[a]) \in Gate
  BY <1>1, GateOperators DEF TypeOK
<1>4. CASE UnparkGivesBack(r)
  <2>1. aux' \in AuxPlaces
    BY <1>4, FlushType DEF UnparkGivesBack
  <2>2. gate' \in [Agent -> Gate]
    BY <1>1, <1>3, <1>4 DEF UnparkGivesBack, TypeOK
  <2>3. pending' \subseteq Request /\ dropped' \subseteq Wake
    BY <1>1, <1>2, <1>4 DEF UnparkGivesBack, TypeOK
  <2> QED  BY <1>4, <2>1, <2>2, <2>3 DEF UnparkGivesBack, TypeOK, AuxPlaces, host
<1>5. CASE UnparkStarts(r)
  <2>1. CASE bound[a]
    <3>1. aux' \in AuxPlaces
      BY <1>5, <2>1, FlushType DEF UnparkStarts
    <3>2. hold' \in [Agent -> Hold] /\ gate' \in [Agent -> Gate]
      <4>1. [NoHold EXCEPT !.kind = "wait", !.held = {r}] \in Hold
        BY <1>1, HoldTypes
      <4>2. /\ hold' = [hold EXCEPT ![a] = [NoHold EXCEPT !.kind = "wait", !.held = {r}]]
            /\ gate' = [gate EXCEPT ![a] = Release(gate[a])]
        BY <1>5, <2>1 DEF UnparkStarts
      <4> QED  BY <1>3, <4>1, <4>2 DEF TypeOK
    <3> QED  BY <1>5, <2>1, <3>1, <3>2 DEF UnparkStarts, TypeOK, AuxPlaces, host, story
  <2>2. CASE ~bound[a]
    <3> DEFINE new == NewFrame(a, r.parts, 0, FALSE, NoToken)
    <3>1. FreeTokens # {} /\ frames' = frames \cup {new} /\ token' = [token EXCEPT ![a] = new.tok]
      BY <1>5, <2>2 DEF UnparkStarts
    <3>2. 0 \in 0..MaxAttempts
      BY SchedulerConstants
    <3>3. new \in Frame
      BY <1>1, <3>1, <3>2, NewFrameType
    <3>4. new.tok \in Token
      BY <3>3 DEF Frame
    <3> QED  BY <1>5, <2>2, <3>1, <3>3, <3>4 DEF UnparkStarts, TypeOK, host, story
  <2> QED  BY <2>1, <2>2
<1> QED  BY <1>4, <1>5

-----------------------------------------------------------------------------
(* Frames.                                                                  *)

(* A typed frame may take the place of another.                             *)
LEMMA BecomeType ==
    ASSUME TypeOK, NEW f, NEW g \in Frame, Become(f, g)
    PROVE  frames' \subseteq Frame
BY DEF Become, TypeOK

(* The changes of a frame on its way keep it a frame.                       *)
LEMMA FrameChanges ==
    ASSUME NEW f \in Frame
    PROVE  /\ [f EXCEPT !.phase = "ending"] \in Frame
           /\ [f EXCEPT !.phase = "backoff"] \in Frame
           /\ [f EXCEPT !.phase = "handing", !.reads = {}] \in Frame
           /\ [f EXCEPT !.phase = "streaming", !.inPass = FALSE, !.parent = NoToken] \in Frame
           /\ [f EXCEPT !.stop = "shutdown"] \in Frame
           /\ [f EXCEPT !.stop = "caller"] \in Frame
           /\ [f EXCEPT !.stop = "abandon"] \in Frame
           /\ [f EXCEPT !.stop = "budget_restart", !.reads = {}] \in Frame
           /\ [f EXCEPT !.stop = "turn_ended", !.reads = {}] \in Frame
           /\ f.attempt < MaxAttempts =>
                [f EXCEPT !.phase = "backoff", !.attempt = @ + 1] \in Frame
<1>1. f.attempt < MaxAttempts => f.attempt + 1 \in 0..MaxAttempts
  BY SchedulerConstants DEF Frame
<1> QED  BY <1>1 DEF Frame

(* The hold of a provider wait keeps requests.                              *)
LEMMA HoldForWaitType ==
    ASSUME TypeOK, NEW a \in Agent, NEW R \in SUBSET Request, HoldForWait(a, R)
    PROVE  hold' \in [Agent -> Hold]
<1>1. hold[a] \in Hold /\ hold[a].held \cup R \subseteq Request
  BY DEF TypeOK, Hold
<1>2. Adding(hold[a], R) \in Hold
  BY <1>1 DEF Hold, Adding
<1>3. [NoHold EXCEPT !.kind = "wait", !.held = hold[a].held \cup R] \in Hold
  BY <1>1, HoldTypes
<1>4. hold' = [hold EXCEPT ![a] =
                IF hold[a].kind \in {"accel", "rearm"} THEN Adding(hold[a], R)
                ELSE [NoHold EXCEPT !.kind = "wait", !.held = hold[a].held \cup R]]
  BY DEF HoldForWait
<1>5. CASE hold[a].kind \in {"accel", "rearm"}
  BY <1>2, <1>4, <1>5 DEF TypeOK
<1>6. CASE hold[a].kind \notin {"accel", "rearm"}
  BY <1>3, <1>4, <1>6 DEF TypeOK
<1> QED  BY <1>5, <1>6

(* A start goes on, stops, is withdrawn or held.                            *)
LEMMA BeginType ==
    ASSUME TypeOK, NEW f \in frames,
           BeginStreams(f) \/ BeginStopped(f) \/ BeginWithdrawn(f) \/ BeginHeld(f)
    PROVE  TypeOK'
<1>1. f \in Frame /\ f.agent \in Agent /\ f.reads \subseteq Wake /\ Continuation(f) \in Request
  BY ContinuationType DEF TypeOK, Frame
<1>2. CASE BeginStreams(f)
  <2>1. frames' \subseteq Frame
    <3>1. ReturnTo(f, frames \ {f}) \subseteq Frame
      BY ReturnToType DEF TypeOK
    <3> QED  BY <1>1, <1>2, <3>1, FrameChanges DEF BeginStreams
  <2> QED  BY <1>2, <2>1 DEF BeginStreams, QueueSame, TypeOK, work, host
<1>3. CASE BeginStopped(f)
  <2>1. frames' \subseteq Frame
    BY <1>1, <1>3, BecomeType, FrameChanges DEF BeginStopped
  <2> QED  BY <1>1, <1>3, <2>1 DEF BeginStopped, QueueSame, TypeOK, work, host
<1>4. CASE BeginWithdrawn(f)
  <2>1. frames' \subseteq Frame
    BY <1>1, <1>4, BecomeType, FrameChanges DEF BeginWithdrawn
  <2> QED  BY <1>1, <1>4, <2>1 DEF BeginWithdrawn, QueueSame, TypeOK, work, host
<1>5. CASE BeginHeld(f)
  <2>1. frames' \subseteq Frame
    BY <1>1, <1>5, BecomeType, FrameChanges DEF BeginHeld
  <2>2. hold' \in [Agent -> Hold]
    BY <1>1, <1>5, HoldForWaitType DEF BeginHeld
  <2> QED  BY <1>5, <2>1, <2>2 DEF BeginHeld, QueueSame, TypeOK, work, host
<1> QED  BY <1>2, <1>3, <1>4, <1>5

(* A failure that may state a wait.                                         *)
LEMMA MayBindType ==
    ASSUME TypeOK, NEW a \in Agent, MayBind(a)
    PROVE  bound' \in [Agent -> BOOLEAN]
BY DEF MayBind, TypeOK

(* A call that failed into a hold or a wait.                                *)
LEMMA FailsHeldType ==
    ASSUME TypeOK, NEW f \in frames, FailsIntoHold(f) \/ FailsIntoWait(f)
    PROVE  TypeOK'
<1>1. f \in Frame /\ f.agent \in Agent /\ Continuation(f) \in Request
  BY ContinuationType DEF TypeOK, Frame
<1>2. CASE FailsIntoHold(f)
  <2> DEFINE a == f.agent
  <2>1. frames' \subseteq Frame
    BY <1>1, <1>2, BecomeType, FrameChanges DEF FailsIntoHold
  <2>2. hold' \in [Agent -> Hold]
    <3>1. hold[a].held \cup {Continuation(f)} \subseteq Request
      BY <1>1 DEF TypeOK, Hold
    <3>2. [kind |-> "accel", held |-> hold[a].held \cup {Continuation(f)}, aux |-> FALSE,
           emptied |-> FALSE] \in Hold
      BY <3>1 DEF Hold
    <3>3. hold' = [hold EXCEPT ![a] = [kind |-> "accel", held |-> hold[a].held \cup {Continuation(f)},
                                       aux |-> FALSE, emptied |-> FALSE]]
      BY <1>2 DEF FailsIntoHold
    <3> HIDE DEF a
    <3> QED  BY <3>2, <3>3 DEF TypeOK
  <2>3. gate' \in [Agent -> Gate]
    <3> DEFINE shut == [gate EXCEPT ![a].pending = TRUE, ![a].recovery = "held"]
    <3>1. gate \in [Agent -> Gate] /\ gate[a] \in Gate
      BY <1>1 DEF TypeOK
    <3>2. [gate[a] EXCEPT !.pending = TRUE, !.recovery = "held"] \in Gate
      BY <3>1 DEF Gate
    <3>3. shut = [gate EXCEPT ![a] = [gate[a] EXCEPT !.pending = TRUE, !.recovery = "held"]]
      OBVIOUS
    <3>4. shut \in [Agent -> Gate]
      BY <3>1, <3>2, <3>3
    <3>5. gate' = shut
      BY <1>2 DEF FailsIntoHold
    <3> HIDE DEF shut
    <3> QED  BY <3>4, <3>5
  <2>4. bound' \in [Agent -> BOOLEAN]
    BY <1>1, <1>2, MayBindType DEF FailsIntoHold
  <2> QED  BY <1>2, <2>1, <2>2, <2>3, <2>4 DEF FailsIntoHold, TypeOK, work, host, story
<1>3. CASE FailsIntoWait(f)
  <2>1. frames' \subseteq Frame
    BY <1>1, <1>3, BecomeType, FrameChanges DEF FailsIntoWait
  <2>2. hold' \in [Agent -> Hold]
    BY <1>1, <1>3, HoldForWaitType DEF FailsIntoWait
  <2>3. bound' \in [Agent -> BOOLEAN]
    BY <1>1, <1>3 DEF FailsIntoWait, TypeOK
  <2> QED  BY <1>3, <2>1, <2>2, <2>3 DEF FailsIntoWait, TypeOK, work, host, story
<1> QED  BY <1>2, <1>3

(* A call that failed for good, or into a retry.                            *)
LEMMA FailsType ==
    ASSUME TypeOK, NEW f \in frames,
           FailsIntoRetry(f) \/ GuardRetries(f) \/ FailsExhausted(f)
    PROVE  TypeOK'
<1>1. f \in Frame /\ f.agent \in Agent /\ f.reads \subseteq Wake
  BY DEF TypeOK, Frame
<1>2. CASE FailsIntoRetry(f)
  <2>1. frames' \subseteq Frame
    BY <1>1, <1>2, BecomeType, FrameChanges DEF FailsIntoRetry
  <2> QED  BY <1>2, <2>1 DEF FailsIntoRetry, QueueSame, TypeOK, work, host
<1>3. CASE GuardRetries(f)
  <2>1. frames' \subseteq Frame
    BY <1>1, <1>3, BecomeType, FrameChanges DEF GuardRetries
  <2> QED  BY <1>3, <2>1 DEF GuardRetries, QueueSame, TypeOK, work, host
<1>4. CASE FailsExhausted(f)
  <2> DEFINE a == f.agent
             again == Request1(a, "wake", f.reads)
  <2>1. frames' \subseteq Frame
    BY <1>1, <1>4, BecomeType, FrameChanges DEF FailsExhausted
  <2>2. again \in Request
    BY <1>1, Request1Type
  <2>3. hold' \in [Agent -> Hold] /\ rearms' \in [Agent -> 0..MaxRearms] /\ over' \subseteq Wake
    <3>1. CASE over' = over \cup f.reads /\ UNCHANGED <<hold, rearms>>
      BY <1>1, <3>1 DEF TypeOK
    <3>2. CASE /\ rearms[a] < MaxRearms
               /\ rearms' = [rearms EXCEPT ![a] = @ + 1]
               /\ hold' = [hold EXCEPT ![a] =
                    IF hold[a].kind # "none" THEN Adding(hold[a], {again})
                    ELSE [NoHold EXCEPT !.kind = "rearm", !.held = {again}]]
               /\ UNCHANGED over
      <4>1. hold[a] \in Hold /\ hold[a].held \cup {again} \subseteq Request
        BY <1>1, <2>2 DEF TypeOK, Hold
      <4>2. Adding(hold[a], {again}) \in Hold
        BY <4>1 DEF Hold, Adding
      <4>3. [NoHold EXCEPT !.kind = "rearm", !.held = {again}] \in Hold
        BY <2>2, HoldTypes
      <4>4. rearms[a] + 1 \in 0..MaxRearms
        BY <1>1, <3>2, SchedulerConstants DEF TypeOK
      <4>5. hold' \in [Agent -> Hold]
        BY <3>2, <4>2, <4>3 DEF TypeOK
      <4>6. rearms' \in [Agent -> 0..MaxRearms]
        BY <3>2, <4>4 DEF TypeOK
      <4> QED  BY <3>2, <4>5, <4>6 DEF TypeOK
    <3> QED  BY <1>4, <3>1, <3>2 DEF FailsExhausted
  <2> QED  BY <1>4, <2>1, <2>3 DEF FailsExhausted, TypeOK, work, host
<1> QED  BY <1>2, <1>3, <1>4

(* A retry starts from its old frame.                                       *)
LEMMA RetryStartsType ==
    ASSUME TypeOK, NEW f \in frames, RetryStarts(f)
    PROVE  TypeOK'
<1> DEFINE a == f.agent
<1>1. f \in Frame /\ a \in Agent /\ f.reads \subseteq Wake /\ Continuation(f) \in Request
  BY ContinuationType DEF TypeOK, Frame
<1>2. gate[a] \in Gate /\ Acquire(gate[a]) \in Gate
  BY <1>1, GateOperators DEF TypeOK
<1>3. CASE AuxRunning(a)
  <2>1. frames' \subseteq Frame
    BY <1>1, <1>3, BecomeType, FrameChanges DEF RetryStarts
  <2>2. parked' \subseteq Request /\ gate' \in [Agent -> Gate]
    BY <1>1, <1>2, <1>3 DEF RetryStarts, TypeOK
  <2> QED  BY <1>3, <2>1, <2>2 DEF RetryStarts, TypeOK, work, host, story
<1>4. CASE ~AuxRunning(a) /\ bound[a]
  <2>1. frames' \subseteq Frame
    BY <1>1, <1>4, BecomeType, FrameChanges DEF RetryStarts
  <2>2. hold' \in [Agent -> Hold]
    BY <1>1, <1>4, HoldForWaitType DEF RetryStarts
  <2>3. gate' \in [Agent -> Gate]
    <3>1. [gate EXCEPT ![a].pending = FALSE] \in [Agent -> Gate]
      BY <1>1 DEF TypeOK, Gate
    <3> QED  BY <1>4, <3>1 DEF RetryStarts
  <2> QED  BY <1>4, <2>1, <2>2, <2>3 DEF RetryStarts, TypeOK, work, host, story
<1>5. CASE ~AuxRunning(a) /\ ~bound[a]
  <2> DEFINE kind == IF f.restart THEN "restart" ELSE "retry"
             new == NewFrame(a, {[kind |-> kind, reads |-> f.reads]}, f.attempt, f.inPass, f.tok)
  <2>1. /\ FreeTokens # {}
        /\ frames' = (frames \ {f}) \cup {[f EXCEPT !.phase = "handing", !.reads = {}], new}
        /\ token' = [token EXCEPT ![a] = new.tok]
        /\ gate' = [gate EXCEPT ![a] = Acquire(gate[a])]
        /\ UNCHANGED <<hold, parked>>
    BY <1>5 DEF RetryStarts
  <2>2. /\ {[kind |-> kind, reads |-> f.reads]} \subseteq Part
        /\ f.attempt \in 0..MaxAttempts /\ f.inPass \in BOOLEAN /\ f.tok \in Token
    BY <1>1 DEF Part, Frame
  <2>3. new \in Frame
    BY <1>1, <2>1, <2>2, NewFrameType
  <2>4. new.tok \in Token
    BY <2>3 DEF Frame
  <2>5. frames' \subseteq Frame
    BY <1>1, <2>1, <2>3, FrameChanges DEF TypeOK
  <2>6. token' \in [Agent -> Token \cup {NoToken}] /\ gate' \in [Agent -> Gate]
    BY <1>2, <2>1, <2>4 DEF TypeOK
  <2>7. UNCHANGED <<work, aux, bound, rearms, host, story, hold, parked>>
    BY <2>1 DEF RetryStarts
  <2> QED  BY <2>5, <2>6, <2>7 DEF TypeOK, work, host, story
<1> QED  BY <1>3, <1>4, <1>5

(* The stream's ends.                                                       *)
LEMMA StreamType ==
    ASSUME TypeOK, NEW f \in frames,
           Completes(f) \/ BudgetRestarts(f) \/ EndsTurn(f) \/ Aborted(f) \/ Leaves(f)
    PROVE  TypeOK'
<1> DEFINE a == f.agent
<1>1. f \in Frame /\ a \in Agent /\ f.reads \subseteq Wake /\ f.tok \in Token
  BY DEF TypeOK, Frame
<1>2. gate[a] \in Gate /\ Release(gate[a]) \in Gate
  BY <1>1, GateOperators DEF TypeOK
<1>3. CASE Completes(f)
  <2>1. frames' \subseteq Frame
    BY <1>1, <1>3, BecomeType, FrameChanges DEF Completes
  <2>2. pending' \subseteq Request
    <3>1. Request1(a, "auto", {}) \in Request
      BY <1>1, Request1Type
    <3> QED  BY <1>3, <3>1 DEF Completes, TypeOK
  <2>3. gate' \in [Agent -> Gate]
    BY <1>2, <1>3 DEF Completes, TypeOK, Gate
  <2>4. rearms' \in [Agent -> 0..MaxRearms]
    <3>1. 0 \in 0..MaxRearms
      BY SchedulerConstants
    <3> QED  BY <1>3, <3>1 DEF Completes, TypeOK
  <2> QED  BY <1>1, <1>3, <2>1, <2>2, <2>3, <2>4 DEF Completes, TypeOK, host
<1>4. CASE BudgetRestarts(f)
  <2>1. frames' \subseteq Frame
    BY <1>1, <1>4, BecomeType, FrameChanges DEF BudgetRestarts
  <2>2. pending' \subseteq Request
    <3>1. Request1(a, "restart", f.reads) \in Request
      BY <1>1, Request1Type
    <3> QED  BY <1>4, <3>1 DEF BudgetRestarts, TypeOK
  <2> QED  BY <1>4, <2>1, <2>2 DEF BudgetRestarts, TypeOK, host, story
<1>5. CASE EndsTurn(f) \/ Aborted(f)
  <2>1. frames' \subseteq Frame
    BY <1>1, <1>5, BecomeType, FrameChanges DEF EndsTurn, Aborted
  <2> QED  BY <1>1, <1>5, <2>1 DEF EndsTurn, Aborted, QueueSame, TypeOK, work, host
<1>6. CASE Leaves(f)
  <2>1. frames' \subseteq Frame
    BY <1>6, ReturnToType DEF Leaves, TypeOK
  <2>2. gate' \in [Agent -> Gate] /\ aux' \in AuxPlaces
    BY <1>2, <1>6, FlushType DEF Leaves, TypeOK
  <2>3. token' \in [Agent -> Token \cup {NoToken}]
    BY <1>6 DEF Leaves, TokenCleared, TypeOK
  <2> QED  BY <1>6, <2>1, <2>2, <2>3 DEF Leaves, QueueSame, TypeOK, AuxPlaces, work, host
<1> QED  BY <1>3, <1>4, <1>5, <1>6

-----------------------------------------------------------------------------
(* Auxiliary calls, waits and holds.                                        *)

LEMMA AuxType ==
    ASSUME TypeOK, NEW x \in Aux, AuxStep(x)
    PROVE  TypeOK'
<1>1. AuxAgent[x] \in Agent
  BY SchedulerConstants
<1>2. CASE AuxCalls(x)
  BY <1>2 DEF AuxCalls, AuxSame, TypeOK, work, story
<1>3. CASE AuxWoken(x)
  BY <1>3 DEF AuxWoken, AuxOver, AuxSame, TypeOK, work, story
<1>4. CASE AuxEnds(x)
  BY <1>4 DEF AuxEnds, AuxOver, AuxSame, TypeOK, work, story
<1>5. CASE AuxFails(x)
  <2> DEFINE a == AuxAgent[x]
             first == hold[a].kind = "none"
             kept == [kind |-> "accel", held |-> hold[a].held, aux |-> first \/ hold[a].aux,
                      emptied |-> hold[a].emptied /\ hold[a].held = {}]
  <2>1. bound' \in [Agent -> BOOLEAN]
    BY <1>1, <1>5, MayBindType DEF AuxFails
  <2>2. kept \in Hold
    <3>1. hold[a] \in Hold
      BY <1>1 DEF TypeOK
    <3>2. (first \/ hold[a].aux) \in BOOLEAN /\ (hold[a].emptied /\ hold[a].held = {}) \in BOOLEAN
      BY <3>1 DEF Hold
    <3> QED  BY <3>1, <3>2 DEF Hold
  <2>3. hold' \in [Agent -> Hold]
    BY <1>5, <2>2 DEF AuxFails, TypeOK
  <2>4. gate' \in [Agent -> Gate]
    <3> DEFINE shut == [gate EXCEPT ![a].pending = TRUE, ![a].recovery = "held"]
    <3>1. gate \in [Agent -> Gate] /\ gate[a] \in Gate
      BY <1>1 DEF TypeOK
    <3>2. [gate[a] EXCEPT !.pending = TRUE, !.recovery = "held"] \in Gate
      BY <3>1 DEF Gate
    <3>3. shut = [gate EXCEPT ![a] = [gate[a] EXCEPT !.pending = TRUE, !.recovery = "held"]]
      OBVIOUS
    <3>4. shut \in [Agent -> Gate]
      BY <3>1, <3>2, <3>3
    <3>5. gate' = gate \/ gate' = shut
      BY <1>5 DEF AuxFails
    <3> HIDE DEF shut
    <3> QED  BY <3>1, <3>4, <3>5
  <2>5. aux' \in AuxPlaces /\ awaited' \subseteq Aux
    BY <1>5 DEF AuxFails, AuxOver, AuxPlaces, TypeOK
  <2> QED  BY <1>5, <2>1, <2>3, <2>4, <2>5 DEF AuxFails, AuxSame, AuxPlaces, TypeOK, work, story
<1> QED  BY <1>2, <1>3, <1>4, <1>5 DEF AuxStep

LEMMA HoldEndsType ==
    ASSUME TypeOK, NEW a \in Agent, WaitEnds(a) \/ HoldExpires(a)
    PROVE  TypeOK'
<1>1. CASE WaitEnds(a)
  BY <1>1 DEF WaitEnds, TypeOK, work, host, story
<1>2. CASE HoldExpires(a)
  <2>1. hold' \in [Agent -> Hold]
    BY <1>2, HoldTypes DEF HoldExpires, TypeOK
  <2>2. gate[a] \in Gate /\ Ended(gate[a]) \in Gate /\ ReleasedGate(a) \in Gate
    BY GateOperators, ReleasedGateType DEF TypeOK
  <2>3. gate' \in [Agent -> Gate]
    BY <1>2, <2>2 DEF HoldExpires, TypeOK
  <2>4. aux' \in AuxPlaces
    BY <1>2, FlushType DEF HoldExpires, TypeOK, AuxPlaces
  <2>5. pending' \subseteq Request
    <3>1. hold[a].held \subseteq Request
      BY DEF TypeOK, Hold
    <3>2. Request1(a, "wake", {}) \in Request
      BY Request1Type
    <3>3. GivenBack(a) \subseteq Request
      BY <3>1, <3>2 DEF GivenBack
    <3> QED  BY <1>2, <3>3 DEF HoldExpires, TypeOK
  <2> QED  BY <1>2, <2>1, <2>3, <2>4, <2>5 DEF HoldExpires, TypeOK, AuxPlaces, host, story
<1> QED  BY <1>1, <1>2

-----------------------------------------------------------------------------
(* Stops.                                                                   *)

LEMMA DropContinuationsType ==
    ASSUME TypeOK, NEW S \in SUBSET Agent, NEW putsBack \in BOOLEAN, DropContinuations(S, putsBack)
    PROVE  /\ pending' \subseteq Request /\ pass' \subseteq Request /\ parked' \subseteq Request
           /\ hold' \in [Agent -> Hold] /\ gate' \in [Agent -> Gate] /\ aux' \in AuxPlaces
           /\ over' \subseteq Wake /\ dropped' \subseteq Wake
<1> DEFINE gone(R) == {r \in R : r.agent \in S /\ ContinuesTurn(r)}
           wakesOf(r) == {p \in r.parts : ~Continues(p)}
           all == gone(pending \cup pass \cup parked \cup UNION {hold[a].held : a \in Agent})
           back == IF putsBack THEN UNION {Singly(r.agent, wakesOf(r)) : r \in all} ELSE {}
           left(a) == hold[a].held \ gone(hold[a].held)
           released(a) == IF gone(Of(a, parked)) # {} THEN Release(gate[a]) ELSE gate[a]
           ends(a) == /\ Of(a, all) # {}
                      /\ Of(a, (pending \ all) \cup back) = {} /\ left(a) = {}
                      /\ EndsPending(released(a))
           after(a) == IF ends(a) THEN Ended(released(a)) ELSE released(a)
<1>1. \A a \in Agent : hold[a] \in Hold /\ hold[a].held \subseteq Request /\ gate[a] \in Gate
  BY DEF TypeOK, Hold
<1>2. all \subseteq Request
  BY <1>1 DEF TypeOK
<1>3. back \subseteq Request
  <2>1. ASSUME NEW r \in all
        PROVE  Singly(r.agent, wakesOf(r)) \subseteq Request
    <3>1. r.agent \in Agent /\ wakesOf(r) \in SUBSET Part
      BY <1>2 DEF Request
    <3> QED  BY <3>1, SinglyType
  <2> QED  BY <2>1
<1>4. pending' \subseteq Request /\ pass' \subseteq Request /\ parked' \subseteq Request
  <2>1. pending' = (pending \ all) \cup back /\ pass' = pass \ all /\ parked' = parked \ all
    BY DEF DropContinuations
  <2> HIDE DEF all, back
  <2> QED  BY <1>3, <2>1 DEF TypeOK
<1>5. hold' \in [Agent -> Hold]
  <2>1. hold' = [a \in Agent |-> [hold[a] EXCEPT !.held = left(a),
                   !.emptied = @ \/ (hold[a].held # {} /\ left(a) = {})]]
    BY DEF DropContinuations
  <2>2. \A a \in Agent : left(a) \in SUBSET Request
    BY <1>1
  <2>3. ASSUME NEW a \in Agent, NEW L \in SUBSET Request
        PROVE  [hold[a] EXCEPT !.held = L, !.emptied = @ \/ (hold[a].held # {} /\ L = {})] \in Hold
    BY <1>1 DEF Hold
  <2> HIDE DEF left
  <2> QED  BY <2>1, <2>2, <2>3
<1>6. gate' \in [Agent -> Gate]
  <2>1. gate' = [a \in Agent |-> after(a)]
    BY DEF DropContinuations
  <2>2. \A a \in Agent : released(a) \in Gate
    BY <1>1, GateOperators
  <2> HIDE DEF released
  <2>3. \A a \in Agent : after(a) \in Gate
    BY <2>2, GateOperators
  <2> HIDE DEF after
  <2> QED  BY <2>1, <2>3
<1>7. aux' \in AuxPlaces
  <2>1. PICK wakes : aux' = [x \in Aux |-> IF wakes[x] /\ aux[x] = "waiting" THEN "woken" ELSE aux[x]]
    <3>1. aux' = [x \in Aux |->
                    LET a == AuxAgent[x] IN
                    IF /\ gone(Of(a, parked)) # {} \/ ends(a)
                       /\ aux[x] = "waiting" /\ ~Blocked(after(a), hold'[a])
                    THEN "woken" ELSE aux[x]]
      BY DEF DropContinuations
    <3> DEFINE w == [x \in Aux |-> (gone(Of(AuxAgent[x], parked)) # {} \/ ends(AuxAgent[x]))
                                   /\ ~Blocked(after(AuxAgent[x]), hold'[AuxAgent[x]])]
    <3>2. aux' = [x \in Aux |-> IF w[x] /\ aux[x] = "waiting" THEN "woken" ELSE aux[x]]
      BY <3>1
    <3> QED  BY <3>2
  <2> QED  BY <2>1 DEF TypeOK, AuxPlaces
<1>8. over' \subseteq Wake /\ dropped' \subseteq Wake
  <2>1. PartsOf(all) \subseteq Part
    BY <1>2, PartsOfType
  <2>2. /\ Reads({p \in PartsOf(all) : Continues(p)}) \subseteq Wake
        /\ Reads({p \in PartsOf(all) : ~Continues(p)}) \subseteq Wake
    BY <2>1, ReadsType
  <2>3. /\ over' = over \cup Reads({p \in PartsOf(all) : Continues(p)})
        /\ dropped' = IF putsBack THEN dropped
                      ELSE dropped \cup Reads({p \in PartsOf(all) : ~Continues(p)})
    BY DEF DropContinuations
  <2> HIDE DEF all
  <2> QED  BY <2>2, <2>3 DEF TypeOK
<1> QED  BY <1>4, <1>5, <1>6, <1>7, <1>8

LEMMA OperatorType ==
    ASSUME TypeOK, Operator
    PROVE  TypeOK'
<1>1. CASE Quiesce \/ ResumeBegins \/ ResumeEnds
  BY <1>1 DEF Quiesce, ResumeBegins, ResumeEnds, TypeOK, work, story
<1>2. ASSUME NEW a \in Agent, Abort(a)
      PROVE  TypeOK'
  <2>1. CASE UNCHANGED frames
    <3>1. CASE DropContinuations({a}, TRUE)
      BY <1>2, <2>1, <3>1, DropContinuationsType DEF Abort, TypeOK, AuxPlaces, host
    <3>2. CASE ~DropContinuations({a}, TRUE)
      BY <1>2, <2>1, <3>2 DEF Abort, TypeOK, host
    <3> QED  BY <3>1, <3>2
  <2>2. CASE ~UNCHANGED frames
    <3>1. PICK f \in Abortable(a) :
            /\ Become(f, [f EXCEPT !.stop = "caller"])
            /\ UNCHANGED <<pending, pass, parked, hold, gate, aux, over, dropped>>
      BY <1>2, <2>2 DEF Abort
    <3>2. f \in Frame
      BY DEF Abortable, TypeOK
    <3>3. frames' \subseteq Frame
      BY <3>1, <3>2, BecomeType, FrameChanges
    <3> QED  BY <1>2, <3>1, <3>3 DEF Abort, TypeOK, host
  <2> QED  BY <2>1, <2>2
<1>3. CASE Abandon
  <2>1. {r.agent : r \in OnTheirWay({})} \subseteq Agent
    <3>1. OnTheirWay({}) \subseteq Request
      BY DEF OnTheirWay, TypeOK, Hold
    <3> QED  BY <3>1 DEF Request
  <2>2. DropContinuations({r.agent : r \in OnTheirWay({})}, TRUE)
    BY <1>3 DEF Abandon
  <2>3. frames' \subseteq Frame
    <3>1. \A f \in frames : f \in Frame /\ [f EXCEPT !.stop = "abandon"] \in Frame
      BY FrameChanges DEF TypeOK
    <3> QED  BY <1>3, <3>1 DEF Abandon
  <2> QED  BY <1>3, <2>1, <2>2, <2>3, DropContinuationsType DEF Abandon, TypeOK, AuxPlaces, host
<1>4. CASE Stop
  <2> DEFINE held == UNION {hold[a].held : a \in Agent}
             ending == {r \in pending \cup pass \cup parked \cup held : ContinuesTurn(r)}
             lost == held \ ending
  <2>1. ending \subseteq Request /\ lost \subseteq Request
    BY DEF TypeOK, Hold
  <2>2. PartsOf(ending) \subseteq Part /\ PartsOf(lost) \subseteq Part
    BY <2>1, PartsOfType
  <2>3. /\ Reads({p \in PartsOf(ending) : Continues(p)}) \subseteq Wake
        /\ Reads({p \in PartsOf(ending) : ~Continues(p)}) \subseteq Wake
        /\ Reads(PartsOf(lost)) \subseteq Wake
    BY <2>2, ReadsType
  <2>4. over' \subseteq Wake /\ dropped' \subseteq Wake
    BY <1>4, <2>3 DEF Stop, TypeOK
  <2>5. frames' \subseteq Frame
    <3>1. \A f \in frames : f \in Frame /\ [f EXCEPT !.stop = "shutdown"] \in Frame
      BY FrameChanges DEF TypeOK
    <3> QED  BY <1>4, <3>1 DEF Stop
  <2>6. hold' \in [Agent -> Hold] /\ gate' \in [Agent -> Gate] /\ aux' \in AuxPlaces
    BY <1>4, HoldTypes DEF Stop, TypeOK, OpenGate, Gate, AuxPlaces
  <2>7. rearms' \in [Agent -> 0..MaxRearms]
    <3>1. 0 \in 0..MaxRearms
      BY SchedulerConstants
    <3> QED  BY <1>4, <3>1 DEF Stop
  <2>8. pending' \subseteq Request /\ pass' \subseteq Request /\ parked' \subseteq Request
    BY <1>4 DEF Stop, TypeOK
  <2> QED  BY <1>4, <2>4, <2>5, <2>6, <2>7, <2>8 DEF Stop, TypeOK, AuxPlaces
<1> QED  BY <1>1, <1>2, <1>3, <1>4 DEF Operator

-----------------------------------------------------------------------------
(* Every reachable state is well typed: requests carry wakes of this host,  *)
(* gates never count below zero, and tokens are those of frames.            *)
THEOREM TypeCorrect == Spec => []TypeOK
<1>1. Init => TypeOK
  <2>1. 0 \in 0..MaxRearms
    BY SchedulerConstants
  <2>2. OpenGate \in Gate
    BY DEF OpenGate, Gate
  <2>3. Init => hold \in [Agent -> Hold] /\ gate \in [Agent -> Gate]
    BY <2>2, HoldTypes DEF Init
  <2>4. Init => rearms \in [Agent -> 0..MaxRearms] /\ token \in [Agent -> Token \cup {NoToken}]
    BY <2>1 DEF Init
  <2>5. Init => bound \in [Agent -> BOOLEAN] /\ aux \in AuxPlaces
    BY DEF Init, AuxPlaces
  <2> QED  BY <2>3, <2>4, <2>5 DEF Init, TypeOK, AuxPlaces
<1>2. TypeOK /\ [Next]_vars => TypeOK'
  <2> SUFFICES ASSUME TypeOK, [Next]_vars
               PROVE  TypeOK'
    OBVIOUS
  <2>1. CASE UNCHANGED vars
    BY <2>1 DEF vars, work, host, story, TypeOK
  <2>2. ASSUME NEW w \in Wake, WakeArrives(w) \/ Withdraw(w)
        PROVE  TypeOK'
    BY <2>2, ArrivalType
  <2>3. CASE PassBegins \/ PassEnds
    BY <2>3 DEF PassBegins, PassEnds, TypeOK, host, story
  <2>4. ASSUME NEW a \in Agent, PassStep(a)
        PROVE  TypeOK'
    BY <2>4, PassType, PassWaitsType, PassLeavesType, PassStartsType DEF PassStep
  <2>5. ASSUME NEW r \in parked, UnparkGivesBack(r) \/ UnparkStarts(r)
        PROVE  TypeOK'
    BY <2>5, UnparkType
  <2>6. ASSUME NEW f \in frames, FrameStep(f)
        PROVE  TypeOK'
    BY <2>6, BeginType, FailsHeldType, FailsType, RetryStartsType, StreamType DEF FrameStep
  <2>7. ASSUME NEW x \in Aux, AuxStep(x)
        PROVE  TypeOK'
    BY <2>7, AuxType
  <2>8. ASSUME NEW a \in Agent, WaitEnds(a) \/ HoldExpires(a)
        PROVE  TypeOK'
    BY <2>8, HoldEndsType
  <2>9. CASE Operator
    BY <2>9, OperatorType
  <2> QED  BY <2>1, <2>2, <2>3, <2>4, <2>5, <2>6, <2>7, <2>8, <2>9 DEF Next
<1> QED  BY <1>1, <1>2, PTL DEF Spec

-----------------------------------------------------------------------------
(* A quiesced host begins no turn.                                          *)

(* The frame a merged start of continuations begins carries a turn on.      *)
LEMMA NewFrameContinues ==
    ASSUME NEW a, NEW parts, NEW attempt, NEW inPass, NEW parent,
           \E p \in parts : Continues(p)
    PROVE  ~NewFrame(a, parts, attempt, inPass, parent).fresh
BY DEF NewFrame

(* A frame that changes keeps its token and whether it began a turn.        *)
NoBegin ==
    \A f \in frames' :
        (f.fresh /\ f.phase = "starting") => \E g \in frames : g.tok = f.tok /\ g.fresh

LEMMA BecomeBeginsNone ==
    ASSUME TypeOK, NEW f \in frames, NEW g \in Frame, Become(f, g),
           g.phase # "starting"
    PROVE  NoBegin
BY DEF Become, NoBegin

LEMMA SameFramesBeginNone ==
    ASSUME UNCHANGED frames
    PROVE  NoBegin
BY DEF NoBegin

(* Frames told to stop begin nothing.                                       *)
LEMMA MarkedBeginNone ==
    ASSUME TypeOK, NEW s,
           \A g \in frames' : \E f \in frames : g = f \/ g = [f EXCEPT !.stop = s]
    PROVE  NoBegin
<1> SUFFICES ASSUME NEW g \in frames', g.fresh, g.phase = "starting"
             PROVE  \E h \in frames : h.tok = g.tok /\ h.fresh
  BY DEF NoBegin
<1>1. PICK f \in frames : g = f \/ g = [f EXCEPT !.stop = s]
  OBVIOUS
<1>2. f \in Frame
  BY DEF TypeOK
<1>3. [f EXCEPT !.stop = s].tok = f.tok /\ [f EXCEPT !.stop = s].fresh = f.fresh
  BY <1>2 DEF Frame
<1> QED  BY <1>1, <1>3

(* Handing back to the frame that waits begins nothing.                     *)
LEMMA ReturnToBeginsNone ==
    ASSUME TypeOK, NEW f \in frames,
           NEW h \in ReturnTo(f, frames \ {f}), h.fresh, h.phase = "starting"
    PROVE  h \in frames
<1>1. PICK g \in frames \ {f} :
        h = IF g.tok = f.parent /\ g.phase = "handing" THEN [g EXCEPT !.phase = "ending"] ELSE g
  BY DEF ReturnTo
<1>2. g \in Frame
  BY DEF TypeOK
<1>3. [g EXCEPT !.phase = "ending"].phase = "ending"
  BY <1>2 DEF Frame
<1> QED  BY <1>1, <1>3

LEMMA FramesBeginNone ==
    ASSUME TypeOK, NEW f \in frames, FrameStep(f)
    PROVE  NoBegin
<1>1. f \in Frame
  BY DEF TypeOK
<1> DEFINE ending == [f EXCEPT !.phase = "ending"]
           backoff == [f EXCEPT !.phase = "backoff"]
<1>2. ending \in Frame /\ ending.phase # "starting" /\ backoff \in Frame /\ backoff.phase # "starting"
  <2>1. ending \in Frame /\ backoff \in Frame
    BY <1>1, FrameChanges
  <2>2. ending.phase = "ending" /\ backoff.phase = "backoff"
    BY <1>1 DEF Frame
  <2> QED  BY <2>1, <2>2
<1>3. CASE \/ BeginStopped(f) \/ BeginWithdrawn(f) \/ BeginHeld(f) \/ FailsIntoHold(f)
           \/ FailsIntoWait(f) \/ FailsExhausted(f) \/ Completes(f) \/ Aborted(f)
  <2>1. Become(f, ending)
    BY <1>3 DEF BeginStopped, BeginWithdrawn, BeginHeld, FailsIntoHold, FailsIntoWait,
                FailsExhausted, Completes, Aborted
  <2> QED  BY <1>2, <2>1, BecomeBeginsNone
<1>4. CASE GuardRetries(f)
  BY <1>2, <1>4, BecomeBeginsNone DEF GuardRetries
<1>5. CASE FailsIntoRetry(f)
  <2> DEFINE again == [f EXCEPT !.phase = "backoff", !.attempt = @ + 1]
  <2>1. f.attempt < MaxAttempts
    BY <1>5 DEF FailsIntoRetry
  <2>2. again \in Frame
    BY <1>1, <2>1, FrameChanges
  <2>3. again.phase # "starting"
    BY <1>1 DEF Frame
  <2>4. Become(f, again)
    BY <1>5 DEF FailsIntoRetry
  <2> QED  BY <2>2, <2>3, <2>4, BecomeBeginsNone
<1>6. CASE BudgetRestarts(f) \/ EndsTurn(f)
  <2>1. PICK g \in {[f EXCEPT !.stop = "shutdown"], [f EXCEPT !.stop = "budget_restart", !.reads = {}],
                    [f EXCEPT !.stop = "turn_ended", !.reads = {}]} : Become(f, g)
    BY <1>6 DEF BudgetRestarts, EndsTurn
  <2>2. f.phase = "streaming"
    BY <1>6 DEF BudgetRestarts, EndsTurn, Streams
  <2>3. g \in Frame
    BY <1>1, <2>1, FrameChanges
  <2>4. g.phase = f.phase
    BY <1>1, <2>1 DEF Frame
  <2> QED  BY <2>1, <2>2, <2>3, <2>4, BecomeBeginsNone
<1>7. CASE BeginStreams(f)
  <2> DEFINE streaming == [f EXCEPT !.phase = "streaming", !.inPass = FALSE, !.parent = NoToken]
  <2>1. frames' = ReturnTo(f, frames \ {f}) \cup {streaming}
    BY <1>7 DEF BeginStreams
  <2>2. streaming.phase # "starting"
    BY <1>1 DEF Frame
  <2> QED  BY <2>1, <2>2, ReturnToBeginsNone DEF NoBegin
<1>8. CASE Leaves(f)
  <2>1. frames' = ReturnTo(f, frames \ {f})
    BY <1>8 DEF Leaves
  <2> QED  BY <2>1, ReturnToBeginsNone DEF NoBegin
<1>9. CASE RetryStarts(f)
  <2>1. CASE Become(f, ending)
    BY <1>2, <2>1, BecomeBeginsNone
  <2>2. CASE ~Become(f, ending)
    <3> DEFINE parts == {[kind |-> IF f.restart THEN "restart" ELSE "retry", reads |-> f.reads]}
               new == NewFrame(f.agent, parts, f.attempt, f.inPass, f.tok)
               handing == [f EXCEPT !.phase = "handing", !.reads = {}]
    <3>1. frames' = (frames \ {f}) \cup {handing, new}
      BY <1>9, <2>2 DEF RetryStarts
    <3>2. \E p \in parts : Continues(p)
      BY DEF Continues
    <3>3. ~new.fresh
      BY <3>2, NewFrameContinues
    <3>4. handing.phase # "starting"
      BY <1>1 DEF Frame
    <3> HIDE DEF new, handing
    <3> QED  BY <3>1, <3>3, <3>4 DEF NoBegin
  <2> QED  BY <2>1, <2>2
<1> QED  BY <1>3, <1>4, <1>5, <1>6, <1>7, <1>8, <1>9 DEF FrameStep

(* While the host is quiesced, the only turns that start are continuations  *)
(* and retries of turns it had.                                             *)
THEOREM QuiesceHolds == Spec => QuiesceAdmitsNoNewTurn
<1>1. TypeOK /\ [Next]_vars => (quiesced => NoBegin)
  <2> SUFFICES ASSUME TypeOK, [Next]_vars, quiesced
               PROVE  NoBegin
    OBVIOUS
  <2>1. CASE UNCHANGED vars
    BY <2>1, SameFramesBeginNone DEF vars
  <2>2. ASSUME NEW w \in Wake, WakeArrives(w) \/ Withdraw(w)
        PROVE  NoBegin
    BY <2>2, SameFramesBeginNone DEF WakeArrives, Withdraw
  <2>3. CASE PassBegins \/ PassEnds
    BY <2>3, SameFramesBeginNone DEF PassBegins, PassEnds
  <2>4. ASSUME NEW a \in Agent, PassStep(a)
        PROVE  NoBegin
    <3>1. CASE ~PassStarts(a)
      BY <2>4, <3>1, SameFramesBeginNone
         DEF PassStep, PassHolds, PassWaits, PassParks, PassRequeues, PassReads, PassDrops, PassStopped
    <3>2. CASE PassStarts(a)
      <4>1. Ready(a) # {} /\ \A p \in Ready(a) : Continues(p)
        BY <3>2 DEF PassStarts, Ready, Passing
      <4>2. PICK read \in SUBSET {p \in Ready(a) : p.kind = "wake"} :
              /\ Ready(a) # read
              /\ IF AuxRunning(a) THEN UNCHANGED frames
                 ELSE frames' = frames \cup
                        {NewFrame(a, Merged(Ready(a) \ read), 0, TRUE, NoToken)}
        BY <3>2 DEF PassStarts
      <4>3. \E p \in Merged(Ready(a) \ read) : Continues(p)
        BY <4>1, <4>2 DEF Merged, Continues
      <4>4. ~NewFrame(a, Merged(Ready(a) \ read), 0, TRUE, NoToken).fresh
        BY <4>3, NewFrameContinues
      <4> QED  BY <4>2, <4>4 DEF NoBegin
    <3> QED  BY <3>1, <3>2
  <2>5. ASSUME NEW r \in parked, UnparkGivesBack(r) \/ UnparkStarts(r)
        PROVE  NoBegin
    <3>1. CASE UnparkGivesBack(r)
      BY <3>1, SameFramesBeginNone DEF UnparkGivesBack
    <3>2. CASE UnparkStarts(r)
      <4>1. \E p \in r.parts : Continues(p)
        BY <3>2 DEF UnparkStarts, GoesOn, ContinuesTurn
      <4>2. ~NewFrame(r.agent, r.parts, 0, FALSE, NoToken).fresh
        BY <4>1, NewFrameContinues
      <4>3. \/ UNCHANGED frames
            \/ frames' = frames \cup {NewFrame(r.agent, r.parts, 0, FALSE, NoToken)}
        BY <3>2 DEF UnparkStarts
      <4> QED  BY <4>2, <4>3 DEF NoBegin
    <3> QED  BY <2>5, <3>1, <3>2
  <2>6. ASSUME NEW f \in frames, FrameStep(f)
        PROVE  NoBegin
    BY <2>6, FramesBeginNone
  <2>7. ASSUME NEW x \in Aux, AuxStep(x)
        PROVE  NoBegin
    BY <2>7, SameFramesBeginNone DEF AuxStep, AuxCalls, AuxWoken, AuxEnds, AuxFails, AuxSame
  <2>8. ASSUME NEW a \in Agent, WaitEnds(a) \/ HoldExpires(a)
        PROVE  NoBegin
    BY <2>8, SameFramesBeginNone DEF WaitEnds, HoldExpires
  <2>9. CASE Operator
    <3>2. CASE Quiesce \/ ResumeBegins \/ ResumeEnds
      BY <3>2, SameFramesBeginNone DEF Quiesce, ResumeBegins, ResumeEnds
    <3>3. ASSUME NEW a \in Agent, Abort(a)
          PROVE  NoBegin
      <4>1. CASE UNCHANGED frames
        BY <4>1, SameFramesBeginNone
      <4>2. CASE ~UNCHANGED frames
        <5>1. PICK f \in frames : Become(f, [f EXCEPT !.stop = "caller"])
          BY <3>3, <4>2 DEF Abort, Abortable
        <5>2. \A g \in frames' : \E h \in frames : g = h \/ g = [h EXCEPT !.stop = "caller"]
          BY <5>1 DEF Become
        <5> QED  BY <5>2, MarkedBeginNone
      <4> QED  BY <4>1, <4>2
    <3>4. CASE Abandon
      <4>1. \A g \in frames' : \E f \in frames : g = f \/ g = [f EXCEPT !.stop = "abandon"]
        BY <3>4 DEF Abandon
      <4> QED  BY <4>1, MarkedBeginNone
    <3>5. CASE Stop
      <4>1. \A g \in frames' : \E f \in frames : g = f \/ g = [f EXCEPT !.stop = "shutdown"]
        BY <3>5 DEF Stop
      <4> QED  BY <4>1, MarkedBeginNone
    <3> QED  BY <2>9, <3>2, <3>3, <3>4, <3>5 DEF Operator
  <2> QED  BY <2>1, <2>2, <2>3, <2>4, <2>5, <2>6, <2>7, <2>8, <2>9 DEF Next
<1>2. (quiesced => NoBegin) =>
        (quiesced => \A f \in frames' :
           (f.fresh /\ f.phase = "starting") => \E g \in frames : g.tok = f.tok /\ g.fresh)
  BY DEF NoBegin
<1> QED  BY <1>1, <1>2, TypeCorrect, PTL DEF Spec, QuiesceAdmitsNoNewTurn

-----------------------------------------------------------------------------
(* Who carries an agent's turn.                                             *)
(*                                                                          *)
(* Requests are in four places: queued, in the running pass's hands, held,  *)
(* or parked.  The invariant says of some parts (those that carry a turn on *)
(* here, those that read a wake in AgentTurns_proofs) that an agent         *)
(* has at most one, in at most one place, so the lemmas about places take   *)
(* the parts as P.                                                          *)

(* The parts that carry a turn on, and those that read a wake.              *)
Carrying == {p \in Part : Continues(p)}
Reading(w) == {p \in Part : w \in p.reads}

(* Whether the requests R have a part in P, and no more than one.           *)
Has(R, P) == \E r \in R : \E p \in r.parts : p \in P
Single(R, P) ==
    \A r, s \in R : \A p \in r.parts, q \in s.parts : p \in P /\ q \in P => r = s /\ p = q

(* What there is of an agent.                                               *)
Pend(a) == Of(a, pending)
Pas(a) == Of(a, pass)
Held(a) == hold[a].held
Park(a) == Of(a, parked)
Toks(a) == {f.tok : f \in FramesOf(a)}
(* A frame is live until its turn goes on by a restart or ends, told to stop*)
(* or not.                                                                  *)
Gone == {"budget_restart", "turn_ended"}
Living(f) == f.stop \notin Gone /\ f.phase \in {"starting", "backoff", "streaming"}
LiveToks(a) == {f.tok : f \in {g \in FramesOf(a) : Living(g)}}

(* Among what is queued, in the pass's hands and held, P is there once.     *)
Loose(a, P) ==
    /\ Single(Pend(a), P) /\ Single(Pas(a), P) /\ Single(Held(a), P)
    /\ ~(Has(Pend(a), P) /\ Has(Pas(a), P))
    /\ ~(Has(Pend(a), P) /\ Has(Held(a), P))
    /\ ~(Has(Pas(a), P) /\ Has(Held(a), P))
Anywhere(a, P) == Has(Pend(a), P) \/ Has(Pas(a), P) \/ Has(Held(a), P)

(* What carries the agent's turn: a continuation queued, in the pass's hands*)
(* or held; a start parked; or the live frame, which has the agent's token. *)
OneTurn(a) ==
    /\ Loose(a, Carrying) /\ Single(Park(a), Carrying)
    /\ \A r, s \in Park(a) : r = s
    /\ LiveToks(a) \subseteq {token[a]}
    /\ Anywhere(a, Carrying) => Park(a) = {} /\ LiveToks(a) = {}
    /\ Park(a) # {} => LiveToks(a) = {}

(* Its gate counts its frames and its parked start.                         *)
Balanced(a) ==
    /\ IsFiniteSet(Toks(a))
    /\ ~closed => gate[a].depth = Cardinality(Toks(a)) + (IF Park(a) = {} THEN 0 ELSE 1)

(* It has no frame beside an auxiliary call.                                *)
Excluded(a) ==
    ~closed => \A x \in Aux : AuxAgent[x] = a /\ aux[x] = "running" => Toks(a) = {}

Owned(a) == OneTurn(a) /\ Balanced(a) /\ Excluded(a) /\ \A r \in Held(a) : r.agent = a

Distinct == \A f, g \in frames : f.tok = g.tok => f = g

Owners == Distinct /\ \A a \in Agent : Owned(a)
OInv == TypeOK /\ Owners

-----------------------------------------------------------------------------
(* Where parts are in sets of requests.                                     *)

(* Fewer requests have no more parts.                                       *)
LEMMA FewerRequests ==
    ASSUME NEW R, NEW S \in SUBSET R, NEW P
    PROVE  /\ Has(S, P) => Has(R, P)
           /\ Single(R, P) => Single(S, P)
BY DEF Has, Single

LEMMA NoRequest ==
    ASSUME NEW P
    PROVE  ~Has({}, P) /\ Single({}, P)
BY DEF Has, Single

(* Requests put together.                                                   *)
LEMMA TogetherRequests ==
    ASSUME NEW R, NEW S, NEW P
    PROVE  /\ Has(R \cup S, P) <=> Has(R, P) \/ Has(S, P)
           /\ Single(R, P) /\ Single(S, P) /\ ~(Has(R, P) /\ Has(S, P)) => Single(R \cup S, P)
BY DEF Has, Single

(* The parts of requests are theirs.                                        *)
LEMMA PartsHas ==
    ASSUME NEW R, NEW P
    PROVE  /\ Has(R, P) <=> \E p \in PartsOf(R) : p \in P
           /\ Single(R, P) => \A p, q \in PartsOf(R) : p \in P /\ q \in P => p = q
BY DEF Has, Single, PartsOf

(* A merged start taken apart has its parts.                                *)
LEMMA SinglyHas ==
    ASSUME NEW a, NEW Q, NEW P
    PROVE  /\ Has(Singly(a, Q), P) <=> \E p \in Q : p \in P
           /\ (\A p, q \in Q : p \in P /\ q \in P => p = q) => Single(Singly(a, Q), P)
<1> DEFINE one(p) == [agent |-> a, parts |-> {p}]
<1>1. \A p : one(p).parts = {p}
  OBVIOUS
<1>2. Singly(a, Q) = {one(p) : p \in Q}
  BY DEF Singly
<1> HIDE DEF one
<1>3. Has(Singly(a, Q), P) <=> \E p \in Q : p \in P
  BY <1>1, <1>2 DEF Has
<1>4. ASSUME \A p, q \in Q : p \in P /\ q \in P => p = q
      PROVE  Single(Singly(a, Q), P)
  BY <1>1, <1>2, <1>4 DEF Single
<1> QED  BY <1>3, <1>4

(* A request of one part.                                                   *)
LEMMA OneHas ==
    ASSUME NEW a, NEW k, NEW reads, NEW P
    PROVE  /\ Has({Request1(a, k, reads)}, P) <=> [kind |-> k, reads |-> reads] \in P
           /\ Single({Request1(a, k, reads)}, P)
<1> DEFINE p == [kind |-> k, reads |-> reads]
<1>1. Request1(a, k, reads).parts = {p}
  BY DEF Request1
<1> HIDE DEF p
<1>2. Has({Request1(a, k, reads)}, P) <=> p \in P
  BY <1>1 DEF Has
<1>3. Single({Request1(a, k, reads)}, P)
  BY <1>1 DEF Single
<1> QED  BY <1>2, <1>3 DEF p

(* Requests without a wake have no more parts.                              *)
LEMMA WithoutHas ==
    ASSUME NEW R \in SUBSET Request, NEW w, NEW P
    PROVE  /\ Has(Without(w, R), P) => Has(R, P)
           /\ Single(R, P) => Single(Without(w, R), P)
<1> DEFINE Left(r) == [r EXCEPT !.parts = {p \in @ : ~IsWake(w, p)}]
<1>1. \A r \in R : Left(r).parts = {p \in r.parts : ~IsWake(w, p)}
  BY DEF Request
<1>2. \A s \in Without(w, R) : \E r \in R : s = Left(r) /\ s.parts \subseteq r.parts
  BY <1>1 DEF Without
<1> HIDE DEF Left
<1> QED  BY <1>2 DEF Has, Single

(* They keep the parts that are none of the wake's own.                     *)
LEMMA WithoutKeeps ==
    ASSUME NEW R \in SUBSET Request, NEW w, NEW P, \A p \in P : ~IsWake(w, p)
    PROVE  Has(R, P) <=> Has(Without(w, R), P)
<1>1. ASSUME NEW r \in R, NEW p \in r.parts, p \in P
      PROVE  Has(Without(w, R), P)
  <2> DEFINE left == [r EXCEPT !.parts = {q \in @ : ~IsWake(w, q)}]
  <2>1. left.parts = {q \in r.parts : ~IsWake(w, q)}
    BY DEF Request
  <2>2. p \in left.parts
    BY <1>1, <2>1
  <2>3. left \in Without(w, R)
    BY <2>2 DEF Without
  <2> QED  BY <1>1, <2>2, <2>3 DEF Has
<1> QED  BY <1>1, WithoutHas DEF Has

-----------------------------------------------------------------------------
(* What is an agent's among requests.                                       *)
LEMMA OfSets ==
    ASSUME NEW a, NEW R, NEW S
    PROVE  /\ Of(a, R \cup S) = Of(a, R) \cup Of(a, S)
           /\ Of(a, R \ S) = Of(a, R) \ S
           /\ Of(a, {}) = {}
           /\ S \subseteq R => Of(a, S) \subseteq Of(a, R)
BY DEF Of

LEMMA OfNew ==
    ASSUME NEW a, NEW b, NEW Q, NEW k, NEW reads
    PROVE  /\ Of(b, Singly(a, Q)) = IF b = a THEN Singly(a, Q) ELSE {}
           /\ Of(b, {Request1(a, k, reads)}) = IF b = a THEN {Request1(a, k, reads)} ELSE {}
<1>1. \A r \in Singly(a, Q) : r.agent = a
  BY DEF Singly
<1>2. Request1(a, k, reads).agent = a
  BY DEF Request1
<1> QED  BY <1>1, <1>2 DEF Of

(* The pass takes what is the agent's out of its hands.                     *)
LEMMA OfTaken ==
    ASSUME NEW a, NEW b, NEW R
    PROVE  Of(b, R \ Of(a, R)) = IF b = a THEN {} ELSE Of(b, R)
BY DEF Of

LEMMA OfWithout ==
    ASSUME NEW a, NEW w, NEW R \in SUBSET Request
    PROVE  Of(a, Without(w, R)) = Without(w, Of(a, R))
<1> DEFINE Left(r) == [r EXCEPT !.parts = {p \in @ : ~IsWake(w, p)}]
<1>1. \A r \in R : Left(r).agent = r.agent
  BY DEF Request
<1>2. \A S : Without(w, S) = {r \in {Left(s) : s \in S} : r.parts # {}}
  BY DEF Without
<1> HIDE DEF Left
<1> QED  BY <1>1, <1>2 DEF Of

-----------------------------------------------------------------------------
(* Frames changing.                                                         *)

(* A frame becomes another under its token.                                 *)
LEMMA BecomeToks ==
    ASSUME TypeOK, Distinct, NEW f \in frames, NEW g, g.tok = f.tok, g.agent = f.agent, Become(f, g)
    PROVE  /\ Distinct'
           /\ \A b \in Agent : Toks(b)' = Toks(b)
           /\ \A b \in Agent : b # f.agent => LiveToks(b)' = LiveToks(b)
           /\ LiveToks(f.agent)' = (LiveToks(f.agent) \ {f.tok}) \cup (IF Living(g) THEN {f.tok} ELSE {})
<1>1. frames' = (frames \ {f}) \cup {g}
  BY DEF Become
<1>2. Distinct'
  BY <1>1 DEF Distinct
<1>3. ASSUME NEW b \in Agent
      PROVE  Toks(b)' = Toks(b)
  BY <1>1 DEF Toks, FramesOf
<1>4. ASSUME NEW b \in Agent, b # f.agent
      PROVE  LiveToks(b)' = LiveToks(b)
  BY <1>1, <1>4 DEF LiveToks, FramesOf
<1> DEFINE L == {h.tok : h \in {k \in frames : k.agent = f.agent /\ Living(k)}}
<1>5. LiveToks(f.agent) = L /\ LiveToks(f.agent)' = L'
  BY DEF LiveToks, FramesOf
<1>6. \A h \in frames \ {f} : h.tok # f.tok
  BY DEF Distinct
<1>7. \A h : Living(h)' <=> Living(h)
  BY DEF Living
<1>8. L' = (L \ {f.tok}) \cup (IF Living(g) THEN {f.tok} ELSE {})
  BY <1>1, <1>6, <1>7
<1> QED  BY <1>2, <1>3, <1>4, <1>5, <1>8

(* Frames that change in place, some of them left out.                      *)
LEMMA ImageToks ==
    ASSUME NEW F \in SUBSET frames,
           \A g \in frames' : \E h \in F :
              g.tok = h.tok /\ g.agent = h.agent /\ (Living(g) => Living(h)),
           \A h \in F : \E g \in frames' : g.tok = h.tok /\ g.agent = h.agent
    PROVE  \A b \in Agent : /\ Toks(b)' = {h.tok : h \in {k \in F : k.agent = b}}
                            /\ LiveToks(b)' \subseteq LiveToks(b)
<1> SUFFICES ASSUME NEW b \in Agent
             PROVE  /\ Toks(b)' = {h.tok : h \in {k \in F : k.agent = b}}
                    /\ LiveToks(b)' \subseteq LiveToks(b)
  OBVIOUS
<1>1. Toks(b)' = {h.tok : h \in {k \in F : k.agent = b}}
  BY DEF Toks, FramesOf
<1>2. LiveToks(b)' \subseteq LiveToks(b)
  BY DEF LiveToks, FramesOf, Living
<1> QED  BY <1>1, <1>2

(* Handing back to the frame that waits.                                    *)
LEMMA ReturnToImages ==
    ASSUME TypeOK, Distinct, NEW f, NEW F \in SUBSET frames
    PROVE  /\ \A g \in ReturnTo(f, F) : \E h \in F :
                g.tok = h.tok /\ g.agent = h.agent /\ (Living(g) => Living(h))
           /\ \A h \in F : \E g \in ReturnTo(f, F) : g.tok = h.tok /\ g.agent = h.agent
           /\ \A g, h \in ReturnTo(f, F) : g.tok = h.tok => g = h
<1> DEFINE back(g) == IF g.tok = f.parent /\ g.phase = "handing" THEN [g EXCEPT !.phase = "ending"] ELSE g
<1>1. \A g \in F : back(g).tok = g.tok /\ back(g).agent = g.agent /\ (Living(back(g)) => Living(g))
  <2>1. \A g \in Frame : /\ [g EXCEPT !.phase = "ending"].tok = g.tok
                         /\ [g EXCEPT !.phase = "ending"].agent = g.agent
                         /\ [g EXCEPT !.phase = "ending"].phase = "ending"
    BY DEF Frame
  <2> QED  BY <2>1 DEF TypeOK, Living
<1>2. ReturnTo(f, F) = {back(g) : g \in F}
  BY DEF ReturnTo
<1> HIDE DEF back
<1> QED  BY <1>1, <1>2 DEF Distinct

(* Frames told to stop.                                                     *)
LEMMA MarkedToks ==
    ASSUME TypeOK, Distinct, NEW M, NEW s, \A f \in M : f \in frames => f.stop \notin Gone,
           frames' = {IF f \in M THEN [f EXCEPT !.stop = s] ELSE f : f \in frames}
    PROVE  /\ Distinct'
           /\ \A b \in Agent : Toks(b)' = Toks(b) /\ LiveToks(b)' \subseteq LiveToks(b)
<1> DEFINE marked(f) == IF f \in M THEN [f EXCEPT !.stop = s] ELSE f
<1>1. \A f \in frames : /\ marked(f).tok = f.tok /\ marked(f).agent = f.agent
                        /\ Living(marked(f)) => Living(f)
  <2>1. \A f \in Frame : /\ [f EXCEPT !.stop = s].tok = f.tok /\ [f EXCEPT !.stop = s].agent = f.agent
                         /\ [f EXCEPT !.stop = s].stop = s
    BY DEF Frame
  <2> QED  BY <2>1 DEF TypeOK, Living
<1>2. frames' = {marked(f) : f \in frames}
  OBVIOUS
<1> HIDE DEF marked
<1>3. Distinct'
  BY <1>1, <1>2 DEF Distinct
<1>4. \A g \in frames' : \E h \in frames :
        g.tok = h.tok /\ g.agent = h.agent /\ (Living(g) => Living(h))
  BY <1>1, <1>2
<1>5. \A h \in frames : \E g \in frames' : g.tok = h.tok /\ g.agent = h.agent
  BY <1>1, <1>2
<1>6. \A b \in Agent : Toks(b) = {h.tok : h \in {k \in frames : k.agent = b}}
  BY DEF Toks, FramesOf
<1> QED  BY <1>3, <1>4, <1>5, <1>6, ImageToks

(* A new frame of an agent under a token no frame has.                      *)
LEMMA NewToks ==
    ASSUME Distinct, NEW a \in Agent, NEW new, new.agent = a, new.tok \in FreeTokens,
           frames' = frames \cup {new}
    PROVE  /\ Distinct'
           /\ \A b \in Agent : b # a => Toks(b)' = Toks(b) /\ LiveToks(b)' = LiveToks(b)
           /\ Toks(a)' = Toks(a) \cup {new.tok}
           /\ new.tok \notin Toks(a)
           /\ LiveToks(a)' \subseteq LiveToks(a) \cup {new.tok}
<1>1. \A f \in frames : f.tok # new.tok
  BY DEF FreeTokens
<1>2. Distinct'
  BY <1>1 DEF Distinct
<1>3. \A b \in Agent : b # a => Toks(b)' = Toks(b) /\ LiveToks(b)' = LiveToks(b)
  BY DEF Toks, LiveToks, FramesOf, Living
<1>4. Toks(a)' = Toks(a) \cup {new.tok} /\ new.tok \notin Toks(a)
  BY <1>1 DEF Toks, FramesOf
<1>5. LiveToks(a)' \subseteq LiveToks(a) \cup {new.tok}
  BY DEF LiveToks, FramesOf, Living
<1> QED  BY <1>2, <1>3, <1>4, <1>5

-----------------------------------------------------------------------------
(* Calls let in.  No auxiliary call of an agent begins to run.              *)
Calm(b) == \A x \in Aux : AuxAgent[x] = b /\ aux'[x] = "running" => aux[x] = "running"

LEMMA FlushCalm ==
    ASSUME TypeOK, NEW a, NEW g, NEW h, Flush(a, g, h), NEW b
    PROVE  Calm(b)
BY DEF TypeOK, Flush, Calm

LEMMA SameCalm ==
    ASSUME UNCHANGED aux, NEW b
    PROVE  Calm(b)
BY DEF Calm

(* Gates that keep their count.                                             *)
LEMMA EndPendingDepth ==
    ASSUME TypeOK, NEW a \in Agent, NEW g \in Gate, NEW h, NEW when,
           g.depth = gate[a].depth, EndPendingPrimary(a, g, h, when), NEW b \in Agent
    PROVE  gate'[b].depth = gate[b].depth /\ Calm(b)
<1>1. Ended(g).depth = g.depth
  BY DEF Ended, Gate
<1>2. gate \in [Agent -> Gate]
  BY DEF TypeOK
<1>3. CASE when /\ EndsPending(g)
  <2>1. gate' = [gate EXCEPT ![a] = Ended(g)] /\ Flush(a, Ended(g), h)
    BY <1>3 DEF EndPendingPrimary
  <2>2. gate'[b].depth = gate[b].depth
    BY <1>1, <1>2, <2>1
  <2> QED  BY <2>1, <2>2, FlushCalm
<1>4. CASE ~(when /\ EndsPending(g))
  <2>1. gate' = [gate EXCEPT ![a] = g] /\ UNCHANGED aux
    BY <1>4 DEF EndPendingPrimary
  <2>2. gate'[b].depth = gate[b].depth
    BY <1>2, <2>1
  <2> QED  BY <2>1, <2>2, SameCalm
<1> QED  BY <1>3, <1>4

LEMMA ReleasedDepth ==
    ASSUME TypeOK, NEW a \in Agent
    PROVE  ReleasedGate(a).depth = gate[a].depth
BY DEF ReleasedGate, TypeOK, Gate

LEMMA GateDepths ==
    ASSUME NEW g \in Gate
    PROVE  /\ Acquire(g).depth = g.depth + 1
           /\ g.depth > 0 => Release(g).depth = g.depth - 1
           /\ Ended(g).depth = g.depth
<1>1. g.depth \in Nat
  BY DEF Gate
<1> QED  BY <1>1 DEF Acquire, Release, Ended, Gate

-----------------------------------------------------------------------------
(* An agent whose frames, token and count stay, and none of whose auxiliary *)
(* calls begins to run.                                                     *)
Quiet(b) ==
    /\ Toks(b)' = Toks(b) /\ LiveToks(b)' \subseteq LiveToks(b) /\ token'[b] = token[b]
    /\ Calm(b)
    /\ closed' \/ (~closed /\ gate'[b].depth = gate[b].depth)

SameQueues(b) ==
    Pend(b)' = Pend(b) /\ Pas(b)' = Pas(b) /\ Held(b)' = Held(b) /\ Park(b)' = Park(b)

LEMMA SameFramesQuiet ==
    ASSUME NEW b \in Agent, UNCHANGED <<frames, token, closed>>, Calm(b),
           gate'[b].depth = gate[b].depth
    PROVE  Quiet(b)
<1>1. Toks(b)' = Toks(b) /\ LiveToks(b)' = LiveToks(b)
  BY DEF Toks, LiveToks, FramesOf, Living
<1> QED  BY <1>1 DEF Quiet

LEMMA QuietSide ==
    ASSUME NEW b \in Agent, Owned(b), Quiet(b), (Park(b) = {})' <=> Park(b) = {}
    PROVE  LiveToks(b)' \subseteq {token[b]}' /\ Balanced(b)' /\ Excluded(b)'
<1>1. LiveToks(b)' \subseteq {token[b]}'
  BY DEF Quiet, Owned, OneTurn
<1>2. Balanced(b)'
  BY DEF Quiet, Owned, Balanced
<1>3. Excluded(b)'
  BY DEF Quiet, Owned, Excluded, Calm
<1> QED  BY <1>1, <1>2, <1>3

(* Its turn stays carried by one thing when its requests only move.         *)
LEMMA QuietOwned ==
    ASSUME NEW b \in Agent, Owned(b), Quiet(b), Loose(b, Carrying)',
           Anywhere(b, Carrying)' => Anywhere(b, Carrying),
           Park(b)' = Park(b), \A r \in Held(b)' : r.agent = b
    PROVE  Owned(b)'
<1>1. LiveToks(b)' \subseteq {token[b]}' /\ Balanced(b)' /\ Excluded(b)'
  BY QuietSide
<1>2. Single(Park(b), Carrying)'
  BY DEF Owned, OneTurn, Single
<1>3. OneTurn(b)'
  BY <1>1, <1>2 DEF Owned, OneTurn, Quiet
<1> QED  BY <1>1, <1>3 DEF Owned

(* Nothing of it moves.                                                     *)
LEMMA SameLoose ==
    ASSUME NEW b, NEW P, Pend(b)' = Pend(b), Pas(b)' = Pas(b), Held(b)' = Held(b)
    PROVE  /\ Loose(b, P) => Loose(b, P)'
           /\ Anywhere(b, P)' <=> Anywhere(b, P)
BY DEF Loose, Anywhere, Single, Has

LEMMA UntouchedOwned ==
    ASSUME NEW b \in Agent, Owned(b), Quiet(b), SameQueues(b)
    PROVE  Owned(b)'
<1>1. Loose(b, Carrying)' /\ (Anywhere(b, Carrying)' => Anywhere(b, Carrying))
  BY SameLoose DEF Owned, OneTurn, SameQueues
<1>2. Park(b)' = Park(b) /\ \A r \in Held(b)' : r.agent = b
  BY DEF SameQueues, Owned
<1> QED  BY <1>1, <1>2, QuietOwned

-----------------------------------------------------------------------------
(* Requests moving.                                                         *)
LEMMA AddsPending ==
    ASSUME NEW a, NEW P, Loose(a, P), NEW R, Single(R, P), Has(R, P) => ~Anywhere(a, P),
           Pend(a)' = Pend(a) \cup R, Pas(a)' = Pas(a), Held(a)' = Held(a)
    PROVE  Loose(a, P)' /\ (Anywhere(a, P)' <=> Anywhere(a, P) \/ Has(R, P))
<1>1. /\ Has(Pend(a) \cup R, P) <=> Has(Pend(a), P) \/ Has(R, P)
      /\ Single(Pend(a) \cup R, P)
  BY TogetherRequests DEF Loose, Anywhere
<1>2. /\ Has(Pend(a), P)' <=> Has(Pend(a) \cup R, P)
      /\ Has(Pas(a), P)' <=> Has(Pas(a), P)
      /\ Has(Held(a), P)' <=> Has(Held(a), P)
  BY DEF Has
<1>3. /\ Single(Pend(a), P)' <=> Single(Pend(a) \cup R, P)
      /\ Single(Pas(a), P)' <=> Single(Pas(a), P)
      /\ Single(Held(a), P)' <=> Single(Held(a), P)
  BY DEF Single
<1> QED  BY <1>1, <1>2, <1>3 DEF Loose, Anywhere

LEMMA AddsHeld ==
    ASSUME NEW a, NEW P, Loose(a, P), NEW R, Single(R, P), Has(R, P) => ~Anywhere(a, P),
           Pend(a)' = Pend(a), Pas(a)' = Pas(a), Held(a)' = Held(a) \cup R
    PROVE  Loose(a, P)' /\ (Anywhere(a, P)' <=> Anywhere(a, P) \/ Has(R, P))
<1>1. /\ Has(Held(a) \cup R, P) <=> Has(Held(a), P) \/ Has(R, P)
      /\ Single(Held(a) \cup R, P)
  BY TogetherRequests DEF Loose, Anywhere
<1>2. /\ Has(Held(a), P)' <=> Has(Held(a) \cup R, P)
      /\ Has(Pas(a), P)' <=> Has(Pas(a), P)
      /\ Has(Pend(a), P)' <=> Has(Pend(a), P)
  BY DEF Has
<1>3. /\ Single(Held(a), P)' <=> Single(Held(a) \cup R, P)
      /\ Single(Pas(a), P)' <=> Single(Pas(a), P)
      /\ Single(Pend(a), P)' <=> Single(Pend(a), P)
  BY DEF Single
<1> QED  BY <1>1, <1>2, <1>3 DEF Loose, Anywhere

(* The queue comes into the pass's hands.                                   *)
LEMMA PassBeginsLoose ==
    ASSUME NEW a, NEW P, Loose(a, P), Pend(a)' = {}, Pas(a)' = Pend(a), Held(a)' = Held(a)
    PROVE  Loose(a, P)' /\ (Anywhere(a, P)' => Anywhere(a, P))
<1>1. /\ ~Has(Pend(a), P)' /\ (Has(Pas(a), P)' <=> Has(Pend(a), P))
      /\ Has(Held(a), P)' <=> Has(Held(a), P)
  BY DEF Has
<1>2. /\ Single(Pend(a), P)' /\ (Single(Pas(a), P)' <=> Single(Pend(a), P))
      /\ Single(Held(a), P)' <=> Single(Held(a), P)
  BY DEF Single
<1> QED  BY <1>1, <1>2 DEF Loose, Anywhere

(* What the pass or a hold has is kept by a hold.                           *)
LEMMA HoldsLoose ==
    ASSUME NEW a, NEW P, Loose(a, P), Pend(a)' = Pend(a), Pas(a)' = {},
           Held(a)' = Held(a) \cup Pas(a)
    PROVE  Loose(a, P)' /\ (Anywhere(a, P)' <=> Anywhere(a, P))
<1>1. /\ Has(Held(a) \cup Pas(a), P) <=> Has(Held(a), P) \/ Has(Pas(a), P)
      /\ Single(Held(a) \cup Pas(a), P)
  BY TogetherRequests DEF Loose
<1>2. /\ ~Has(Pas(a), P)' /\ (Has(Pend(a), P)' <=> Has(Pend(a), P))
      /\ Has(Held(a), P)' <=> Has(Held(a) \cup Pas(a), P)
  BY DEF Has
<1>3. /\ Single(Pas(a), P)' /\ (Single(Pend(a), P)' <=> Single(Pend(a), P))
      /\ Single(Held(a), P)' <=> Single(Held(a) \cup Pas(a), P)
  BY DEF Single
<1> QED  BY <1>1, <1>2, <1>3 DEF Loose, Anywhere

(* The parts the pass and the hold have: at most one of P.                  *)
LEMMA UnheldOnce ==
    ASSUME NEW a, NEW P, Loose(a, P)
    PROVE  /\ \A p, q \in Unheld(a) : p \in P /\ q \in P => p = q
           /\ (\E p \in Unheld(a) : p \in P) <=> Has(Pas(a), P) \/ Has(Held(a), P)
<1>1. Unheld(a) = PartsOf(Pas(a) \cup Held(a))
  BY DEF Unheld, Pas, Held
<1>2. /\ Has(Pas(a) \cup Held(a), P) <=> Has(Pas(a), P) \/ Has(Held(a), P)
      /\ Single(Pas(a) \cup Held(a), P)
  BY TogetherRequests DEF Loose
<1>3. /\ Has(Pas(a) \cup Held(a), P) <=> \E p \in PartsOf(Pas(a) \cup Held(a)) : p \in P
      /\ \A p, q \in PartsOf(Pas(a) \cup Held(a)) : p \in P /\ q \in P => p = q
  BY <1>2, PartsHas
<1> QED  BY <1>1, <1>2, <1>3

(* They go to a hold taken apart,                                           *)
LEMMA WaitsLoose ==
    ASSUME NEW a, NEW P, Loose(a, P), Pend(a)' = Pend(a), Pas(a)' = {},
           Held(a)' = Singly(a, Unheld(a))
    PROVE  Loose(a, P)' /\ (Anywhere(a, P)' <=> Anywhere(a, P))
<1>1. /\ Has(Singly(a, Unheld(a)), P) <=> Has(Pas(a), P) \/ Has(Held(a), P)
      /\ Single(Singly(a, Unheld(a)), P)
  BY UnheldOnce, SinglyHas
<1>2. /\ ~Has(Pas(a), P)' /\ (Has(Pend(a), P)' <=> Has(Pend(a), P))
      /\ Has(Held(a), P)' <=> Has(Singly(a, Unheld(a)), P)
  BY DEF Has
<1>3. /\ Single(Pas(a), P)' /\ (Single(Pend(a), P)' <=> Single(Pend(a), P))
      /\ Single(Held(a), P)' <=> Single(Singly(a, Unheld(a)), P)
  BY DEF Single
<1> QED  BY <1>1, <1>2, <1>3 DEF Loose, Anywhere

(* or back to the queue, all or some of them.                               *)
LEMMA BackLoose ==
    ASSUME NEW a, NEW P, Loose(a, P), NEW back \in SUBSET Unheld(a),
           Pend(a)' = Pend(a) \cup Singly(a, back), Pas(a)' = {}, Held(a)' = {}
    PROVE  /\ Loose(a, P)'
           /\ Anywhere(a, P)' <=> Has(Pend(a), P) \/ \E p \in back : p \in P
           /\ Anywhere(a, P)' => Anywhere(a, P)
<1>1. /\ Has(Singly(a, back), P) <=> \E p \in back : p \in P
      /\ Single(Singly(a, back), P)
      /\ Has(Singly(a, back), P) => Has(Pas(a), P) \/ Has(Held(a), P)
  BY UnheldOnce, SinglyHas
<1>2. /\ Has(Pend(a) \cup Singly(a, back), P) <=> Has(Pend(a), P) \/ Has(Singly(a, back), P)
      /\ Single(Pend(a) \cup Singly(a, back), P)
  BY <1>1, TogetherRequests DEF Loose
<1>3. /\ ~Has(Pas(a), P)' /\ ~Has(Held(a), P)'
      /\ Has(Pend(a), P)' <=> Has(Pend(a) \cup Singly(a, back), P)
  BY DEF Has
<1>4. /\ Single(Pas(a), P)' /\ Single(Held(a), P)'
      /\ Single(Pend(a), P)' <=> Single(Pend(a) \cup Singly(a, back), P)
  BY DEF Single
<1> QED  BY <1>1, <1>2, <1>3, <1>4 DEF Loose, Anywhere

(* A hold gives back what it kept.                                          *)
LEMMA GivesBackLoose ==
    ASSUME NEW a, NEW P, Loose(a, P), NEW R \in SUBSET Held(a),
           Pend(a)' = Pend(a) \cup R, Pas(a)' = Pas(a), Held(a)' = {}
    PROVE  /\ Loose(a, P)'
           /\ Anywhere(a, P)' <=> Has(Pend(a), P) \/ Has(Pas(a), P) \/ Has(R, P)
           /\ Anywhere(a, P)' => Anywhere(a, P)
<1>1. (Has(R, P) => Has(Held(a), P)) /\ Single(R, P)
  BY FewerRequests DEF Loose
<1>2. /\ Has(Pend(a) \cup R, P) <=> Has(Pend(a), P) \/ Has(R, P)
      /\ Single(Pend(a) \cup R, P)
  BY <1>1, TogetherRequests DEF Loose
<1>3. /\ ~Has(Held(a), P)' /\ (Has(Pas(a), P)' <=> Has(Pas(a), P))
      /\ Has(Pend(a), P)' <=> Has(Pend(a) \cup R, P)
  BY DEF Has
<1>4. /\ Single(Held(a), P)' /\ (Single(Pas(a), P)' <=> Single(Pas(a), P))
      /\ Single(Pend(a), P)' <=> Single(Pend(a) \cup R, P)
  BY DEF Single
<1> QED  BY <1>1, <1>2, <1>3, <1>4 DEF Loose, Anywhere

-----------------------------------------------------------------------------
(* The queue and the pass.                                                  *)

(* When no frame changes, an agent's owner can only change with its queues. *)
LEMMA StillDistinct ==
    ASSUME Distinct, UNCHANGED frames
    PROVE  Distinct'
BY DEF Distinct

(* What a taken group does to the agent's requests.                         *)
LEMMA TakeGroupQueues ==
    ASSUME TypeOK, NEW a \in Agent, NEW back, TakeGroup(a, back)
    PROVE  /\ Pend(a)' = Pend(a) \cup Singly(a, back) /\ Pas(a)' = {} /\ Held(a)' = {}
           /\ \A b \in Agent : b # a => Pend(b)' = Pend(b) /\ Pas(b)' = Pas(b) /\ Held(b)' = Held(b)
<1>1. /\ pending' = pending \cup Singly(a, back) /\ pass' = pass \ Of(a, pass)
      /\ hold' = [hold EXCEPT ![a] = NoHold]
  BY DEF TakeGroup
<1>2. ASSUME NEW b \in Agent
      PROVE  Of(b, pending') = Pend(b) \cup (IF b = a THEN Singly(a, back) ELSE {})
  <2>1. Of(b, pending \cup Singly(a, back)) = Of(b, pending) \cup Of(b, Singly(a, back))
    BY OfSets
  <2>2. Of(b, Singly(a, back)) = IF b = a THEN Singly(a, back) ELSE {}
    BY OfNew
  <2> QED  BY <1>1, <2>1, <2>2 DEF Pend
<1>3. \A b \in Agent : Of(b, pass') = IF b = a THEN {} ELSE Pas(b)
  BY <1>1, OfTaken DEF Pas
<1>4. \A b \in Agent : hold'[b].held = IF b = a THEN {} ELSE Held(b)
  BY <1>1 DEF TypeOK, NoHold, Held
<1> QED  BY <1>2, <1>3, <1>4 DEF Pend, Pas, Held

(* A pass that leaves a group without a turn.                               *)
LEMMA TakeGroupOwned ==
    ASSUME OInv, NEW a \in Agent, NEW back \in SUBSET Unheld(a), TakeGroup(a, back),
           UNCHANGED <<frames, token, parked>>,
           \A b \in Agent : gate'[b].depth = gate[b].depth /\ Calm(b)
    PROVE  Owners'
<1>1. UNCHANGED closed
  BY DEF TakeGroup, host
<1>2. ASSUME NEW b \in Agent
      PROVE  Owned(b)'
  <2>1. Owned(b) /\ Quiet(b)
    BY <1>1, SameFramesQuiet DEF OInv, Owners
  <2>2. Park(b)' = Park(b)
    BY DEF Park
  <2>3. CASE b = a
    <3>1. Loose(b, Carrying)' /\ (Anywhere(b, Carrying)' => Anywhere(b, Carrying))
      BY <2>1, <2>3, TakeGroupQueues, BackLoose DEF OInv, Owned, OneTurn
    <3>2. \A r \in Held(b)' : r.agent = b
      BY <2>3, TakeGroupQueues DEF OInv
    <3> QED  BY <2>1, <2>2, <3>1, <3>2, QuietOwned
  <2>4. CASE b # a
    BY <2>1, <2>2, <2>4, TakeGroupQueues, UntouchedOwned DEF SameQueues, OInv
  <2> QED  BY <2>3, <2>4
<1>3. Distinct'
  BY StillDistinct DEF OInv, Owners
<1> QED  BY <1>2, <1>3 DEF Owners

LEMMA PassLeavesOwned ==
    ASSUME OInv, NEW a \in Agent,
           PassParks(a) \/ PassRequeues(a) \/ PassReads(a) \/ PassDrops(a) \/ PassStopped(a)
    PROVE  Owners'
<1> USE DEF OInv
<1>1. Kept(a) \subseteq Unheld(a) /\ Kept(a) \ Ready(a) \subseteq Unheld(a)
  BY DEF Kept
<1>2. ReleasedGate(a) \in Gate /\ ReleasedGate(a).depth = gate[a].depth
  BY ReleasedGateType, ReleasedDepth
<1>3. CASE PassParks(a) \/ PassRequeues(a)
  <2>1. gate' = [gate EXCEPT ![a] = ReleasedGate(a)] /\ UNCHANGED <<aux, frames, token, parked>>
        /\ TakeGroup(a, Kept(a))
    BY <1>3 DEF PassParks, PassRequeues
  <2>2. \A b \in Agent : gate'[b].depth = gate[b].depth
    BY <1>2, <2>1 DEF TypeOK
  <2> QED  BY <1>1, <2>1, <2>2, SameCalm, TakeGroupOwned
<1>4. CASE PassReads(a)
  <2>1. EndPendingPrimary(a, ReleasedGate(a), NoHold, TRUE) /\ UNCHANGED <<frames, token, parked>>
        /\ TakeGroup(a, Kept(a) \ Ready(a))
    BY <1>4 DEF PassReads
  <2>2. \A b \in Agent : gate'[b].depth = gate[b].depth /\ Calm(b)
    BY <1>2, <2>1, EndPendingDepth
  <2> QED  BY <1>1, <2>1, <2>2, TakeGroupOwned
<1>5. CASE PassDrops(a)
  <2> DEFINE none == Of(a, pending') = {}
  <2>1. EndPendingPrimary(a, ReleasedGate(a), NoHold, none) /\ UNCHANGED <<frames, token, parked>>
        /\ TakeGroup(a, Kept(a) \ Ready(a))
    BY <1>5 DEF PassDrops
  <2> HIDE DEF none
  <2>2. \A b \in Agent : gate'[b].depth = gate[b].depth /\ Calm(b)
    BY <1>2, <2>1, EndPendingDepth
  <2> QED  BY <1>1, <2>1, <2>2, TakeGroupOwned
<1>6. CASE PassStopped(a)
  <2>1. UNCHANGED <<gate, aux, frames, token, parked>> /\ TakeGroup(a, Kept(a) \ Ready(a))
    BY <1>6 DEF PassStopped
  <2> QED  BY <1>1, <2>1, SameCalm, TakeGroupOwned
<1> QED  BY <1>3, <1>4, <1>5, <1>6

(* A wake arrives; the pass begins or ends.                                 *)
LEMMA ArrivesQueues ==
    ASSUME TypeOK, NEW w \in Wake, WakeArrives(w), NEW b \in Agent
    PROVE  /\ Pend(b)' = Pend(b) \cup
                (IF b = AgentOf[w] THEN {Request1(AgentOf[w], "wake", {w})} ELSE {})
           /\ Pas(b)' = Pas(b) /\ Held(b)' = Held(b) /\ Park(b)' = Park(b)
<1> DEFINE R == {Request1(AgentOf[w], "wake", {w})}
<1>1. pending' = pending \cup R /\ UNCHANGED <<pass, hold, parked>>
  BY DEF WakeArrives
<1>2. Of(b, R) = IF b = AgentOf[w] THEN R ELSE {}
  BY OfNew
<1> HIDE DEF R
<1>3. Of(b, pending \cup R) = Of(b, pending) \cup Of(b, R)
  BY OfSets
<1>4. /\ Pend(b)' = Pend(b) \cup (IF b = AgentOf[w] THEN R ELSE {})
      /\ Pas(b)' = Pas(b) /\ Held(b)' = Held(b) /\ Park(b)' = Park(b)
  BY <1>1, <1>2, <1>3 DEF Pend, Pas, Held, Park
<1> QED  BY <1>4 DEF R

LEMMA WakesCarryNothing ==
    ASSUME NEW k \in {"wake", "auto"}, NEW reads
    PROVE  [kind |-> k, reads |-> reads] \notin Carrying
BY DEF Carrying, Continues

LEMMA ArrivesOwned ==
    ASSUME OInv, NEW w \in Wake, WakeArrives(w)
    PROVE  Owners'
<1> USE DEF OInv
<1>1. UNCHANGED <<closed, frames, token, gate, aux>>
  BY DEF WakeArrives, host
<1>2. ASSUME NEW b \in Agent
      PROVE  Owned(b)'
  <2>1. Owned(b) /\ Quiet(b)
    BY <1>1, SameFramesQuiet, SameCalm DEF Owners
  <2>2. CASE b = AgentOf[w]
    <3> DEFINE R == {Request1(AgentOf[w], "wake", {w})}
    <3>1. Single(R, Carrying) /\ ~Has(R, Carrying)
      BY OneHas, WakesCarryNothing
    <3>2. /\ Pend(b)' = Pend(b) \cup R
          /\ Pas(b)' = Pas(b) /\ Held(b)' = Held(b) /\ Park(b)' = Park(b)
      BY <2>2, ArrivesQueues
    <3> HIDE DEF R
    <3>3. Loose(b, Carrying)' /\ (Anywhere(b, Carrying)' => Anywhere(b, Carrying))
      BY <2>1, <3>1, <3>2, AddsPending DEF Owned, OneTurn
    <3> QED  BY <2>1, <3>2, <3>3, QuietOwned DEF Owned
  <2>3. CASE b # AgentOf[w]
    <3>1. SameQueues(b)
      BY <2>3, ArrivesQueues DEF SameQueues
    <3> QED  BY <2>1, <3>1, UntouchedOwned
  <2> QED  BY <2>2, <2>3
<1>3. Distinct'
  BY <1>1, StillDistinct DEF Owners
<1> QED  BY <1>2, <1>3 DEF Owners

LEMMA PassTurnsOwned ==
    ASSUME OInv, PassBegins \/ PassEnds
    PROVE  Owners'
<1> USE DEF OInv
<1>1. UNCHANGED <<closed, frames, token, gate, aux, parked, hold>>
  BY DEF PassBegins, PassEnds, host
<1>2. ASSUME NEW b \in Agent
      PROVE  Owned(b)'
  <2>1. Owned(b) /\ Quiet(b)
    BY <1>1, SameFramesQuiet, SameCalm DEF Owners
  <2>2. Held(b)' = Held(b) /\ Park(b)' = Park(b)
    BY <1>1 DEF Held, Park
  <2>3. CASE PassBegins
    <3>1. Pend(b)' = {} /\ Pas(b)' = Pend(b)
      BY <2>3 DEF PassBegins, Pend, Pas, Of
    <3>2. Loose(b, Carrying)' /\ (Anywhere(b, Carrying)' => Anywhere(b, Carrying))
      BY <2>1, <2>2, <3>1, PassBeginsLoose DEF Owned, OneTurn
    <3> QED  BY <2>1, <2>2, <3>2, QuietOwned DEF Owned
  <2>4. CASE PassEnds
    <3>1. SameQueues(b)
      BY <2>2, <2>4 DEF PassEnds, SameQueues, Pend, Pas
    <3> QED  BY <2>1, <3>1, UntouchedOwned
  <2> QED  BY <2>3, <2>4
<1>3. Distinct'
  BY <1>1, StillDistinct DEF Owners
<1> QED  BY <1>2, <1>3 DEF Owners

(* Holds that keep what the pass brings.                                    *)
LEMMA HoldQueues ==
    ASSUME TypeOK, NEW a \in Agent, PassHolds(a) \/ PassWaits(a), NEW b \in Agent
    PROVE  /\ Pend(b)' = Pend(b) /\ Park(b)' = Park(b)
           /\ Pas(b)' = IF b = a THEN {} ELSE Pas(b)
           /\ b # a => Held(b)' = Held(b)
           /\ PassHolds(a) => Held(a)' = Held(a) \cup Pas(a)
           /\ PassWaits(a) => Held(a)' = IF closed THEN {} ELSE Singly(a, Unheld(a))
<1>1. pass' = pass \ Of(a, pass) /\ UNCHANGED <<pending, parked>>
  BY DEF PassHolds, PassWaits
<1>2. Of(b, pass') = IF b = a THEN {} ELSE Pas(b)
  BY <1>1, OfTaken DEF Pas
<1>3. b # a => Held(b)' = Held(b)
  BY DEF PassHolds, PassWaits, Held, TypeOK
<1>4. PassHolds(a) => Held(a)' = Held(a) \cup Pas(a)
  <2>1. hold[a] \in Hold /\ hold \in [Agent -> Hold]
    BY DEF TypeOK
  <2>2. Adding(hold[a], Of(a, pass)).held = hold[a].held \cup Of(a, pass)
    BY <2>1 DEF Adding, Hold
  <2> QED  BY <2>1, <2>2 DEF PassHolds, Held, Pas
<1>5. PassWaits(a) => Held(a)' = IF closed THEN {} ELSE Singly(a, Unheld(a))
  <2>1. hold \in [Agent -> Hold]
    BY DEF TypeOK
  <2>2. /\ NoHold.held = {}
        /\ [NoHold EXCEPT !.kind = "wait", !.held = Singly(a, Unheld(a))].held = Singly(a, Unheld(a))
    BY DEF NoHold
  <2> QED  BY <2>1, <2>2 DEF PassWaits, Held
<1> QED  BY <1>1, <1>2, <1>3, <1>4, <1>5 DEF Pend, Park, Pas

LEMMA PassKeepsOwned ==
    ASSUME OInv, NEW a \in Agent, PassHolds(a) \/ PassWaits(a)
    PROVE  Owners'
<1> USE DEF OInv
<1>1. UNCHANGED <<closed, frames, token, aux>>
  BY DEF PassHolds, PassWaits, host
<1>2. \A b \in Agent : gate'[b].depth = gate[b].depth
  BY ReleasedDepth DEF PassHolds, PassWaits, TypeOK
<1>3. ASSUME NEW b \in Agent
      PROVE  Owned(b)'
  <2>1. Owned(b) /\ Quiet(b)
    BY <1>1, <1>2, SameFramesQuiet, SameCalm DEF Owners
  <2>2. CASE b # a
    <3>1. SameQueues(b)
      BY <2>2, HoldQueues DEF SameQueues
    <3> QED  BY <2>1, <3>1, UntouchedOwned
  <2>3. CASE b = a /\ PassHolds(a)
    <3>1. Loose(a, Carrying)' /\ (Anywhere(a, Carrying)' => Anywhere(a, Carrying))
      <4>1. Loose(a, Carrying)
        BY <2>1, <2>3 DEF Owned, OneTurn
      <4> QED  BY <2>3, <4>1, HoldQueues, HoldsLoose
    <3>2. \A r \in Held(a)' : r.agent = a
      BY <2>1, <2>3, HoldQueues DEF Owned, Pas, Of
    <3>3. Park(a)' = Park(a)
      BY HoldQueues
    <3> QED  BY <2>1, <2>3, <3>1, <3>2, <3>3, QuietOwned
  <2>4. CASE b = a /\ PassWaits(a)
    <3> DEFINE kept == IF closed THEN {} ELSE Unheld(a)
    <3>1. Held(a)' = Singly(a, kept)
      BY <2>4, HoldQueues DEF Singly
    <3>2. Loose(a, Carrying)' /\ (Anywhere(a, Carrying)' => Anywhere(a, Carrying))
      <4>1. Loose(a, Carrying)
        BY <2>1, <2>4 DEF Owned, OneTurn
      <4>2. CASE ~closed
        BY <2>4, <4>1, <4>2, HoldQueues, WaitsLoose
      <4>3. CASE closed
        <5>1. Held(a)' = {} /\ Pas(a)' = {} /\ Pend(a)' = Pend(a)
          BY <2>4, <4>3, HoldQueues
        <5> QED  BY <4>1, <5>1 DEF Loose, Anywhere, Has, Single
      <4> QED  BY <4>2, <4>3
    <3>3. \A r \in Held(a)' : r.agent = a
      BY <3>1 DEF Singly
    <3>4. Park(a)' = Park(a)
      BY HoldQueues
    <3> QED  BY <2>1, <2>4, <3>2, <3>3, <3>4, QuietOwned
  <2> QED  BY <2>2, <2>3, <2>4
<1>4. Distinct'
  BY <1>1, StillDistinct DEF Owners
<1> QED  BY <1>3, <1>4 DEF Owners

(* A wait or a hold ends.                                                   *)
LEMMA ExpiresQueues ==
    ASSUME OInv, NEW a \in Agent, HoldExpires(a), NEW b \in Agent
    PROVE  /\ Pas(b)' = Pas(b) /\ Park(b)' = Park(b)
           /\ b # a => Pend(b)' = Pend(b) /\ Held(b)' = Held(b)
           /\ Held(a)' = {}
           /\ \/ Held(a) = {} /\ Pend(a)' = Pend(a)
              \/ Pend(a)' = Pend(a) \cup Held(a)
              \/ Held(a) = {} /\ Pend(a)' = Pend(a) \cup {Request1(a, "wake", {})}
<1> USE DEF OInv
<1>1. UNCHANGED <<pass, parked>> /\ hold' = [hold EXCEPT ![a] = NoHold]
  BY DEF HoldExpires
<1>2. Held(a)' = {} /\ (b # a => Held(b)' = Held(b))
  BY <1>1 DEF TypeOK, NoHold, Held
<1>3. \/ Held(a) = {} /\ UNCHANGED pending
      \/ pending' = pending \cup GivenBack(a)
  BY DEF HoldExpires, Held
<1>4. \A r \in Held(a) : r.agent = a
  BY DEF Owners, Owned
<1>5. Request1(a, "wake", {}).agent = a
  BY DEF Request1
<1>6. /\ Of(a, pending \cup GivenBack(a)) = Pend(a) \cup GivenBack(a)
      /\ b # a => Of(b, pending \cup GivenBack(a)) = Pend(b)
  BY <1>4, <1>5 DEF Of, Pend, GivenBack, Held
<1>7. GivenBack(a) = IF Held(a) # {} THEN Held(a) ELSE {Request1(a, "wake", {})}
  BY DEF GivenBack, Held
<1> HIDE DEF OInv
<1> QED  BY <1>1, <1>2, <1>3, <1>6, <1>7 DEF Pend, Pas, Park

LEMMA HoldEndsOwned ==
    ASSUME OInv, NEW a \in Agent, WaitEnds(a) \/ HoldExpires(a)
    PROVE  Owners'
<1>1. UNCHANGED <<closed, frames, token>>
  BY DEF WaitEnds, HoldExpires, host
<1>2. \A b \in Agent : gate'[b].depth = gate[b].depth /\ Calm(b)
  <2>1. CASE WaitEnds(a)
    BY <2>1, SameCalm DEF WaitEnds
  <2>2. CASE HoldExpires(a)
    <3>1. gate \in [Agent -> Gate] /\ gate[a] \in Gate
      BY DEF OInv, TypeOK
    <3>2. Ended(gate[a]).depth = gate[a].depth /\ ReleasedGate(a).depth = gate[a].depth
      BY <3>1, GateDepths, ReleasedDepth DEF OInv
    <3>3. PICK g \in {gate[a], Ended(gate[a]), ReleasedGate(a)} :
            gate' = [gate EXCEPT ![a] = g] /\ (Flush(a, g, NoHold) \/ UNCHANGED aux)
      BY <2>2 DEF HoldExpires
    <3>4. \A b \in Agent : gate'[b].depth = gate[b].depth
      BY <3>1, <3>2, <3>3
    <3> QED  BY <3>3, <3>4, FlushCalm, SameCalm DEF OInv
  <2> QED  BY <2>1, <2>2
<1>3. ASSUME NEW b \in Agent
      PROVE  Owned(b)'
  <2>1. Owned(b) /\ Quiet(b)
    BY <1>1, <1>2, SameFramesQuiet DEF OInv, Owners
  <2>2. CASE WaitEnds(a)
    <3>1. SameQueues(b)
      BY <2>2 DEF WaitEnds, SameQueues, Pend, Pas, Held, Park, work
    <3> QED  BY <2>1, <3>1, UntouchedOwned
  <2>3. CASE HoldExpires(a) /\ b # a
    <3>1. SameQueues(b)
      BY <2>3, ExpiresQueues DEF SameQueues
    <3> QED  BY <2>1, <3>1, UntouchedOwned
  <2>4. CASE HoldExpires(a) /\ b = a
    <3>1. Loose(a, Carrying)
      BY <2>1, <2>4 DEF Owned, OneTurn
    <3>2. /\ Held(a)' = {} /\ Pas(a)' = Pas(a) /\ Park(a)' = Park(a)
          /\ \/ Held(a) = {} /\ Pend(a)' = Pend(a)
             \/ Pend(a)' = Pend(a) \cup Held(a)
             \/ Held(a) = {} /\ Pend(a)' = Pend(a) \cup {Request1(a, "wake", {})}
      BY <2>4, ExpiresQueues
    <3>3. Loose(a, Carrying)' /\ (Anywhere(a, Carrying)' => Anywhere(a, Carrying))
      <4>1. CASE Held(a) = {} /\ Pend(a)' = Pend(a)
        BY <3>1, <3>2, <4>1, SameLoose
      <4>2. CASE Pend(a)' = Pend(a) \cup Held(a)
        BY <3>1, <3>2, <4>2, GivesBackLoose
      <4>3. CASE Held(a) = {} /\ Pend(a)' = Pend(a) \cup {Request1(a, "wake", {})}
        <5> DEFINE R == {Request1(a, "wake", {})}
        <5>1. Single(R, Carrying) /\ ~Has(R, Carrying)
          BY OneHas, WakesCarryNothing
        <5> HIDE DEF R
        <5>2. Pend(a)' = Pend(a) \cup R /\ Pas(a)' = Pas(a) /\ Held(a)' = Held(a)
          BY <3>2, <4>3 DEF R
        <5> QED  BY <3>1, <5>1, <5>2, AddsPending
      <4> QED  BY <3>2, <4>1, <4>2, <4>3
    <3> QED  BY <2>1, <2>4, <3>2, <3>3, QuietOwned
  <2> QED  BY <2>2, <2>3, <2>4
<1>4. Distinct'
  BY <1>1, StillDistinct DEF OInv, Owners
<1> QED  BY <1>3, <1>4 DEF Owners

-----------------------------------------------------------------------------
(* A wake withdrawn.                                                        *)

(* Some of the requests R, those of M, left without the wake.               *)
Partly(w, R, M) == (R \ M) \cup Without(w, R \cap M)

LEMMA PartlyHas ==
    ASSUME NEW R \in SUBSET Request, NEW M, NEW w, NEW P
    PROVE  /\ Has(Partly(w, R, M), P) => Has(R, P)
           /\ Single(R, P) => Single(Partly(w, R, M), P)
           /\ Partly(w, R, M) \subseteq Request
<1> DEFINE A == R \ M
           B == R \cap M
           C == Without(w, B)
<1>1. R = A \cup B /\ A \subseteq R /\ B \subseteq R /\ A \in SUBSET Request /\ B \in SUBSET Request
  OBVIOUS
<1>2. /\ Has(C, P) => Has(B, P)
      /\ Single(B, P) => Single(C, P)
      /\ C \subseteq Request
  BY <1>1, WithoutHas, WithoutType
<1>3. Single(R, P) => Single(A, P) /\ Single(B, P) /\ ~(Has(A, P) /\ Has(B, P))
  BY DEF Single, Has
<1>4. Partly(w, R, M) = A \cup C
  BY DEF Partly
<1>5. Has(A, P) \/ Has(B, P) => Has(R, P)
  BY <1>1, FewerRequests
<1> HIDE DEF A, B, C
<1>6. /\ Has(A \cup C, P) <=> Has(A, P) \/ Has(C, P)
      /\ Single(A, P) /\ Single(C, P) /\ ~(Has(A, P) /\ Has(C, P)) => Single(A \cup C, P)
  BY TogetherRequests
<1> QED  BY <1>1, <1>2, <1>3, <1>4, <1>5, <1>6

LEMMA OfPartly ==
    ASSUME NEW a, NEW w, NEW R \in SUBSET Request, NEW M
    PROVE  Of(a, Partly(w, R, M)) = Partly(w, Of(a, R), M)
<1>1. Of(a, Without(w, R \cap M)) = Without(w, Of(a, R \cap M))
  BY OfWithout
<1>2. Of(a, R \cap M) = Of(a, R) \cap M /\ Of(a, R \ M) = Of(a, R) \ M
  BY DEF Of
<1>3. Of(a, Partly(w, R, M)) = Of(a, R \ M) \cup Of(a, Without(w, R \cap M))
  BY OfSets DEF Partly
<1> QED  BY <1>1, <1>2, <1>3 DEF Partly

LEMMA PartlyAll ==
    ASSUME NEW w, NEW R
    PROVE  Without(w, R) = Partly(w, R, R)
<1>1. R \cap R = R /\ R \ R = {}
  OBVIOUS
<1> QED  BY <1>1 DEF Partly

(* A batch with more than the wake, or that carries a turn on, stays.       *)
LEMMA BatchStays ==
    ASSUME NEW w, NEW r \in Request, ContinuesTurn(r) \/ Cardinality(r.parts) > 1
    PROVE  \E p \in r.parts : ~IsWake(w, p)
<1>1. CASE ContinuesTurn(r)
  BY <1>1 DEF ContinuesTurn, Continues, IsWake
<1>2. CASE ~ContinuesTurn(r)
  <2> SUFFICES ASSUME \A p \in r.parts : IsWake(w, p)
               PROVE  FALSE
    OBVIOUS
  <2> DEFINE only == [kind |-> "wake", reads |-> {w}]
  <2>1. \A p \in r.parts : p = only
    BY DEF Request, Part, IsWake
  <2> HIDE DEF only
  <2>2. r.parts = {} \/ r.parts = {only}
    BY <2>1
  <2>3. Cardinality({}) = 0 /\ Cardinality({only}) = 1
    BY FS_EmptySet, FS_Singleton
  <2> QED  BY <1>2, <2>2, <2>3
<1> QED  BY <1>1, <1>2

(* One request left without the wake is one or none, and one if it stays.   *)
LEMMA PartlyOne ==
    ASSUME NEW w, NEW r \in Request, NEW M,
           r \in M => \E p \in r.parts : ~IsWake(w, p)
    PROVE  Partly(w, {r}, M) # {} /\ \A s, t \in Partly(w, {r}, M) : s = t
<1>1. CASE r \notin M
  <2>1. {r} \ M = {r} /\ {r} \cap M = {}
    BY <1>1
  <2>2. Without(w, {}) = {}
    BY DEF Without
  <2> QED  BY <2>1, <2>2 DEF Partly
<1>2. CASE r \in M
  <2> DEFINE left == [r EXCEPT !.parts = {p \in @ : ~IsWake(w, p)}]
  <2>1. {r} \ M = {} /\ {r} \cap M = {r}
    BY <1>2
  <2>2. left.parts = {p \in r.parts : ~IsWake(w, p)}
    BY DEF Request
  <2>3. left.parts # {}
    BY <1>2, <2>2
  <2>4. Without(w, {r}) = {left}
    BY <2>3 DEF Without
  <2> HIDE DEF left
  <2> QED  BY <2>1, <2>4 DEF Partly
<1> QED  BY <1>1, <1>2

(* What withdrawing a wake does to each agent's requests.                   *)
LEMMA WithdrawQueues ==
    ASSUME TypeOK, NEW w \in Wake, Withdraw(w), NEW b \in Agent
    PROVE  \E m : /\ Pend(b)' = Partly(w, Pend(b), Pend(b)) /\ Held(b)' = Partly(w, Held(b), Held(b))
                  /\ Pas(b)' = Partly(w, Pas(b), m) /\ Park(b)' = Partly(w, Park(b), m)
                  /\ \A r \in m : ContinuesTurn(r) \/ Cardinality(r.parts) > 1
                  /\ {r \in pass : Cardinality(r.parts) > 1} \subseteq m
                  /\ {r \in parked : ContinuesTurn(r)} \subseteq m
<1> DEFINE m == {r \in parked : ContinuesTurn(r)} \cup {r \in pass : Cardinality(r.parts) > 1}
<1>1. /\ pending' = Without(w, pending)
      /\ pass' = Partly(w, pass, m)
      /\ parked' = Partly(w, parked, m)
      /\ hold'[b].held = Without(w, hold[b].held)
  <2>1. hold[b] \in Hold
    BY DEF TypeOK
  <2>2. hold'[b].held = Without(w, hold[b].held)
    BY <2>1 DEF Withdraw, Hold
  <2> QED  BY <2>2 DEF Withdraw, Partly
<1>2. pending \in SUBSET Request /\ pass \in SUBSET Request /\ parked \in SUBSET Request
  BY DEF TypeOK
<1>3. /\ \A r \in m : ContinuesTurn(r) \/ Cardinality(r.parts) > 1
      /\ {r \in pass : Cardinality(r.parts) > 1} \subseteq m
      /\ {r \in parked : ContinuesTurn(r)} \subseteq m
  OBVIOUS
<1> HIDE DEF m
<1>4. /\ Of(b, pending') = Partly(w, Pend(b), Pend(b))
      /\ Of(b, pass') = Partly(w, Pas(b), m)
      /\ Of(b, parked') = Partly(w, Park(b), m)
      /\ hold'[b].held = Partly(w, Held(b), Held(b))
  BY <1>1, <1>2, OfWithout, OfPartly, PartlyAll DEF Pend, Pas, Park, Held
<1> QED  BY <1>3, <1>4 DEF Pend, Pas, Park, Held

LEMMA PartlyLoose ==
    ASSUME NEW b, NEW P, Loose(b, P), NEW w, NEW m,
           Pend(b) \in SUBSET Request, Held(b) \in SUBSET Request, Pas(b) \in SUBSET Request,
           Pend(b)' = Partly(w, Pend(b), Pend(b)), Held(b)' = Partly(w, Held(b), Held(b)),
           Pas(b)' = Partly(w, Pas(b), m)
    PROVE  Loose(b, P)' /\ (Anywhere(b, P)' => Anywhere(b, P))
<1>1. /\ Has(Partly(w, Pend(b), Pend(b)), P) => Has(Pend(b), P)
      /\ Has(Partly(w, Held(b), Held(b)), P) => Has(Held(b), P)
      /\ Has(Partly(w, Pas(b), m), P) => Has(Pas(b), P)
  BY PartlyHas
<1>2. /\ Single(Partly(w, Pend(b), Pend(b)), P)
      /\ Single(Partly(w, Held(b), Held(b)), P)
      /\ Single(Partly(w, Pas(b), m), P)
  BY PartlyHas DEF Loose
<1>3. /\ Has(Pend(b), P)' <=> Has(Partly(w, Pend(b), Pend(b)), P)
      /\ Has(Held(b), P)' <=> Has(Partly(w, Held(b), Held(b)), P)
      /\ Has(Pas(b), P)' <=> Has(Partly(w, Pas(b), m), P)
  BY DEF Has
<1>4. /\ Single(Pend(b), P)' <=> Single(Partly(w, Pend(b), Pend(b)), P)
      /\ Single(Held(b), P)' <=> Single(Partly(w, Held(b), Held(b)), P)
      /\ Single(Pas(b), P)' <=> Single(Partly(w, Pas(b), m), P)
  BY DEF Single
<1> QED  BY <1>1, <1>2, <1>3, <1>4 DEF Loose, Anywhere

(* The requests of an agent are requests.                                   *)
LEMMA QueuesTyped ==
    ASSUME TypeOK, NEW b \in Agent
    PROVE  /\ Pend(b) \in SUBSET Request /\ Pas(b) \in SUBSET Request
           /\ Held(b) \in SUBSET Request /\ Park(b) \in SUBSET Request
<1>1. hold[b] \in Hold
  BY DEF TypeOK
<1> QED  BY <1>1 DEF TypeOK, Pend, Pas, Park, Held, Of, Hold

LEMMA WithdrawOwned ==
    ASSUME OInv, NEW w \in Wake, Withdraw(w)
    PROVE  Owners'
<1>1. UNCHANGED <<closed, frames, token, gate, aux>>
  BY DEF Withdraw, host
<1>2. ASSUME NEW b \in Agent
      PROVE  Owned(b)'
  <2>1. Owned(b) /\ Quiet(b) /\ TypeOK
    BY <1>1, SameFramesQuiet, SameCalm DEF OInv, Owners
  <2>2. PICK m : /\ Pend(b)' = Partly(w, Pend(b), Pend(b)) /\ Held(b)' = Partly(w, Held(b), Held(b))
                 /\ Pas(b)' = Partly(w, Pas(b), m) /\ Park(b)' = Partly(w, Park(b), m)
                 /\ \A r \in m : ContinuesTurn(r) \/ Cardinality(r.parts) > 1
    BY <2>1, WithdrawQueues
  <2>3. /\ Pend(b) \in SUBSET Request /\ Pas(b) \in SUBSET Request
        /\ Held(b) \in SUBSET Request /\ Park(b) \in SUBSET Request
    BY <2>1, QueuesTyped
  <2>4. Loose(b, Carrying)' /\ (Anywhere(b, Carrying)' => Anywhere(b, Carrying))
    BY <2>1, <2>2, <2>3, PartlyLoose DEF Owned, OneTurn
  <2>5. Single(Park(b), Carrying)'
    <3>1. Single(Partly(w, Park(b), m), Carrying)
      BY <2>1, <2>3, PartlyHas DEF Owned, OneTurn
    <3> QED  BY <2>2, <3>1 DEF Single
  <2>6. (\A r, s \in Park(b)' : r = s) /\ ((Park(b) = {})' <=> Park(b) = {})
    <3>1. CASE Park(b) = {}
      <4>1. Park(b)' = {}
        BY <2>2, <3>1 DEF Partly, Without
      <4> QED  BY <3>1, <4>1
    <3>2. CASE Park(b) # {}
      <4>1. PICK r : Park(b) = {r}
        BY <2>1, <3>2 DEF Owned, OneTurn
      <4>2. r \in Request
        BY <2>3, <4>1
      <4>3. Partly(w, {r}, m) # {} /\ \A s, t \in Partly(w, {r}, m) : s = t
        <5>1. r \in m => \E p \in r.parts : ~IsWake(w, p)
          BY <2>2, <4>2, BatchStays
        <5> QED  BY <4>2, <5>1, PartlyOne
      <4> QED  BY <2>2, <3>2, <4>1, <4>3
    <3> QED  BY <3>1, <3>2
  <2>7. \A r \in Held(b)' : r.agent = b
    <3>1. \A r \in Held(b) : r.agent = b
      BY <2>1 DEF Owned
    <3>2. \A r \in Held(b)' : \E s \in Held(b) : r.agent = s.agent
      <4>1. Held(b)' = Without(w, Held(b))
        BY <2>2, PartlyAll
      <4>2. \A s \in Held(b) : [s EXCEPT !.parts = {p \in @ : ~IsWake(w, p)}].agent = s.agent
        BY <2>3 DEF Request
      <4> QED  BY <4>1, <4>2 DEF Without
    <3> QED  BY <3>1, <3>2
  <2>8. LiveToks(b)' \subseteq {token[b]}' /\ Balanced(b)' /\ Excluded(b)'
    BY <2>1, <2>6, QuietSide
  <2>9. OneTurn(b)'
    BY <2>1, <2>4, <2>5, <2>6, <2>8 DEF Owned, OneTurn, Quiet
  <2> QED  BY <2>7, <2>8, <2>9 DEF Owned
<1>3. Distinct'
  BY <1>1, StillDistinct DEF OInv, Owners
<1> QED  BY <1>2, <1>3 DEF Owners

-----------------------------------------------------------------------------
(* Frames on their way.                                                     *)

(* A frame of the agent changes in place or ends and the agent's requests   *)
(* stay, or a request that carries nothing is queued or held.               *)
LEMMA FrameTyped ==
    ASSUME TypeOK, NEW f \in frames
    PROVE  f \in Frame /\ f.agent \in Agent /\ f.tok \in Token /\ f.tok \in Toks(f.agent)
BY DEF TypeOK, Frame, Toks, FramesOf

(* The frame becomes one that is no more live than it was.                  *)
LEMMA BecomeQuiet ==
    ASSUME TypeOK, Distinct, NEW f \in frames, NEW g, g.tok = f.tok, g.agent = f.agent,
           Living(g) => Living(f), Become(f, g),
           UNCHANGED <<token, closed>>, NEW b \in Agent, Calm(b), gate'[b].depth = gate[b].depth
    PROVE  Quiet(b) /\ Distinct'
<1>1. /\ Distinct' /\ Toks(b)' = Toks(b)
      /\ b # f.agent => LiveToks(b)' = LiveToks(b)
      /\ LiveToks(f.agent)' = (LiveToks(f.agent) \ {f.tok}) \cup (IF Living(g) THEN {f.tok} ELSE {})
  BY BecomeToks
<1>2. Living(f) => f.tok \in LiveToks(f.agent)
  BY DEF LiveToks, FramesOf
<1> QED  BY <1>1, <1>2 DEF Quiet

(* What the frame turns into.                                               *)
Changes(f) ==
    {[f EXCEPT !.phase = "ending"], [f EXCEPT !.phase = "backoff"],
     [f EXCEPT !.phase = "backoff", !.attempt = @ + 1],
     [f EXCEPT !.stop = "shutdown"], [f EXCEPT !.stop = "caller"],
     [f EXCEPT !.stop = "budget_restart", !.reads = {}],
     [f EXCEPT !.stop = "turn_ended", !.reads = {}]}

LEMMA Becomings ==
    ASSUME NEW f \in Frame, NEW g \in Changes(f)
    PROVE  /\ g.tok = f.tok /\ g.agent = f.agent
           /\ g.phase = "ending" \/ g.stop \in Gone => ~Living(g)
BY DEF Frame, Living, Changes

(* Steps of a frame that only change the frame.                             *)
LEMMA FrameOnlyOwned ==
    ASSUME OInv, NEW f \in frames, NEW g, g.tok = f.tok, g.agent = f.agent,
           Living(g) => Living(f), Become(f, g), UNCHANGED <<token, closed, aux>>,
           \A b \in Agent : SameQueues(b) /\ gate'[b].depth = gate[b].depth
    PROVE  Owners'
<1>1. ASSUME NEW b \in Agent
      PROVE  Owned(b)' /\ Distinct'
  <2>1. Quiet(b) /\ Distinct'
    BY BecomeQuiet, SameCalm DEF OInv, Owners
  <2> QED  BY <2>1, UntouchedOwned DEF OInv, Owners
<1>2. f.agent \in Agent
  BY FrameTyped DEF OInv
<1> QED  BY <1>1, <1>2 DEF Owners

LEMMA FramesChangeOwned ==
    ASSUME OInv, NEW f \in frames,
           BeginStopped(f) \/ BeginWithdrawn(f) \/ FailsIntoRetry(f) \/ GuardRetries(f)
             \/ EndsTurn(f) \/ Aborted(f)
    PROVE  Owners'
<1>1. PICK g \in Changes(f) :
        Become(f, g) /\ (g.phase = "ending" \/ g.stop \in Gone \/ Living(f))
  <2>1. f \in Frame
    BY FrameTyped DEF OInv
  <2>2. [f EXCEPT !.phase = "ending"].phase = "ending"
    BY <2>1 DEF Frame
  <2>3. [f EXCEPT !.stop = "turn_ended", !.reads = {}].stop = "turn_ended"
    BY <2>1 DEF Frame
  <2> QED  BY <2>2, <2>3 DEF BeginStopped, BeginWithdrawn, FailsIntoRetry, GuardRetries, EndsTurn, Aborted,
                              Failing, Streams, Living, Changes, Gone
<1>2. f \in Frame
  BY FrameTyped DEF OInv
<1>3. g.tok = f.tok /\ g.agent = f.agent
      /\ (g.phase = "ending" \/ g.stop \in Gone => ~Living(g))
  BY <1>2, Becomings
<1>4. Living(g) => Living(f)
  BY <1>1, <1>3
<1>5. /\ UNCHANGED <<token, closed, aux, gate>>
      /\ \A b \in Agent : SameQueues(b)
  BY DEF BeginStopped, BeginWithdrawn, FailsIntoRetry, GuardRetries, EndsTurn, Aborted,
         QueueSame, work, host, SameQueues, Pend, Pas, Held, Park
<1> QED  BY <1>1, <1>3, <1>4, <1>5, FrameOnlyOwned

(* The turn completes; an autoContinue may be queued.                       *)
LEMMA CompletesOwned ==
    ASSUME OInv, NEW f \in frames, Completes(f)
    PROVE  Owners'
<1> DEFINE a == f.agent
           g == [f EXCEPT !.phase = "ending"]
           R == {Request1(a, "auto", {})}
<1>1. f \in Frame /\ a \in Agent /\ TypeOK /\ Distinct
  BY FrameTyped DEF OInv, Owners
<1>2. /\ Become(f, g) /\ UNCHANGED <<token, closed, aux, pass, parked, hold>>
      /\ UNCHANGED pending \/ pending' = pending \cup R
  BY DEF Completes, host
<1>3. \A b \in Agent : gate'[b].depth = gate[b].depth
  <2>1. gate[a] \in Gate /\ gate \in [Agent -> Gate]
    BY <1>1 DEF TypeOK
  <2> QED  BY <1>1, <2>1 DEF Completes, Gate
<1>4. g.tok = f.tok /\ g.agent = a /\ ~Living(g)
  <2>1. g.phase = "ending"
    BY <1>1 DEF Frame
  <2> QED  BY <1>1, <2>1, Becomings DEF Living, Changes
<1>5. Single(R, Carrying) /\ ~Has(R, Carrying)
  BY OneHas, WakesCarryNothing
<1>6. \A b : Of(b, R) = IF b = a THEN R ELSE {}
  BY OfNew
<1> HIDE DEF a, g, R
<1>7. ASSUME NEW b \in Agent
      PROVE  Owned(b)' /\ Distinct'
  <2>1. Quiet(b) /\ Distinct'
    BY <1>1, <1>2, <1>3, <1>4, BecomeQuiet, SameCalm DEF a
  <2>2. Pas(b)' = Pas(b) /\ Park(b)' = Park(b) /\ Held(b)' = Held(b)
    BY <1>2 DEF Pas, Park, Held
  <2>3. Owned(b)
    BY DEF OInv, Owners
  <2>4. CASE UNCHANGED pending \/ b # a
    <3>1. Pend(b)' = Pend(b)
      <4>1. Of(b, pending \cup R) = Of(b, pending) \cup Of(b, R)
        BY OfSets
      <4> QED  BY <1>2, <1>6, <2>4, <4>1 DEF Pend
    <3> QED  BY <2>1, <2>2, <2>3, <3>1, UntouchedOwned DEF SameQueues
  <2>5. CASE ~UNCHANGED pending /\ b = a
    <3>1. Pend(b)' = Pend(b) \cup R
      <4>1. Of(b, pending \cup R) = Of(b, pending) \cup Of(b, R)
        BY OfSets
      <4> QED  BY <1>2, <1>6, <2>5, <4>1 DEF Pend
    <3>2. Loose(b, Carrying)' /\ (Anywhere(b, Carrying)' => Anywhere(b, Carrying))
      BY <1>5, <2>2, <2>3, <3>1, AddsPending DEF Owned, OneTurn
    <3> QED  BY <2>1, <2>2, <2>3, <3>2, QuietOwned DEF Owned
  <2> QED  BY <2>4, <2>5
<1> QED  BY <1>1, <1>7 DEF Owners

(* The start streams.                                                       *)
LEMMA BeginStreamsOwned ==
    ASSUME OInv, NEW f \in frames, BeginStreams(f)
    PROVE  Owners'
<1> DEFINE streaming == [f EXCEPT !.phase = "streaming", !.inPass = FALSE, !.parent = NoToken]
           F == frames \ {f}
           K == ReturnTo(f, F)
<1>1. f \in Frame /\ f.agent \in Agent /\ TypeOK /\ Distinct
  BY FrameTyped DEF OInv, Owners
<1>2. /\ frames' = K \cup {streaming} /\ Living(f)
      /\ UNCHANGED <<token, closed, aux, gate>>
      /\ \A b \in Agent : SameQueues(b)
  BY DEF BeginStreams, QueueSame, work, host, SameQueues, Pend, Pas, Held, Park, Living, Gone
<1>3. streaming.tok = f.tok /\ streaming.agent = f.agent
  BY <1>1 DEF Frame
<1>4. /\ \A g \in K : \E h \in F : g.tok = h.tok /\ g.agent = h.agent /\ (Living(g) => Living(h))
      /\ \A h \in F : \E g \in K : g.tok = h.tok /\ g.agent = h.agent
      /\ \A g, h \in K : g.tok = h.tok => g = h
  BY <1>1, ReturnToImages
<1>5. \A h \in F : h.tok # f.tok
  BY <1>1 DEF Distinct
<1> HIDE DEF streaming, K
<1>6. Distinct'
  BY <1>2, <1>3, <1>4, <1>5 DEF Distinct
<1>7. \A g \in frames' : \E h \in frames :
        g.tok = h.tok /\ g.agent = h.agent /\ (Living(g) => Living(h))
  BY <1>2, <1>3, <1>4
<1>8. \A h \in frames : \E g \in frames' : g.tok = h.tok /\ g.agent = h.agent
  BY <1>2, <1>3, <1>4
<1>9. \A b \in Agent : Toks(b)' = Toks(b) /\ LiveToks(b)' \subseteq LiveToks(b)
  <2>1. \A b \in Agent : Toks(b) = {h.tok : h \in {k \in frames : k.agent = b}}
    BY DEF Toks, FramesOf
  <2> QED  BY <1>7, <1>8, <2>1, ImageToks
<1>10. ASSUME NEW b \in Agent
       PROVE  Owned(b)'
  <2>1. Quiet(b)
    BY <1>2, <1>9, SameCalm DEF Quiet
  <2> QED  BY <1>2, <2>1, UntouchedOwned DEF OInv, Owners
<1> QED  BY <1>6, <1>10 DEF Owners

-----------------------------------------------------------------------------
(* A turn goes from its frame to a request.                                 *)

(* The live frame of an agent is what carries its turn.                     *)
LEMMA LiveCarries ==
    ASSUME OInv, NEW f \in frames, Living(f)
    PROVE  LET a == f.agent
           IN  /\ a \in Agent /\ LiveToks(a) = {f.tok} /\ token[a] = f.tok
               /\ ~Anywhere(a, Carrying) /\ Park(a) = {}
<1>1. f.agent \in Agent
  BY FrameTyped DEF OInv
<1>2. f.tok \in LiveToks(f.agent)
  BY DEF LiveToks, FramesOf
<1> QED  BY <1>1, <1>2 DEF OInv, Owners, Owned, OneTurn

(* The live frame of an agent ends, or stops being live; what carries the   *)
(* turn on, if anything, is queued or held.                                 *)
LEMMA GivesOverOwned ==
    ASSUME OInv, NEW f \in frames, Living(f), NEW g, g.tok = f.tok, g.agent = f.agent,
           ~Living(g), Become(f, g), UNCHANGED <<token, closed, parked>>,
           \A b \in Agent : gate'[b].depth = gate[b].depth /\ Calm(b),
           \A b \in Agent : b # f.agent => SameQueues(b),
           Loose(f.agent, Carrying)', \A r \in Held(f.agent)' : r.agent = f.agent
    PROVE  Owners'
<1> DEFINE a == f.agent
<1>1. a \in Agent /\ LiveToks(a) = {f.tok} /\ Park(a) = {}
  BY LiveCarries
<1>2. LiveToks(a)' = {}
  BY <1>1, BecomeToks DEF OInv, Owners
<1>3. ASSUME NEW b \in Agent
      PROVE  Owned(b)' /\ Distinct'
  <2>1. Quiet(b) /\ Distinct' /\ Owned(b)
    BY BecomeQuiet DEF OInv, Owners
  <2>2. CASE b # a
    BY <2>1, <2>2, UntouchedOwned
  <2>3. CASE b = a
    <3>1. Park(a)' = {}
      BY <1>1 DEF Park
    <3>2. LiveToks(a)' \subseteq {token[a]}' /\ Balanced(a)' /\ Excluded(a)'
      BY <1>1, <2>1, <2>3, <3>1, QuietSide
    <3>3. OneTurn(a)'
      BY <1>2, <3>1, <3>2 DEF OneTurn, Single
    <3>4. \A r \in Held(a)' : r.agent = a
      OBVIOUS
    <3> HIDE DEF a
    <3> QED  BY <2>1, <2>3, <3>2, <3>3, <3>4 DEF Owned
  <2> QED  BY <2>2, <2>3
<1> QED  BY <1>1, <1>3 DEF Owners

(* A hold keeps what it is given.                                           *)
LEMMA HoldForWaitQueues ==
    ASSUME TypeOK, NEW a \in Agent, NEW R, HoldForWait(a, R), NEW b \in Agent
    PROVE  Held(b)' = IF b = a THEN Held(a) \cup R ELSE Held(b)
<1>1. hold \in [Agent -> Hold] /\ hold[a] \in Hold
  BY DEF TypeOK
<1>2. Adding(hold[a], R).held = hold[a].held \cup R
  BY <1>1 DEF Adding, Hold
<1>3. [NoHold EXCEPT !.kind = "wait", !.held = hold[a].held \cup R].held = hold[a].held \cup R
  BY DEF NoHold
<1> QED  BY <1>1, <1>2, <1>3 DEF HoldForWait, Held

(* The frame's turn is held with one request more.                          *)
LEMMA HeldOverOwned ==
    ASSUME OInv, NEW f \in frames, Living(f), NEW kind, NEW reads,
           Become(f, [f EXCEPT !.phase = "ending"]), UNCHANGED <<token, closed, work, parked, aux>>,
           \A b \in Agent : gate'[b].depth = gate[b].depth,
           \A b \in Agent : Held(b)' = IF b = f.agent THEN Held(b) \cup {Request1(f.agent, kind, reads)}
                                       ELSE Held(b)
    PROVE  Owners'
<1> DEFINE a == f.agent
           R == {Request1(a, kind, reads)}
           g == [f EXCEPT !.phase = "ending"]
<1>1. f \in Frame /\ a \in Agent /\ Loose(a, Carrying) /\ ~Anywhere(a, Carrying)
      /\ \A r \in Held(a) : r.agent = a
  BY FrameTyped, LiveCarries DEF OInv, Owners, Owned, OneTurn
<1>2. Single(R, Carrying)
  BY OneHas
<1>3. \A r \in R : r.agent = a
  BY DEF Request1
<1>4. g.tok = f.tok /\ g.agent = f.agent /\ ~Living(g)
  <2>1. g.phase = "ending"
    BY <1>1 DEF Frame
  <2> QED  BY <1>1, <2>1, Becomings DEF Living, Changes
<1>5. Become(f, g) /\ Held(a)' = Held(a) \cup R
      /\ \A b \in Agent : b # a => Held(b)' = Held(b)
  BY <1>1
<1> HIDE DEF R, g
<1>6. \A b \in Agent : Pend(b)' = Pend(b) /\ Pas(b)' = Pas(b) /\ Park(b)' = Park(b)
  BY DEF work, Pend, Pas, Park
<1>7. Loose(a, Carrying)'
  BY <1>1, <1>2, <1>5, <1>6, AddsHeld
<1>8. \A r \in Held(a)' : r.agent = a
  BY <1>1, <1>3, <1>5
<1>9. \A b \in Agent : Calm(b)
  BY SameCalm
<1>10. \A b \in Agent : b # a => SameQueues(b)
  BY <1>5, <1>6 DEF SameQueues
<1> QED  BY <1>4, <1>5, <1>7, <1>8, <1>9, <1>10, GivesOverOwned

LEMMA FailsHeldOwned ==
    ASSUME OInv, NEW f \in frames, BeginHeld(f) \/ FailsIntoHold(f) \/ FailsIntoWait(f)
    PROVE  Owners'
<1> DEFINE a == f.agent
           kind == IF f.restart THEN "restart" ELSE "retry"
<1>1. f \in Frame /\ a \in Agent /\ TypeOK
  BY FrameTyped DEF OInv
<1>2. /\ Living(f) /\ Become(f, [f EXCEPT !.phase = "ending"])
      /\ UNCHANGED <<token, closed, work, parked, aux>>
  BY DEF BeginHeld, FailsIntoHold, FailsIntoWait, Failing, Living, Gone, QueueSame, host
<1>3. \A b \in Agent : gate'[b].depth = gate[b].depth
  <2>1. gate \in [Agent -> Gate] /\ gate[a] \in Gate
    BY <1>1 DEF TypeOK
  <2> QED  BY <1>1, <2>1 DEF BeginHeld, FailsIntoHold, FailsIntoWait, Gate
<1>4. Continuation(f) = Request1(a, kind, f.reads)
  BY DEF Continuation
<1>5. \A b \in Agent : Held(b)' = IF b = a THEN Held(b) \cup {Continuation(f)} ELSE Held(b)
  <2>1. CASE BeginHeld(f) \/ FailsIntoWait(f)
    <3>1. HoldForWait(a, {Continuation(f)})
      BY <2>1 DEF BeginHeld, FailsIntoWait
    <3> QED  BY <1>1, <3>1, HoldForWaitQueues
  <2>2. CASE FailsIntoHold(f)
    BY <1>1, <2>2 DEF FailsIntoHold, TypeOK, Held
  <2> QED  BY <2>1, <2>2
<1> HIDE DEF kind
<1> QED  BY <1>2, <1>3, <1>4, <1>5, HeldOverOwned

(* An exhausted turn ends, or is sent again later.                          *)
LEMMA ExhaustedOwned ==
    ASSUME OInv, NEW f \in frames, FailsExhausted(f)
    PROVE  Owners'
<1> DEFINE a == f.agent
           g == [f EXCEPT !.phase = "ending"]
           again == Request1(a, "wake", f.reads)
<1>1. f \in Frame /\ a \in Agent /\ TypeOK
  BY FrameTyped DEF OInv
<1>2. /\ Living(f) /\ Become(f, g)
      /\ UNCHANGED <<token, closed, work, parked, aux, gate>>
  BY DEF FailsExhausted, Failing, Living, Gone, host
<1>3. CASE UNCHANGED hold
  <2>1. \A b \in Agent : SameQueues(b)
    BY <1>2, <1>3 DEF SameQueues, Pend, Pas, Held, Park, work
  <2>2. g.tok = f.tok /\ g.agent = f.agent
    BY <1>1, Becomings DEF Changes
  <2> QED  BY <1>2, <2>1, <2>2, FrameOnlyOwned
<1>4. CASE ~UNCHANGED hold
  <2>1. hold' = [hold EXCEPT ![a] =
                   IF hold[a].kind # "none" THEN Adding(hold[a], {again})
                   ELSE [NoHold EXCEPT !.kind = "rearm", !.held = {again}]]
    BY <1>4 DEF FailsExhausted
  <2>2. hold \in [Agent -> Hold] /\ hold[a] \in Hold
    BY <1>1 DEF TypeOK
  <2>3. Adding(hold[a], {again}).held = Held(a) \cup {again}
    BY <2>2 DEF Adding, Hold, Held
  <2>4. [NoHold EXCEPT !.kind = "rearm", !.held = {again}].held = {again}
    BY DEF NoHold
  <2>5. CASE hold[a].kind # "none"
    <3>1. \A b \in Agent : Held(b)' = IF b = a THEN Held(b) \cup {again} ELSE Held(b)
      BY <1>1, <2>1, <2>2, <2>3, <2>5 DEF Held
    <3> QED  BY <1>2, <3>1, HeldOverOwned
  <2>6. CASE hold[a].kind = "none"
    <3>1. \A b \in Agent : Held(b)' = IF b = a THEN {again} ELSE Held(b)
      BY <1>1, <2>1, <2>2, <2>4, <2>6 DEF Held
    <3>2. g.tok = f.tok /\ g.agent = f.agent /\ ~Living(g)
      <4>1. g.phase = "ending"
        BY <1>1 DEF Frame
      <4> QED  BY <1>1, <4>1, Becomings DEF Living, Changes
    <3>3. \A b \in Agent : Pend(b)' = Pend(b) /\ Pas(b)' = Pas(b) /\ Park(b)' = Park(b)
      BY <1>2 DEF work, Pend, Pas, Park
    <3>4. Single({again}, Carrying) /\ ~Has({again}, Carrying) /\ again.agent = a
      BY OneHas, WakesCarryNothing DEF Request1
    <3> HIDE DEF again, g
    <3>5. Loose(a, Carrying)' /\ \A r \in Held(a)' : r.agent = a
      <4>1. Loose(a, Carrying)
        BY <1>1 DEF OInv, Owners, Owned, OneTurn
      <4>2. Pend(a)' = Pend(a) /\ Pas(a)' = Pas(a) /\ Held(a)' = {again}
        BY <1>1, <3>1, <3>3
      <4> QED  BY <3>4, <4>1, <4>2 DEF Loose, Has, Single
    <3>6. \A b \in Agent : (b # a => SameQueues(b)) /\ Calm(b) /\ gate'[b].depth = gate[b].depth
      BY <1>2, <3>1, <3>3, SameCalm DEF SameQueues
    <3> QED  BY <1>2, <3>2, <3>5, <3>6, GivesOverOwned DEF g
  <2> QED  BY <2>5, <2>6
<1> QED  BY <1>3, <1>4

(* A turn over its budget goes on by a restart.                             *)
LEMMA BudgetOwned ==
    ASSUME OInv, NEW f \in frames, BudgetRestarts(f)
    PROVE  Owners'
<1> DEFINE a == f.agent
           R == {Request1(a, "restart", f.reads)}
           cut == [f EXCEPT !.stop = "budget_restart", !.reads = {}]
           down == [f EXCEPT !.stop = "shutdown"]
<1>1. f \in Frame /\ a \in Agent /\ Living(f)
      /\ UNCHANGED <<token, closed, pass, parked, hold, aux, gate>>
  BY FrameTyped DEF OInv, BudgetRestarts, Streams, Living, Gone, host
<1>2. /\ cut.tok = f.tok /\ cut.agent = a /\ cut.stop = "budget_restart"
      /\ down.tok = f.tok /\ down.agent = a /\ down.stop = "shutdown"
  BY <1>1 DEF Frame
<1>3. CASE closed
  <2>1. Become(f, down) /\ UNCHANGED pending
    BY <1>3 DEF BudgetRestarts
  <2>2. \A b \in Agent : SameQueues(b)
    BY <1>1, <2>1 DEF SameQueues, Pend, Pas, Held, Park
  <2> QED  BY <1>1, <1>2, <2>1, <2>2, FrameOnlyOwned DEF Living, Gone
<1>4. CASE ~closed
  <2>1. Become(f, cut) /\ pending' = pending \cup R
    BY <1>4 DEF BudgetRestarts
  <2>2. Single(R, Carrying)
    BY OneHas
  <2>3. \A b : Of(b, R) = IF b = a THEN R ELSE {}
    BY OfNew
  <2>4. ~Living(cut)
    BY <1>2 DEF Living, Gone
  <2> HIDE DEF R, cut
  <2>5. \A b \in Agent : /\ Pend(b)' = Pend(b) \cup Of(b, R) /\ Pas(b)' = Pas(b)
                         /\ Held(b)' = Held(b) /\ Park(b)' = Park(b) /\ Calm(b)
    BY <1>1, <2>1, OfSets, SameCalm DEF Pend, Pas, Held, Park
  <2>6. \A b \in Agent : b # a => SameQueues(b)
    BY <2>3, <2>5 DEF SameQueues
  <2>7. Loose(a, Carrying) /\ ~Anywhere(a, Carrying) /\ \A r \in Held(a) : r.agent = a
    BY <1>1, LiveCarries DEF OInv, Owners, Owned, OneTurn
  <2>8. Loose(a, Carrying)'
    BY <1>1, <2>2, <2>3, <2>5, <2>7, AddsPending
  <2> QED  BY <1>1, <1>2, <2>1, <2>4, <2>5, <2>6, <2>7, <2>8, GivesOverOwned DEF cut
<1> QED  BY <1>3, <1>4

-----------------------------------------------------------------------------
(* A turn takes its token.                                                  *)

(* An agent with no turn and no auxiliary call running gets a live frame    *)
(* under a new token, with a place in its gate.                             *)
LEMMA TakesTokenOwned ==
    ASSUME OInv, NEW a \in Agent, NEW t, Distinct',
           Toks(a)' = Toks(a) \cup {t}, t \notin Toks(a), LiveToks(a)' \subseteq {t}, token'[a] = t,
           gate'[a].depth = Cardinality(Toks(a)) + 1, ~AuxRunning(a),
           Loose(a, Carrying)', ~Anywhere(a, Carrying)', Park(a)' = {},
           \A r \in Held(a)' : r.agent = a, UNCHANGED <<aux, closed>>,
           \A b \in Agent : b # a => Quiet(b) /\ SameQueues(b)
    PROVE  Owners'
<1>1. Owned(a)
  BY DEF OInv, Owners
<1>2. IsFiniteSet(Toks(a)) /\ Cardinality(Toks(a)) \in Nat
  BY <1>1, FS_CardinalityType DEF Owned, Balanced
<1>3. IsFiniteSet(Toks(a)') /\ Cardinality(Toks(a)') = Cardinality(Toks(a)) + 1
  BY <1>2, FS_AddElement
<1>4. Balanced(a)'
  BY <1>2, <1>3 DEF Balanced
<1>5. Excluded(a)'
  BY DEF Excluded, AuxRunning
<1>6. OneTurn(a)'
  BY DEF OneTurn, Single
<1>7. Owned(a)'
  BY <1>4, <1>5, <1>6 DEF Owned
<1>8. ASSUME NEW b \in Agent, b # a
      PROVE  Owned(b)'
  BY <1>8, UntouchedOwned DEF OInv, Owners
<1> QED  BY <1>7, <1>8 DEF Owners

(* An agent with no turn has a start parked, with a place in its gate.      *)
LEMMA ParksOwned ==
    ASSUME OInv, NEW a \in Agent, NEW r, UNCHANGED <<frames, token, closed, aux>>,
           LiveToks(a) = {}, Park(a) = {}, Park(a)' = {r}, Single({r}, Carrying),
           gate'[a].depth = gate[a].depth + 1,
           Loose(a, Carrying)', ~Anywhere(a, Carrying)', \A s \in Held(a)' : s.agent = a,
           \A b \in Agent : b # a => Quiet(b) /\ SameQueues(b)
    PROVE  Owners'
<1>1. Owned(a)
  BY DEF OInv, Owners
<1>2. Toks(a)' = Toks(a) /\ LiveToks(a)' = {}
  BY DEF Toks, LiveToks, FramesOf, Living
<1>3. Cardinality(Toks(a)) \in Nat
  BY <1>1, FS_CardinalityType DEF Owned, Balanced
<1>4. Balanced(a)'
  BY <1>1, <1>2, <1>3 DEF Balanced, Owned
<1>5. Excluded(a)'
  BY <1>1, <1>2 DEF Excluded, Owned
<1>6. Single(Park(a), Carrying)'
  BY DEF Single
<1>7. OneTurn(a)'
  BY <1>2, <1>6 DEF OneTurn
<1>8. Owned(a)'
  BY <1>4, <1>5, <1>7 DEF Owned
<1>9. ASSUME NEW b \in Agent, b # a
      PROVE  Owned(b)'
  BY <1>9, UntouchedOwned DEF OInv, Owners
<1>10. Distinct'
  BY StillDistinct DEF OInv, Owners
<1> QED  BY <1>8, <1>9, <1>10 DEF Owners

(* The gate counts: an idle gate has no frame, and a parked start counts.   *)
LEMMA CountedGate ==
    ASSUME OInv, NEW a \in Agent, ~closed
    PROVE  /\ gate[a].depth \in Nat /\ Cardinality(Toks(a)) \in Nat /\ IsFiniteSet(Toks(a))
           /\ gate[a].depth = 0 => Toks(a) = {} /\ Park(a) = {}
           /\ Park(a) = {} => gate[a].depth = Cardinality(Toks(a))
           /\ Park(a) # {} => gate[a].depth = Cardinality(Toks(a)) + 1
<1>1. Balanced(a)
  BY DEF OInv, Owners, Owned
<1>2. gate[a].depth \in Nat
  BY DEF OInv, TypeOK, Gate
<1>3. IsFiniteSet(Toks(a)) /\ Cardinality(Toks(a)) \in Nat
  BY <1>1, FS_CardinalityType DEF Balanced
<1>4. Cardinality(Toks(a)) = 0 => Toks(a) = {}
  BY <1>3, FS_EmptySet
<1> QED  BY <1>1, <1>2, <1>3, <1>4 DEF Balanced

(* What lets the pass start a turn: the agent has none, but the one a       *)
(* restart in the pass's hands carries on.                                  *)
LEMMA StartsAlone ==
    ASSUME OInv, NEW a \in Agent, ~Busy(a), ~closed
    PROVE  /\ Park(a) = {} /\ LiveToks(a) = {} /\ ~Has(Pend(a), Carrying)
           /\ \A p \in Kept(a) \ Ready(a) : p \notin Carrying
<1>1. Owned(a) /\ Loose(a, Carrying) /\ TypeOK
  BY DEF OInv, Owners, Owned, OneTurn
<1>2. Ready(a) \subseteq Kept(a) /\ Kept(a) \subseteq Unheld(a) /\ Unheld(a) \subseteq Part
  BY <1>1, TakenType DEF Kept
<1>3. /\ \A p, q \in Unheld(a) : p \in Carrying /\ q \in Carrying => p = q
      /\ (\E p \in Unheld(a) : p \in Carrying) <=> Has(Pas(a), Carrying) \/ Has(Held(a), Carrying)
  BY <1>1, UnheldOnce
<1>4. CASE \E p \in Ready(a) : p.kind = "restart"
  <2>1. PICK p \in Ready(a) : p.kind = "restart"
    BY <1>4
  <2>2. p \in Unheld(a) /\ p \in Carrying
    BY <1>2, <2>1 DEF Carrying, Continues
  <2>3. Has(Pas(a), Carrying) \/ Has(Held(a), Carrying)
    BY <1>3, <2>2
  <2>4. \A q \in Kept(a) \ Ready(a) : q \notin Carrying
    BY <1>2, <1>3, <2>1, <2>2
  <2>5. ~Has(Pend(a), Carrying)
    BY <1>1, <2>3 DEF Loose
  <2>6. Park(a) = {} /\ LiveToks(a) = {}
    BY <1>1, <2>3 DEF Owned, OneTurn, Anywhere
  <2> QED  BY <2>4, <2>5, <2>6
<1>5. CASE ~\E p \in Ready(a) : p.kind = "restart"
  <2>1. token[a] = NoToken
    BY <1>5 DEF Busy
  <2>2. gate[a].depth = 0
    <3>1. gate[a].depth \in Nat
      BY CountedGate
    <3> QED  BY <2>1, <3>1 DEF Busy
  <2>3. Park(a) = {}
    BY <2>2, CountedGate
  <2>4. LiveToks(a) = {}
    <3>1. LiveToks(a) \subseteq Token
      BY <1>1 DEF TypeOK, LiveToks, FramesOf, Frame
    <3> QED  BY <1>1, <2>1, <3>1, SchedulerConstants DEF Owned, OneTurn
  <2>5. ~Has(Pend(a), Carrying)
    BY <1>5 DEF Busy, Has, Pend, Of, Carrying, ContinuesTurn
  <2>6. Ready(a) = Passing(a)
    BY <1>5 DEF Ready
  <2>7. \A p \in Kept(a) \ Ready(a) : p \notin Carrying
    BY <2>6 DEF Passing, Carrying
  <2> QED  BY <2>3, <2>4, <2>5, <2>7
<1> QED  BY <1>4, <1>5

(* A merged start has one part that carries a turn on at most.              *)
LEMMA MergedOnce ==
    ASSUME NEW a, NEW Q, \A p, q \in Q : p \in Carrying /\ q \in Carrying => p = q
    PROVE  Single({[agent |-> a, parts |-> Merged(Q)]}, Carrying)
<1> DEFINE r == [agent |-> a, parts |-> Merged(Q)]
<1>1. r.parts = Merged(Q)
  OBVIOUS
<1>2. \A p, q \in Merged(Q) : p \in Carrying /\ q \in Carrying => p = q
  BY DEF Merged
<1> HIDE DEF r
<1> QED  BY <1>1, <1>2 DEF Single, r

LEMMA PassStartsOwned ==
    ASSUME OInv, NEW a \in Agent, PassStarts(a)
    PROVE  Owners'
<1>1. PICK read \in SUBSET {p \in Ready(a) : p.kind = "wake"} :
        LET parts == Merged(Ready(a) \ read)
        IN  /\ Ready(a) # read /\ ~Busy(a) /\ ~closed
            /\ TakeGroup(a, Kept(a) \ Ready(a))
            /\ gate' = [gate EXCEPT ![a] = Acquire(ReleasedGate(a))]
            /\ IF AuxRunning(a)
               THEN /\ parked' = parked \cup {[agent |-> a, parts |-> parts]}
                    /\ UNCHANGED <<frames, token>>
               ELSE LET new == NewFrame(a, parts, 0, TRUE, NoToken)
                    IN  /\ FreeTokens # {}
                        /\ frames' = frames \cup {new}
                        /\ token' = [token EXCEPT ![a] = new.tok]
                        /\ UNCHANGED parked
            /\ UNCHANGED aux
  BY DEF PassStarts
<1> DEFINE back == Kept(a) \ Ready(a)
           parts == Merged(Ready(a) \ read)
           r == [agent |-> a, parts |-> parts]
           new == NewFrame(a, parts, 0, TRUE, NoToken)
<1>2. TypeOK /\ Distinct /\ Owned(a) /\ Loose(a, Carrying)
  BY DEF OInv, Owners, Owned, OneTurn
<1>3. /\ Park(a) = {} /\ LiveToks(a) = {} /\ ~Has(Pend(a), Carrying)
      /\ \A p \in back : p \notin Carrying
  BY <1>1, StartsAlone
<1>4. back \subseteq Unheld(a) /\ Ready(a) \subseteq Unheld(a)
  BY <1>2, TakenType DEF Kept
<1>5. /\ Pend(a)' = Pend(a) \cup Singly(a, back) /\ Pas(a)' = {} /\ Held(a)' = {}
      /\ \A b \in Agent : b # a => Pend(b)' = Pend(b) /\ Pas(b)' = Pas(b) /\ Held(b)' = Held(b)
  BY <1>1, <1>2, TakeGroupQueues
<1>6. Loose(a, Carrying)' /\ ~Anywhere(a, Carrying)'
  <2> HIDE DEF back
  <2> QED  BY <1>2, <1>3, <1>4, <1>5, BackLoose
<1>7. /\ UNCHANGED <<closed, aux>> /\ gate \in [Agent -> Gate]
      /\ gate'[a].depth = gate[a].depth + 1
      /\ \A b \in Agent : b # a => gate'[b].depth = gate[b].depth
  <2>1. ReleasedGate(a) \in Gate /\ ReleasedGate(a).depth = gate[a].depth
    BY <1>2, ReleasedGateType, ReleasedDepth
  <2>2. Acquire(ReleasedGate(a)).depth = gate[a].depth + 1
    BY <2>1, GateDepths
  <2> QED  BY <1>1, <1>2, <2>2 DEF TypeOK, TakeGroup, host
<1>8. CASE AuxRunning(a)
  <2>1. parked' = parked \cup {r} /\ UNCHANGED <<frames, token>>
    BY <1>1, <1>8
  <2>2. r.agent = a
    OBVIOUS
  <2>3. Single({r}, Carrying)
    <3>1. \A p, q \in Ready(a) \ read : p \in Carrying /\ q \in Carrying => p = q
      BY <1>2, <1>4, UnheldOnce
    <3> QED  BY <3>1, MergedOnce
  <2> HIDE DEF r
  <2>4. Park(a)' = {r} /\ \A b \in Agent : b # a => Park(b)' = Park(b)
    BY <1>3, <2>1, <2>2 DEF Park, Of
  <2>5. \A b \in Agent : b # a => Quiet(b) /\ SameQueues(b)
    BY <1>5, <1>7, <2>1, <2>4, SameFramesQuiet, SameCalm DEF SameQueues
  <2> QED  BY <1>3, <1>5, <1>6, <1>7, <2>1, <2>3, <2>4, <2>5, ParksOwned
<1>9. CASE ~AuxRunning(a)
  <2>1. /\ FreeTokens # {} /\ frames' = frames \cup {new} /\ token' = [token EXCEPT ![a] = new.tok]
        /\ UNCHANGED parked
    BY <1>1, <1>9
  <2>2. new.tok \in FreeTokens /\ new.agent = a
    <3>1. FreeTokens # {}
      BY <2>1
    <3>2. (CHOOSE t \in FreeTokens : TRUE) \in FreeTokens
      BY <3>1
    <3> QED  BY <3>2 DEF NewFrame
  <2> HIDE DEF new
  <2>3. /\ Distinct'
        /\ \A b \in Agent : b # a => Toks(b)' = Toks(b) /\ LiveToks(b)' = LiveToks(b)
        /\ Toks(a)' = Toks(a) \cup {new.tok}
        /\ new.tok \notin Toks(a)
        /\ LiveToks(a)' \subseteq LiveToks(a) \cup {new.tok}
    BY <1>2, <2>1, <2>2, NewToks
  <2>4. \A b \in Agent : Park(b)' = Park(b)
    BY <2>1 DEF Park
  <2>5. token'[a] = new.tok /\ \A b \in Agent : b # a => token'[b] = token[b]
    BY <1>2, <2>1 DEF TypeOK
  <2>6. \A b \in Agent : b # a => Quiet(b) /\ SameQueues(b)
    BY <1>1, <1>5, <1>7, <2>3, <2>4, <2>5, SameCalm DEF Quiet, SameQueues
  <2>7. gate'[a].depth = Cardinality(Toks(a)) + 1
    BY <1>1, <1>3, <1>7, CountedGate
  <2> QED  BY <1>3, <1>5, <1>6, <1>7, <1>9, <2>3, <2>4, <2>5, <2>6, <2>7, TakesTokenOwned
<1> QED  BY <1>8, <1>9

-----------------------------------------------------------------------------
(* A parked start goes on, or goes back.                                    *)

(* The parked start is its agent's only one; nothing else carries its turn. *)
LEMMA ParkedAlone ==
    ASSUME OInv, NEW r \in parked
    PROVE  LET a == r.agent
           IN  /\ a \in Agent /\ Park(a) = {r} /\ LiveToks(a) = {} /\ ~Anywhere(a, Carrying)
               /\ Single({r}, Carrying) /\ Owned(a) /\ Loose(a, Carrying)
               /\ \A b \in Agent : Of(b, parked \ {r}) = IF b = a THEN {} ELSE Park(b)
<1> DEFINE a == r.agent
<1>1. a \in Agent
  BY DEF OInv, TypeOK, Request
<1>2. r \in Park(a)
  BY DEF Park, Of
<1>3. Owned(a)
  BY <1>1 DEF OInv, Owners
<1>4. Park(a) = {r}
  BY <1>2, <1>3 DEF Owned, OneTurn
<1>5. /\ LiveToks(a) = {} /\ ~Anywhere(a, Carrying) /\ Single({r}, Carrying) /\ Loose(a, Carrying)
  BY <1>3, <1>4 DEF Owned, OneTurn
<1>6. \A b \in Agent : Of(b, parked \ {r}) = IF b = a THEN {} ELSE Park(b)
  BY <1>4 DEF Park, Of
<1> QED  BY <1>1, <1>3, <1>4, <1>5, <1>6

(* The start leaves its place in the gate, with the agent's frames as they  *)
(* are.                                                                     *)
LEMMA UnparksOwned ==
    ASSUME OInv, NEW r \in parked, UNCHANGED <<frames, token, closed>>, parked' = parked \ {r},
           \A b \in Agent : Calm(b),
           gate' = [gate EXCEPT ![r.agent] = Release(gate[r.agent])],
           \A b \in Agent : b # r.agent =>
              Pend(b)' = Pend(b) /\ Pas(b)' = Pas(b) /\ Held(b)' = Held(b),
           Loose(r.agent, Carrying)', \A s \in Held(r.agent)' : s.agent = r.agent
    PROVE  Owners'
<1> DEFINE a == r.agent
<1>1. /\ a \in Agent /\ Park(a) = {r} /\ LiveToks(a) = {} /\ Owned(a)
      /\ \A b \in Agent : Of(b, parked \ {r}) = IF b = a THEN {} ELSE Park(b)
  BY ParkedAlone
<1>2. \A b \in Agent : Park(b)' = IF b = a THEN {} ELSE Park(b)
  BY <1>1 DEF Park
<1>3. gate \in [Agent -> Gate]
  BY DEF OInv, TypeOK
<1>4. ~closed => gate'[a].depth = gate[a].depth - 1 /\ gate[a].depth = Cardinality(Toks(a)) + 1
  <2>1. ~closed => gate[a].depth = Cardinality(Toks(a)) + 1 /\ gate[a].depth > 0
    BY <1>1, CountedGate
  <2>2. gate'[a] = Release(gate[a])
    BY <1>1, <1>3
  <2> QED  BY <1>1, <1>3, <2>1, <2>2, GateDepths
<1>5. Toks(a)' = Toks(a) /\ LiveToks(a)' = {}
  BY <1>1 DEF Toks, LiveToks, FramesOf, Living
<1>6. Cardinality(Toks(a)) \in Nat
  BY <1>1, FS_CardinalityType DEF Owned, Balanced
<1>7. Balanced(a)'
  BY <1>1, <1>2, <1>4, <1>5, <1>6 DEF Balanced, Owned
<1>8. Excluded(a)'
  BY <1>1, <1>5 DEF Excluded, Owned, Calm
<1>9. OneTurn(a)'
  BY <1>1, <1>2, <1>5 DEF OneTurn, Single
<1>10. Owned(a)'
  <2>1. \A s \in Held(a)' : s.agent = a
    OBVIOUS
  <2> HIDE DEF a
  <2> QED  BY <1>7, <1>8, <1>9, <2>1 DEF Owned
<1>11. ASSUME NEW b \in Agent, b # a
       PROVE  Owned(b)'
  <2>1. gate'[b].depth = gate[b].depth
    BY <1>1, <1>3, <1>11
  <2>2. Quiet(b) /\ SameQueues(b)
    BY <1>2, <1>11, <2>1, SameFramesQuiet DEF SameQueues
  <2> QED  BY <2>2, UntouchedOwned DEF OInv, Owners
<1>12. Distinct'
  BY StillDistinct DEF OInv, Owners
<1> QED  BY <1>1, <1>10, <1>11, <1>12 DEF Owners

LEMMA GivesBackOwned ==
    ASSUME OInv, NEW r \in parked, UnparkGivesBack(r)
    PROVE  Owners'
<1> DEFINE a == r.agent
<1>1. /\ a \in Agent /\ ~Anywhere(a, Carrying) /\ Loose(a, Carrying) /\ Owned(a)
      /\ Single({r}, Carrying)
  BY ParkedAlone
<1>2. /\ UNCHANGED <<frames, token, closed, pass, hold>> /\ parked' = parked \ {r}
      /\ gate' = [gate EXCEPT ![a] = Release(gate[a])]
      /\ Flush(a, Release(gate[a]), hold[a])
  BY DEF UnparkGivesBack, host
<1>3. \A b \in Agent : Calm(b)
  BY <1>2, FlushCalm DEF OInv
<1>4. PICK R \in {{}, {r}, Singly(a, r.parts)} : pending' = pending \cup R
  <2>1. pending \cup {} = pending
    OBVIOUS
  <2> QED  BY <2>1 DEF UnparkGivesBack
<1>5. Single(R, Carrying) /\ \A s \in R : s.agent = a
  <2>1. \A p, q \in r.parts : p \in Carrying /\ q \in Carrying => p = q
    BY <1>1 DEF Single
  <2>2. Single(Singly(a, r.parts), Carrying)
    BY <2>1, SinglyHas
  <2>3. \A s \in Singly(a, r.parts) : s.agent = a
    BY DEF Singly
  <2> QED  BY <1>1, <2>2, <2>3, NoRequest
<1>6. \A b \in Agent : Pend(b)' = Pend(b) \cup (IF b = a THEN R ELSE {})
  BY <1>4, <1>5 DEF Pend, Of
<1>7. \A b \in Agent : Pas(b)' = Pas(b) /\ Held(b)' = Held(b)
  BY <1>2 DEF Pas, Held
<1>8. Loose(a, Carrying)'
  BY <1>1, <1>5, <1>6, <1>7, AddsPending
<1>9. \A s \in Held(a)' : s.agent = a
  BY <1>1, <1>7 DEF Owned
<1> QED  BY <1>2, <1>3, <1>6, <1>7, <1>8, <1>9, UnparksOwned

LEMMA UnparkStartsOwned ==
    ASSUME OInv, NEW r \in parked, UnparkStarts(r)
    PROVE  Owners'
<1> DEFINE a == r.agent
           kept == [NoHold EXCEPT !.kind = "wait", !.held = {r}]
           new == NewFrame(a, r.parts, 0, FALSE, NoToken)
<1>1. /\ a \in Agent /\ Park(a) = {r} /\ LiveToks(a) = {} /\ ~Anywhere(a, Carrying)
      /\ Single({r}, Carrying) /\ Owned(a) /\ Loose(a, Carrying)
      /\ \A b \in Agent : Of(b, parked \ {r}) = IF b = a THEN {} ELSE Park(b)
      /\ TypeOK /\ Distinct
  BY ParkedAlone DEF OInv, Owners
<1>2. /\ UNCHANGED <<pending, pass, closed>> /\ parked' = parked \ {r} /\ ~closed /\ ~AuxRunning(a)
  BY DEF UnparkStarts, Unparks, host
<1>3. \A b \in Agent : Pend(b)' = Pend(b) /\ Pas(b)' = Pas(b)
  BY <1>2 DEF Pend, Pas
<1>4. CASE bound[a]
  <2>1. /\ hold' = [hold EXCEPT ![a] = kept] /\ gate' = [gate EXCEPT ![a] = Release(gate[a])]
        /\ Flush(a, Release(gate[a]), kept) /\ UNCHANGED <<frames, token>>
    BY <1>4 DEF UnparkStarts
  <2>2. kept.held = {r}
    BY DEF NoHold
  <2> HIDE DEF kept
  <2>3. \A b \in Agent : Held(b)' = IF b = a THEN {r} ELSE Held(b)
    BY <1>1, <2>1, <2>2 DEF TypeOK, Held
  <2>4. \A b \in Agent : Calm(b)
    BY <1>1, <2>1, FlushCalm
  <2>5. Loose(a, Carrying)'
    <3>1. Pend(a)' = Pend(a) /\ Pas(a)' = Pas(a) /\ Held(a)' = {r}
      BY <1>1, <1>3, <2>3
    <3> QED  BY <1>1, <3>1 DEF Loose, Anywhere, Has, Single
  <2>6. \A s \in Held(a)' : s.agent = a
    BY <1>1, <2>3
  <2> QED  BY <1>2, <1>3, <2>1, <2>3, <2>4, <2>5, <2>6, UnparksOwned
<1>5. CASE ~bound[a]
  <2>1. /\ FreeTokens # {} /\ frames' = frames \cup {new} /\ token' = [token EXCEPT ![a] = new.tok]
        /\ UNCHANGED <<hold, gate, aux>>
    BY <1>5 DEF UnparkStarts
  <2>2. new.tok \in FreeTokens /\ new.agent = a
    <3>1. (CHOOSE t \in FreeTokens : TRUE) \in FreeTokens
      BY <2>1
    <3> QED  BY <3>1 DEF NewFrame
  <2> HIDE DEF new
  <2>3. /\ Distinct'
        /\ \A b \in Agent : b # a => Toks(b)' = Toks(b) /\ LiveToks(b)' = LiveToks(b)
        /\ Toks(a)' = Toks(a) \cup {new.tok}
        /\ new.tok \notin Toks(a)
        /\ LiveToks(a)' \subseteq LiveToks(a) \cup {new.tok}
    BY <1>1, <2>1, <2>2, NewToks
  <2>4. \A b \in Agent : Held(b)' = Held(b) /\ Park(b)' = IF b = a THEN {} ELSE Park(b)
    BY <1>1, <1>2, <2>1 DEF Park, Held
  <2>5. token'[a] = new.tok /\ \A b \in Agent : b # a => token'[b] = token[b]
    BY <1>1, <2>1 DEF TypeOK
  <2>6. \A b \in Agent : b # a => Quiet(b) /\ SameQueues(b)
    BY <1>2, <1>3, <2>1, <2>3, <2>4, <2>5, SameCalm DEF Quiet, SameQueues
  <2>7. gate'[a].depth = Cardinality(Toks(a)) + 1
    BY <1>1, <1>2, <2>1, CountedGate
  <2>8. Loose(a, Carrying)' /\ ~Anywhere(a, Carrying)'
    BY <1>1, <1>3, <2>4, SameLoose
  <2>9. \A s \in Held(a)' : s.agent = a
    BY <1>1, <2>4 DEF Owned
  <2> QED  BY <1>1, <1>2, <2>1, <2>3, <2>4, <2>5, <2>6, <2>7, <2>8, <2>9, TakesTokenOwned
<1> QED  BY <1>4, <1>5

-----------------------------------------------------------------------------
(* A turn tries again from inside its frame, or leaves.                     *)
LEMMA RetryOwned ==
    ASSUME OInv, NEW f \in frames, RetryStarts(f)
    PROVE  Owners'
<1> DEFINE a == f.agent
           parts == {[kind |-> IF f.restart THEN "restart" ELSE "retry", reads |-> f.reads]}
           new == NewFrame(a, parts, f.attempt, f.inPass, f.tok)
           handing == [f EXCEPT !.phase = "handing", !.reads = {}]
<1>1. /\ f \in Frame /\ a \in Agent /\ f.tok \in Toks(a) /\ TypeOK /\ Distinct /\ Living(f)
      /\ ~closed /\ UNCHANGED <<closed, work, aux>>
  BY FrameTyped DEF OInv, Owners, RetryStarts, Living, Gone, host
<1>2. /\ LiveToks(a) = {f.tok} /\ ~Anywhere(a, Carrying) /\ Park(a) = {}
      /\ Owned(a) /\ Loose(a, Carrying)
  BY <1>1, LiveCarries DEF OInv, Owners, Owned, OneTurn
<1>3. ~AuxRunning(a)
  BY <1>1, <1>2 DEF Owned, Excluded, AuxRunning
<1>4. \A b \in Agent : Pend(b)' = Pend(b) /\ Pas(b)' = Pas(b)
  BY <1>1 DEF Pend, Pas, work
<1>5. gate \in [Agent -> Gate] /\ gate[a] \in Gate
  BY <1>1 DEF TypeOK
<1>6. CASE bound[a]
  <2>1. /\ HoldForWait(a, {Continuation(f)}) /\ gate' = [gate EXCEPT ![a].pending = FALSE]
        /\ Become(f, [f EXCEPT !.phase = "ending"]) /\ UNCHANGED <<token, parked>>
    BY <1>3, <1>6 DEF RetryStarts
  <2>2. \A b \in Agent : gate'[b].depth = gate[b].depth
    BY <1>1, <1>5, <2>1 DEF Gate
  <2>3. \A b \in Agent : Held(b)' = IF b = a THEN Held(b) \cup {Continuation(f)} ELSE Held(b)
    BY <1>1, <2>1, HoldForWaitQueues
  <2>4. Continuation(f) = Request1(a, IF f.restart THEN "restart" ELSE "retry", f.reads)
    BY DEF Continuation
  <2> QED  BY <1>1, <2>1, <2>2, <2>3, <2>4, HeldOverOwned
<1>7. CASE ~bound[a]
  <2>1. /\ FreeTokens # {} /\ frames' = (frames \ {f}) \cup {handing, new}
        /\ token' = [token EXCEPT ![a] = new.tok] /\ gate' = [gate EXCEPT ![a] = Acquire(@)]
        /\ UNCHANGED <<hold, parked>>
    BY <1>3, <1>7 DEF RetryStarts
  <2>2. new.tok \in FreeTokens /\ new.agent = a
    <3>1. (CHOOSE t \in FreeTokens : TRUE) \in FreeTokens
      BY <2>1
    <3> QED  BY <3>1 DEF NewFrame
  <2>3. handing.tok = f.tok /\ handing.agent = a /\ ~Living(handing)
    <3>1. handing.tok = f.tok /\ handing.agent = a /\ handing.phase = "handing"
      BY <1>1 DEF Frame
    <3> QED  BY <3>1 DEF Living
  <2> HIDE DEF new, handing
  <2>4. \A g \in frames : g.tok # new.tok
    BY <2>2 DEF FreeTokens
  <2>5. Distinct'
    BY <1>1, <2>1, <2>3, <2>4 DEF Distinct
  <2>6. \A b \in Agent : b # a => Toks(b)' = Toks(b) /\ LiveToks(b)' = LiveToks(b)
    BY <2>1, <2>2, <2>3 DEF Toks, LiveToks, FramesOf, Living
  <2>7. Toks(a)' = Toks(a) \cup {new.tok} /\ new.tok \notin Toks(a)
    BY <2>1, <2>2, <2>3, <2>4 DEF Toks, FramesOf
  <2>8. LiveToks(a)' \subseteq {new.tok}
    <3> SUFFICES ASSUME NEW g \in frames', g.agent = a, Living(g), g # new
                 PROVE  FALSE
      BY DEF LiveToks, FramesOf, Living
    <3>1. g \in frames /\ g # f
      BY <2>1, <2>3
    <3>2. g.tok \in LiveToks(a)
      BY <3>1 DEF LiveToks, FramesOf
    <3> QED  BY <1>1, <1>2, <3>1, <3>2 DEF Distinct
  <2>9. \A b \in Agent : Held(b)' = Held(b) /\ Park(b)' = Park(b)
    BY <2>1 DEF Held, Park
  <2>10. /\ token'[a] = new.tok
         /\ \A b \in Agent : b # a => token'[b] = token[b] /\ gate'[b].depth = gate[b].depth
    BY <1>1, <1>5, <2>1 DEF TypeOK
  <2>11. gate'[a].depth = Cardinality(Toks(a)) + 1
    <3>1. gate'[a] = Acquire(gate[a])
      BY <1>1, <1>5, <2>1
    <3> QED  BY <1>1, <1>2, <1>5, <3>1, GateDepths, CountedGate
  <2>12. \A b \in Agent : b # a => Quiet(b) /\ SameQueues(b)
    BY <1>1, <1>4, <2>6, <2>9, <2>10, SameCalm DEF Quiet, SameQueues
  <2>13. Loose(a, Carrying)' /\ ~Anywhere(a, Carrying)'
    BY <1>1, <1>2, <1>4, <2>9, SameLoose
  <2>14. Park(a)' = {} /\ \A s \in Held(a)' : s.agent = a
    BY <1>1, <1>2, <2>9 DEF Owned
  <2> QED  BY <1>1, <1>3, <2>5, <2>7, <2>8, <2>10, <2>11, <2>12, <2>13, <2>14, TakesTokenOwned
<1> QED  BY <1>6, <1>7

LEMMA LeaveToks ==
    ASSUME TypeOK, Distinct, NEW f \in frames, frames' = ReturnTo(f, frames \ {f})
    PROVE  /\ Distinct'
           /\ \A b \in Agent : /\ Toks(b)' = IF b = f.agent THEN Toks(b) \ {f.tok} ELSE Toks(b)
                             /\ LiveToks(b)' \subseteq LiveToks(b)
<1> DEFINE F == frames \ {f}
<1>1. F \in SUBSET frames /\ frames' = ReturnTo(f, F) /\ \A h \in F : h \in frames /\ h # f
  OBVIOUS
<1>2. \A b \in Agent : LET S == {k \in F : k.agent = b}
                       IN  {h.tok : h \in S} = IF b = f.agent THEN Toks(b) \ {f.tok} ELSE Toks(b)
  <2>1. \A h \in F : h.tok # f.tok
    BY DEF Distinct
  <2>2. \A b \in Agent : Toks(b) = {h.tok : h \in {k \in frames : k.agent = b}}
    BY DEF Toks, FramesOf
  <2>3. ASSUME NEW b \in Agent, b = f.agent
        PROVE  {h.tok : h \in {k \in F : k.agent = b}} = Toks(b) \ {f.tok}
    BY <2>1, <2>2, <2>3
  <2>4. ASSUME NEW b \in Agent, b # f.agent
        PROVE  {h.tok : h \in {k \in F : k.agent = b}} = Toks(b)
    BY <2>2, <2>4
  <2> QED  BY <2>3, <2>4
<1> HIDE DEF F
<1>3. /\ \A g \in ReturnTo(f, F) : \E h \in F :
           g.tok = h.tok /\ g.agent = h.agent /\ (Living(g) => Living(h))
      /\ \A h \in F : \E g \in ReturnTo(f, F) : g.tok = h.tok /\ g.agent = h.agent
      /\ \A g, h \in ReturnTo(f, F) : g.tok = h.tok => g = h
  BY <1>1, ReturnToImages
<1>4. /\ \A g \in frames' : \E h \in F :
           g.tok = h.tok /\ g.agent = h.agent /\ (Living(g) => Living(h))
      /\ \A h \in F : \E g \in frames' : g.tok = h.tok /\ g.agent = h.agent
  BY <1>1, <1>3
<1>5. Distinct'
  BY <1>1, <1>3 DEF Distinct
<1>6. \A b \in Agent : /\ Toks(b)' = {h.tok : h \in {k \in F : k.agent = b}}
                       /\ LiveToks(b)' \subseteq LiveToks(b)
  BY <1>1, <1>4, ImageToks
<1> QED  BY <1>2, <1>5, <1>6

LEMMA LeavesOwned ==
    ASSUME OInv, NEW f \in frames, Leaves(f)
    PROVE  Owners'
<1> DEFINE a == f.agent
           F == frames \ {f}
<1>1. /\ f \in Frame /\ a \in Agent /\ f.tok \in Toks(a) /\ TypeOK /\ Distinct /\ Owned(a)
  BY FrameTyped DEF OInv, Owners
<1>2. /\ frames' = ReturnTo(f, F) /\ gate' = [gate EXCEPT ![a] = Release(gate[a])]
      /\ Flush(a, Release(gate[a]), hold[a]) /\ UNCHANGED <<closed, parked, work, hold>>
      /\ token' = [token EXCEPT ![a] = IF @ = f.tok THEN NoToken ELSE @]
      /\ f.phase = "ending"
  BY DEF Leaves, TokenCleared, QueueSame, host
<1>3. /\ Distinct'
      /\ \A b \in Agent : /\ Toks(b)' = IF b = f.agent THEN Toks(b) \ {f.tok} ELSE Toks(b)
                        /\ LiveToks(b)' \subseteq LiveToks(b)
  BY <1>1, <1>2, LeaveToks
<1>4. Distinct'
  BY <1>3
<1>5. \A b \in Agent : LiveToks(b)' \subseteq LiveToks(b)
  BY <1>3
<1>6. \A b \in Agent : Toks(b)' = IF b = a THEN Toks(a) \ {f.tok} ELSE Toks(b)
  BY <1>3
<1>7. f.tok \notin LiveToks(a)
  BY <1>1, <1>2 DEF LiveToks, FramesOf, Living, Distinct
<1>8. \A b \in Agent : SameQueues(b) /\ Calm(b)
  BY <1>1, <1>2, FlushCalm DEF SameQueues, Pend, Pas, Held, Park, work
<1>9. gate \in [Agent -> Gate] /\ token \in [Agent -> Token \cup {NoToken}]
  BY <1>1 DEF TypeOK
<1>10. ASSUME NEW b \in Agent, b # a
       PROVE  Owned(b)'
  <2>1. gate'[b].depth = gate[b].depth /\ token'[b] = token[b]
    BY <1>1, <1>2, <1>9, <1>10
  <2>2. Quiet(b)
    BY <1>2, <1>5, <1>6, <1>8, <1>10, <2>1 DEF Quiet
  <2> QED  BY <1>8, <2>2, UntouchedOwned DEF OInv, Owners
<1>11. Owned(a)'
  <2>1. Toks(a)' = Toks(a) \ {f.tok} /\ Park(a)' = Park(a) /\ Held(a)' = Held(a)
    BY <1>1, <1>6, <1>8 DEF SameQueues
  <2>2. IsFiniteSet(Toks(a)) /\ IsFiniteSet(Toks(a)')
    BY <1>1, <2>1, FS_RemoveElement DEF Owned, Balanced
  <2>3. Cardinality(Toks(a)') = Cardinality(Toks(a)) - 1 /\ Cardinality(Toks(a)) \in Nat
        /\ Cardinality(Toks(a)') \in Nat
    BY <1>1, <2>1, <2>2, FS_RemoveElement, FS_CardinalityType
  <2>4. ~closed => gate'[a].depth = gate[a].depth - 1
    <3>1. ~closed => gate[a].depth > 0
      BY <1>1, <2>3, CountedGate
    <3>2. gate'[a] = Release(gate[a])
      BY <1>1, <1>2, <1>9
    <3> QED  BY <1>1, <1>9, <3>1, <3>2, GateDepths
  <2>5. Balanced(a)'
    BY <1>1, <1>2, <2>1, <2>2, <2>3, <2>4 DEF Owned, Balanced
  <2>6. Excluded(a)'
    BY <1>1, <1>2, <1>8, <2>1 DEF Owned, Excluded, Calm
  <2>7. LiveToks(a)' \subseteq {token[a]}'
    <3>1. LiveToks(a)' \subseteq LiveToks(a) /\ LiveToks(a) \subseteq {token[a]}
      BY <1>1, <1>5 DEF Owned, OneTurn
    <3>2. token'[a] = IF token[a] = f.tok THEN NoToken ELSE token[a]
      BY <1>1, <1>2, <1>9
    <3> QED  BY <1>7, <3>1, <3>2
  <2>8. Loose(a, Carrying)' /\ (Anywhere(a, Carrying)' => Anywhere(a, Carrying))
    BY <1>1, <1>8, SameLoose DEF SameQueues, Owned, OneTurn
  <2>9. OneTurn(a)'
    BY <1>1, <1>5, <2>1, <2>7, <2>8 DEF Owned, OneTurn, Single
  <2>10. \A r \in Held(a)' : r.agent = a
    BY <1>1, <2>1 DEF Owned
  <2> HIDE DEF a
  <2> QED  BY <2>5, <2>6, <2>9, <2>10 DEF Owned
<1> QED  BY <1>1, <1>4, <1>10, <1>11 DEF Owners

-----------------------------------------------------------------------------
(* Auxiliary calls leave the agents' requests and counts.                   *)
LEMMA AuxQueues ==
    ASSUME TypeOK, NEW x \in Aux, AuxStep(x), NEW b \in Agent
    PROVE  gate'[b].depth = gate[b].depth /\ SameQueues(b)
<1>1. /\ UNCHANGED <<work, parked>>
      /\ hold \in [Agent -> Hold] /\ gate \in [Agent -> Gate] /\ AuxAgent[x] \in Agent
  BY SchedulerConstants DEF AuxStep, AuxCalls, AuxWoken, AuxEnds, AuxFails, AuxSame, TypeOK
<1>2. gate'[b].depth = gate[b].depth /\ hold'[b].held = hold[b].held
  <2>1. CASE UNCHANGED <<gate, hold>>
    BY <2>1
  <2>2. CASE ~UNCHANGED <<gate, hold>>
    <3> DEFINE a == AuxAgent[x]
               H == [kind |-> "accel", held |-> hold[a].held,
                     aux |-> hold[a].kind = "none" \/ hold[a].aux,
                     emptied |-> hold[a].emptied /\ hold[a].held = {}]
               G == [gate[a] EXCEPT !.pending = TRUE, !.recovery = "held"]
    <3>1. /\ hold' = [hold EXCEPT ![a] = H]
          /\ gate' = gate \/ gate' = [gate EXCEPT ![a] = G]
      BY <1>1, <2>2 DEF AuxStep, AuxCalls, AuxWoken, AuxEnds, AuxFails
    <3>2. H.held = hold[a].held /\ G.depth = gate[a].depth
      BY <1>1 DEF Gate
    <3> HIDE DEF H, G
    <3> QED  BY <1>1, <3>1, <3>2
  <2> QED  BY <2>1, <2>2
<1> QED  BY <1>1, <1>2 DEF SameQueues, Pend, Pas, Held, Park, work

(* Auxiliary calls: one begins to run only where the agent has no frame.    *)
LEMMA AuxOwned ==
    ASSUME OInv, NEW x \in Aux, AuxStep(x)
    PROVE  Owners'
<1>1. /\ UNCHANGED <<work, parked, frames, token, closed>>
      /\ aux \in [Aux -> {"idle", "waiting", "woken", "running"}]
  BY DEF AuxStep, AuxCalls, AuxWoken, AuxEnds, AuxFails, AuxSame, OInv, TypeOK
<1>2. \A b \in Agent : gate'[b].depth = gate[b].depth /\ SameQueues(b)
  BY AuxQueues DEF OInv
<1>3. ASSUME NEW b \in Agent
      PROVE  SameQueues(b) /\ Toks(b)' = Toks(b) /\ LiveToks(b)' = LiveToks(b) /\ token'[b] = token[b]
  BY <1>1, <1>2 DEF Toks, LiveToks, FramesOf, Living
<1>4. Distinct'
  BY <1>1, StillDistinct DEF OInv, Owners
<1>5. ASSUME NEW b \in Agent
      PROVE  Owned(b)'
  <2>1. Owned(b)
    BY DEF OInv, Owners
  <2>2. Excluded(b)'
    <3> SUFFICES ASSUME ~closed, NEW y \in Aux, AuxAgent[y] = b, aux'[y] = "running"
                 PROVE  Toks(b) = {}
      BY <1>1, <1>3 DEF Excluded
    <3>1. CASE aux[y] = "running"
      BY <2>1, <3>1 DEF Owned, Excluded
    <3>2. CASE aux[y] # "running"
      <4>1. ~Blocked(gate[b], hold[b])
        BY <1>1, <3>2 DEF AuxStep, AuxCalls, AuxWoken, AuxEnds, AuxFails, AuxOver
      <4>2. gate[b].depth \in Nat
        BY CountedGate
      <4>3. gate[b].depth = 0
        BY <4>1, <4>2 DEF Blocked
      <4> QED  BY <4>3, CountedGate
    <3> QED  BY <3>1, <3>2
  <2>3. Balanced(b)'
    BY <1>1, <1>2, <1>3, <2>1 DEF Owned, Balanced, SameQueues
  <2>4. Loose(b, Carrying)' /\ (Anywhere(b, Carrying)' <=> Anywhere(b, Carrying))
    BY <1>3, <2>1, SameLoose DEF SameQueues, Owned, OneTurn
  <2>5. OneTurn(b)' /\ \A r \in Held(b)' : r.agent = b
    BY <1>3, <2>1, <2>4 DEF SameQueues, Owned, OneTurn, Single
  <2> QED  BY <2>2, <2>3, <2>5 DEF Owned
<1> QED  BY <1>4, <1>5 DEF Owners

-----------------------------------------------------------------------------
(* Turns on their way dropped.                                              *)

(* What stays of the agent's requests R, what of them goes, and what of     *)
(* that is queued again.                                                    *)
Staying(b, S, R) == IF b \in S THEN {r \in R : ~ContinuesTurn(r)} ELSE R
Going(b, S) == {r \in Pend(b) \cup Pas(b) \cup Park(b) \cup Held(b) : b \in S /\ ContinuesTurn(r)}
Again(b, S) == UNION {Singly(b, {p \in r.parts : ~Continues(p)}) : r \in Going(b, S)}

LEMMA StayingCarriesNone ==
    ASSUME NEW b, NEW S, NEW R \in SUBSET Request
    PROVE  /\ Staying(b, S, R) \subseteq R
           /\ b \in S => ~Has(Staying(b, S, R), Carrying)
           /\ ~Has(R, Carrying) => Staying(b, S, R) = R
BY DEF Staying, Has, Carrying, ContinuesTurn, Request

LEMMA AgainCarriesNone ==
    ASSUME NEW b, NEW S
    PROVE  /\ ~Has(Again(b, S), Carrying)
           /\ b \notin S => Again(b, S) = {}
<1>1. \A r : ~Has(Singly(b, {p \in r.parts : ~Continues(p)}), Carrying)
  BY SinglyHas DEF Carrying
<1>2. ~Has(Again(b, S), Carrying)
  BY <1>1 DEF Again, Has
<1>3. b \notin S => Going(b, S) = {}
  BY DEF Going
<1> QED  BY <1>2, <1>3 DEF Again

(* What dropping the continuations of S does to each agent's requests, gate *)
(* and calls.                                                               *)
LEMMA DropQueues ==
    ASSUME OInv, NEW S, DropContinuations(S, TRUE), NEW b \in Agent
    PROVE  /\ Pend(b)' = Staying(b, S, Pend(b)) \cup Again(b, S)
           /\ Pas(b)' = Staying(b, S, Pas(b))
           /\ Held(b)' = Staying(b, S, Held(b))
           /\ Park(b)' = Staying(b, S, Park(b))
           /\ Calm(b)
           /\ Park(b)' = Park(b) => gate'[b].depth = gate[b].depth
           /\ Park(b)' # Park(b) /\ gate[b].depth > 0 => gate'[b].depth = gate[b].depth - 1
<1> DEFINE gone(R) == {r \in R : r.agent \in S /\ ContinuesTurn(r)}
           held == UNION {hold[a].held : a \in Agent}
           all == gone(pending \cup pass \cup parked \cup held)
           wakesOf(r) == {p \in r.parts : ~Continues(p)}
           back == UNION {Singly(r.agent, wakesOf(r)) : r \in all}
           left(a) == hold[a].held \ gone(hold[a].held)
           released(a) == IF gone(Of(a, parked)) # {} THEN Release(gate[a]) ELSE gate[a]
           ends(a) == /\ Of(a, all) # {}
                      /\ Of(a, (pending \ all) \cup back) = {} /\ left(a) = {}
                      /\ EndsPending(released(a))
           after(a) == IF ends(a) THEN Ended(released(a)) ELSE released(a)
<1>1. /\ pending' = (pending \ all) \cup back
      /\ pass' = pass \ all
      /\ parked' = parked \ all
      /\ gate'[b] = after(b)
      /\ hold' = [a \in Agent |-> [hold[a] EXCEPT !.held = left(a),
                       !.emptied = @ \/ (hold[a].held # {} /\ left(a) = {})]]
  BY DEF DropContinuations
<1>2. hold'[b].held = left(b)
  <2>1. hold[b] \in Hold
    BY DEF OInv, TypeOK
  <2> HIDE DEF left
  <2>2. [hold[b] EXCEPT !.held = left(b),
              !.emptied = @ \/ (hold[b].held # {} /\ left(b) = {})].held = left(b)
    BY <2>1 DEF Hold
  <2> QED  BY <1>1, <2>2
<1>3. \A a \in Agent : \A r \in hold[a].held : r.agent = a
  BY DEF OInv, Owners, Owned, Held
<1>4. /\ Pas(b)' = Staying(b, S, Pas(b))
      /\ Park(b)' = Staying(b, S, Park(b))
      /\ Of(b, pending \ all) = Staying(b, S, Pend(b))
  BY <1>1 DEF Pas, Park, Pend, Of, Staying
<1>5. Held(b)' = Staying(b, S, Held(b))
  BY <1>2, <1>3 DEF Held, Staying
<1>6. Of(b, all) = Going(b, S)
  BY <1>3 DEF Of, Going, Pend, Pas, Park, Held
<1>7. Of(b, back) = Again(b, S)
  <2>1. \A r : \A s \in Singly(r.agent, wakesOf(r)) : s.agent = r.agent
    BY DEF Singly
  <2>2. Of(b, back) = UNION {Singly(r.agent, wakesOf(r)) : r \in Of(b, all)}
    <3> HIDE DEF all, wakesOf
    <3> QED  BY <2>1 DEF Of
  <2>3. \A r \in Of(b, all) : r.agent = b
    BY DEF Of
  <2>4. UNION {Singly(r.agent, wakesOf(r)) : r \in Of(b, all)}
          = UNION {Singly(b, wakesOf(r)) : r \in Of(b, all)}
    <3> HIDE DEF all, wakesOf
    <3> QED  BY <2>3
  <2> QED  BY <1>6, <2>2, <2>4 DEF Again
<1>8. Pend(b)' = Staying(b, S, Pend(b)) \cup Again(b, S)
  <2>1. Pend(b)' = Of(b, (pending \ all) \cup back)
    BY <1>1 DEF Pend, Of
  <2> DEFINE rest == pending \ all
  <2>2. Of(b, rest) = Staying(b, S, Pend(b))
    BY <1>4
  <2> HIDE DEF rest, back
  <2>3. Of(b, rest \cup back) = Of(b, rest) \cup Of(b, back)
    BY OfSets
  <2> QED  BY <1>7, <2>1, <2>2, <2>3 DEF rest
<1>9. Calm(b)
  <2>1. \A x \in Aux : aux'[x] = "woken" \/ aux'[x] = aux[x]
    BY DEF DropContinuations
  <2> QED  BY <2>1 DEF Calm
<1>10. gone(Of(b, parked)) # {} <=> Park(b)' # Park(b)
  BY <1>4 DEF Park, Staying, Of
<1>11. gate'[b].depth = released(b).depth
  <2>1. gate[b] \in Gate
    BY DEF OInv, TypeOK
  <2>2. released(b) \in Gate
    BY <2>1, GateOperators
  <2> HIDE DEF released, ends
  <2> QED  BY <1>1, <2>2, GateDepths
<1>12. gate[b] \in Gate
  BY DEF OInv, TypeOK
<1> HIDE DEF gone
<1> QED  BY <1>4, <1>5, <1>8, <1>9, <1>10, <1>11, <1>12, GateDepths

(* What was dropped is carried no more; the others are left alone.          *)
LEMMA DroppedOwned ==
    ASSUME OInv, NEW S, DropContinuations(S, TRUE), UNCHANGED <<token, closed>>, NEW b \in Agent,
           Toks(b)' = Toks(b), LiveToks(b)' \subseteq LiveToks(b)
    PROVE  Owned(b)'
<1>1. /\ Pend(b)' = Staying(b, S, Pend(b)) \cup Again(b, S)
      /\ Pas(b)' = Staying(b, S, Pas(b))
      /\ Held(b)' = Staying(b, S, Held(b))
      /\ Park(b)' = Staying(b, S, Park(b))
      /\ Calm(b)
      /\ Park(b)' = Park(b) => gate'[b].depth = gate[b].depth
      /\ Park(b)' # Park(b) /\ gate[b].depth > 0 => gate'[b].depth = gate[b].depth - 1
  BY DropQueues
<1>2. Owned(b) /\ TypeOK
  BY DEF OInv, Owners
<1>3. /\ Pend(b) \in SUBSET Request /\ Pas(b) \in SUBSET Request
      /\ Held(b) \in SUBSET Request /\ Park(b) \in SUBSET Request
  BY <1>2, QueuesTyped
<1>4. Balanced(b)'
  <2>1. CASE Park(b)' = Park(b)
    BY <1>1, <1>2, <2>1 DEF Owned, Balanced
  <2>2. CASE Park(b)' # Park(b)
    <3>1. Park(b)' = {} /\ Park(b) # {}
      BY <1>1, <1>2, <2>2 DEF Staying, Owned, OneTurn
    <3>2. ~closed => /\ gate[b].depth = Cardinality(Toks(b)) + 1
                     /\ gate[b].depth \in Nat /\ Cardinality(Toks(b)) \in Nat
      BY <3>1, CountedGate
    <3>3. ~closed => gate'[b].depth = Cardinality(Toks(b))
      BY <1>1, <2>2, <3>2
    <3>4. ~closed => Cardinality(Toks(b)) = Cardinality(Toks(b)) + 0
      BY <3>2
    <3> QED  BY <1>2, <3>1, <3>3, <3>4 DEF Owned, Balanced
  <2> QED  BY <2>1, <2>2
<1>5. Excluded(b)'
  BY <1>1, <1>2 DEF Owned, Excluded, Calm
<1>6. CASE b \notin S
  <2>1. SameQueues(b)
    BY <1>1, <1>6, AgainCarriesNone DEF Staying, SameQueues
  <2>2. Loose(b, Carrying)' /\ (Anywhere(b, Carrying)' <=> Anywhere(b, Carrying))
    BY <1>2, <2>1, SameLoose DEF SameQueues, Owned, OneTurn
  <2>3. OneTurn(b)' /\ \A r \in Held(b)' : r.agent = b
    BY <1>2, <2>1, <2>2 DEF SameQueues, Owned, OneTurn, Single
  <2> QED  BY <1>4, <1>5, <2>3 DEF Owned
<1>7. CASE b \in S
  <2>1. /\ ~Has(Staying(b, S, Pas(b)), Carrying)
        /\ ~Has(Staying(b, S, Held(b)), Carrying)
        /\ ~Has(Staying(b, S, Park(b)), Carrying)
        /\ Staying(b, S, Park(b)) \subseteq Park(b)
        /\ Staying(b, S, Held(b)) \subseteq Held(b)
    BY <1>3, <1>7, StayingCarriesNone
  <2>2. ~Has(Staying(b, S, Pend(b)) \cup Again(b, S), Carrying)
    <3>1. ~Has(Staying(b, S, Pend(b)), Carrying) /\ ~Has(Again(b, S), Carrying)
      BY <1>3, <1>7, StayingCarriesNone, AgainCarriesNone
    <3> QED  BY <3>1, TogetherRequests
  <2>3. ~Anywhere(b, Carrying)' /\ Loose(b, Carrying)' /\ Single(Park(b), Carrying)'
    BY <1>1, <2>1, <2>2 DEF Anywhere, Loose, Single, Has
  <2>4. /\ \A r, s \in Park(b)' : r = s
        /\ Park(b)' # {} => Park(b) # {}
    BY <1>1, <1>2, <2>1 DEF Owned, OneTurn
  <2>5. OneTurn(b)' /\ \A r \in Held(b)' : r.agent = b
    BY <1>1, <1>2, <2>1, <2>3, <2>4 DEF Owned, OneTurn
  <2> QED  BY <1>4, <1>5, <2>5 DEF Owned
<1> QED  BY <1>6, <1>7

-----------------------------------------------------------------------------
(* The operator's calls.                                                    *)
LEMMA AbortOwned ==
    ASSUME OInv, NEW a \in Agent, Abort(a)
    PROVE  Owners'
<1>1. UNCHANGED <<token, closed>>
  BY DEF Abort, host
<1>2. CASE \E f \in Abortable(a) :
             /\ f.stop = "none"
             /\ Become(f, [f EXCEPT !.stop = "caller"])
             /\ UNCHANGED <<pending, pass, parked, hold, gate, aux, over, dropped>>
  <2>1. PICK f \in frames : /\ f.stop = "none" /\ Become(f, [f EXCEPT !.stop = "caller"])
                            /\ UNCHANGED <<pending, pass, parked, hold, gate, aux>>
    BY <1>2 DEF Abortable
  <2> DEFINE g == [f EXCEPT !.stop = "caller"]
  <2>2. g.tok = f.tok /\ g.agent = f.agent /\ (Living(g) => Living(f))
    <3>1. f \in Frame
      BY FrameTyped DEF OInv
    <3> QED  BY <2>1, <3>1 DEF Frame, Living, Gone
  <2>3. \A b \in Agent : SameQueues(b) /\ gate'[b].depth = gate[b].depth
    BY <2>1 DEF SameQueues, Pend, Pas, Held, Park
  <2> HIDE DEF g
  <2>4. Become(f, g)
    BY <2>1 DEF g
  <2> QED  BY <1>1, <2>1, <2>2, <2>3, <2>4, FrameOnlyOwned
<1>3. CASE DropContinuations({a}, TRUE) /\ UNCHANGED frames
  <2>1. \A b \in Agent : Toks(b)' = Toks(b) /\ LiveToks(b)' = LiveToks(b)
    BY <1>3 DEF Toks, LiveToks, FramesOf, Living
  <2>2. \A b \in Agent : Owned(b)'
    BY <1>1, <1>3, <2>1, DroppedOwned
  <2>3. Distinct'
    BY <1>3, StillDistinct DEF OInv, Owners
  <2> QED  BY <2>2, <2>3 DEF Owners
<1> QED  BY <1>2, <1>3 DEF Abort

LEMMA AbandonOwned ==
    ASSUME OInv, Abandon
    PROVE  Owners'
<1> DEFINE S == {r.agent : r \in OnTheirWay({})}
           abandoned(f) == /\ f.agent \notin S
                           /\ f.stop \in {"none", "caller"}
                           /\ Waiting(f) \/ (f.phase = "streaming" /\ f.stop = "none")
           M == {f \in frames : abandoned(f)}
<1>1. /\ DropContinuations(S, TRUE)
      /\ frames' = {IF abandoned(f) THEN [f EXCEPT !.stop = "abandon"] ELSE f : f \in frames}
      /\ UNCHANGED <<token, closed>>
  BY DEF Abandon, host
<1>2. frames' = {IF f \in M THEN [f EXCEPT !.stop = "abandon"] ELSE f : f \in frames}
  <2>1. \A f \in frames : abandoned(f) <=> f \in M
    OBVIOUS
  <2> HIDE DEF abandoned, M
  <2> QED  BY <1>1, <2>1
<1>3. TypeOK /\ Distinct /\ \A f \in M : f.stop \notin Gone
  BY DEF OInv, Owners, Gone
<1> HIDE DEF M, S
<1>4. Distinct' /\ \A b \in Agent : Toks(b)' = Toks(b) /\ LiveToks(b)' \subseteq LiveToks(b)
  BY <1>2, <1>3, MarkedToks
<1>5. \A b \in Agent : Owned(b)'
  BY <1>1, <1>4, DroppedOwned
<1> QED  BY <1>4, <1>5 DEF Owners

(* A closed host counts no more turns; what carried one on is gone.         *)
LEMMA StopOwned ==
    ASSUME OInv, Stop
    PROVE  Owners'
<1> DEFINE M == {f \in frames : f.phase = "streaming" /\ f.stop \in {"none", "abandon"}}
<1>1. closed' /\ UNCHANGED token
  BY DEF Stop
<1>2. frames' = {IF f \in M THEN [f EXCEPT !.stop = "shutdown"] ELSE f : f \in frames}
  <2>1. frames' = {IF f.phase = "streaming" /\ f.stop \in {"none", "abandon"}
                   THEN [f EXCEPT !.stop = "shutdown"] ELSE f : f \in frames}
    BY DEF Stop
  <2>2. \A f \in frames : f.phase = "streaming" /\ f.stop \in {"none", "abandon"} <=> f \in M
    OBVIOUS
  <2> HIDE DEF M
  <2> QED  BY <2>1, <2>2
<1>3. TypeOK /\ Distinct /\ \A f \in M : f.stop \notin Gone
  BY DEF OInv, Owners, Gone
<1> HIDE DEF M
<1>4. Distinct' /\ \A b \in Agent : Toks(b)' = Toks(b) /\ LiveToks(b)' \subseteq LiveToks(b)
  BY <1>2, <1>3, MarkedToks
<1>5. ASSUME NEW b \in Agent
      PROVE  Owned(b)'
  <2>1. Owned(b)
    BY DEF OInv, Owners
  <2>2. /\ ~Has(Pend(b), Carrying)' /\ ~Has(Pas(b), Carrying)' /\ ~Has(Park(b), Carrying)'
        /\ Held(b)' = {}
    <3>1. \A r : ContinuesTurn(r) <=> \E p \in r.parts : Continues(p)
      BY DEF ContinuesTurn
    <3>2. /\ \A r \in pending' : ~ContinuesTurn(r)
          /\ \A r \in pass' : ~ContinuesTurn(r)
          /\ \A r \in parked' : ~ContinuesTurn(r)
      BY DEF Stop
    <3>3. hold'[b].held = {}
      BY DEF Stop, NoHold
    <3> QED  BY <3>1, <3>2, <3>3 DEF Has, Pend, Pas, Park, Held, Of, Carrying
  <2>3. Park(b)' \subseteq Park(b)
    BY DEF Stop, Park, Of
  <2>4. Loose(b, Carrying)' /\ ~Anywhere(b, Carrying)' /\ Single(Park(b), Carrying)'
    BY <2>2 DEF Loose, Anywhere, Single, Has
  <2>5. OneTurn(b)'
    BY <1>1, <1>4, <2>1, <2>3, <2>4 DEF Owned, OneTurn
  <2>6. Balanced(b)' /\ Excluded(b)'
    BY <1>1, <1>4, <2>1 DEF Owned, Balanced, Excluded
  <2> QED  BY <2>2, <2>5, <2>6 DEF Owned
<1> QED  BY <1>4, <1>5 DEF Owners

(* Steps that only mark the host.                                           *)
LEMMA MarksOwned ==
    ASSUME OInv, UNCHANGED <<work, gate, aux, hold, parked, frames, token, closed>>
    PROVE  Owners'
<1>1. ASSUME NEW b \in Agent
      PROVE  Owned(b)'
  <2>1. SameQueues(b) /\ Calm(b) /\ gate'[b].depth = gate[b].depth
    BY SameCalm DEF SameQueues, Pend, Pas, Held, Park, work
  <2>2. Quiet(b)
    BY <2>1, SameFramesQuiet
  <2> QED  BY <2>1, <2>2, UntouchedOwned DEF OInv, Owners
<1>2. Distinct'
  BY StillDistinct DEF OInv, Owners
<1> QED  BY <1>1, <1>2 DEF Owners

-----------------------------------------------------------------------------
(* Every step keeps the turns owned.                                        *)
LEMMA InitiallyOwned ==
    ASSUME Init
    PROVE  Owners
<1>1. ASSUME NEW b \in Agent
      PROVE  Owned(b)
  <2>1. /\ Pend(b) = {} /\ Pas(b) = {} /\ Held(b) = {} /\ Park(b) = {}
        /\ Toks(b) = {} /\ LiveToks(b) = {} /\ gate[b].depth = 0
    BY DEF Init, Pend, Pas, Held, Park, Of, Toks, LiveToks, FramesOf, NoHold, OpenGate
  <2>2. IsFiniteSet({}) /\ Cardinality({}) = 0
    BY FS_EmptySet
  <2>3. OneTurn(b)
    BY <2>1 DEF OneTurn, Loose, Anywhere, Single, Has
  <2>4. Balanced(b) /\ Excluded(b)
    BY <2>1, <2>2 DEF Balanced, Excluded
  <2> QED  BY <2>1, <2>3, <2>4 DEF Owned
<1>2. Distinct
  BY DEF Init, Distinct
<1> QED  BY <1>1, <1>2 DEF Owners

LEMMA StepOwned ==
    ASSUME OInv, [Next]_vars
    PROVE  Owners'
<1>1. CASE UNCHANGED vars
  BY <1>1, MarksOwned DEF vars, host
<1>2. ASSUME NEW w \in Wake, WakeArrives(w) \/ Withdraw(w)
      PROVE  Owners'
  BY <1>2, ArrivesOwned, WithdrawOwned
<1>3. CASE PassBegins \/ PassEnds
  BY <1>3, PassTurnsOwned
<1>4. ASSUME NEW a \in Agent, PassStep(a)
      PROVE  Owners'
  BY <1>4, PassKeepsOwned, ParksOwned, PassLeavesOwned, PassStartsOwned DEF PassStep
<1>5. ASSUME NEW r \in parked, UnparkGivesBack(r) \/ UnparkStarts(r)
      PROVE  Owners'
  BY <1>5, GivesBackOwned, UnparkStartsOwned
<1>6. ASSUME NEW f \in frames, FrameStep(f)
      PROVE  Owners'
  BY <1>6, FramesChangeOwned, BeginStreamsOwned, FailsHeldOwned, ExhaustedOwned, RetryOwned,
     CompletesOwned, BudgetOwned, LeavesOwned DEF FrameStep
<1>7. ASSUME NEW x \in Aux, AuxStep(x)
      PROVE  Owners'
  BY <1>7, AuxOwned
<1>8. ASSUME NEW a \in Agent, WaitEnds(a) \/ HoldExpires(a)
      PROVE  Owners'
  BY <1>8, HoldEndsOwned
<1>9. CASE Operator
  <2>1. CASE Quiesce \/ ResumeBegins \/ ResumeEnds
    BY <2>1, MarksOwned DEF Quiesce, ResumeBegins, ResumeEnds
  <2> QED  BY <1>9, <2>1, AbortOwned, AbandonOwned, StopOwned DEF Operator
<1> QED  BY <1>1, <1>2, <1>3, <1>4, <1>5, <1>6, <1>7, <1>8, <1>9 DEF Next

(* An agent's turn is carried by one thing at a time: a continuation queued,*)
(* in the pass's hands, held or parked, or the live turn with the agent's   *)
(* token.  The gate of a host that is not stopping counts the agent's       *)
(* frames and its parked start, and no auxiliary call runs beside a frame.  *)
THEOREM TurnsAreOwned == Spec => []OInv
<1>1. Init /\ TypeOK => OInv
  BY InitiallyOwned DEF OInv
<1>2. OInv /\ TypeOK' /\ [Next]_vars => OInv'
  BY StepOwned DEF OInv
<1> QED  BY <1>1, <1>2, TypeCorrect, PTL DEF Spec

-----------------------------------------------------------------------------
(* What the runs check.                                                     *)

(* As many frames as tokens.                                                *)
LEMMA FramesByToken ==
    ASSUME OInv, NEW a \in Agent
    PROVE  IsFiniteSet(FramesOf(a)) /\ Cardinality(FramesOf(a)) = Cardinality(Toks(a))
<1> DEFINE tokOf == [f \in FramesOf(a) |-> f.tok]
<1>1. \A f, g \in FramesOf(a) : f.tok = g.tok => f = g
  BY DEF OInv, Owners, Distinct, FramesOf
<1>2. tokOf \in [FramesOf(a) -> Toks(a)]
  BY DEF Toks
<1>3. tokOf \in Injection(FramesOf(a), Toks(a))
  BY <1>1, <1>2, Fun_IsInj
<1>4. tokOf \in Surjection(FramesOf(a), Toks(a))
  <2>1. \A t \in Toks(a) : \E f \in FramesOf(a) : tokOf[f] = t
    BY DEF Toks
  <2> QED  BY <1>2, <2>1, Fun_IsSurj
<1>5. IsFiniteSet(Toks(a))
  BY DEF OInv, Owners, Owned, Balanced
<1> HIDE DEF tokOf
<1> QED  BY <1>3, <1>4, <1>5, FS_Injection

(* No more than one.                                                        *)
LEMMA NoMoreThanOne ==
    ASSUME NEW S, \A x, y \in S : x = y
    PROVE  Cardinality(S) = IF S = {} THEN 0 ELSE 1
<1>1. CASE S = {}
  BY <1>1, FS_EmptySet
<1>2. CASE S # {}
  <2>1. PICK x : S = {x}
    BY <1>2
  <2>2. Cardinality({x}) = 1
    BY FS_Singleton
  <2> QED  BY <1>2, <2>1, <2>2
<1> QED  BY <1>1, <1>2

(* Primary depth counts exactly the agent's turns between admission and     *)
(* release: acquireProviderGate and releaseProviderGate pair off on every   *)
(* way a turn starts, parks, fails, restarts and ends.                      *)
THEOREM GateCountsTurns == Spec => []GateBalance
<1>1. OInv => GateBalance
  <2> SUFFICES ASSUME OInv, ~closed, NEW a \in Agent
               PROVE  gate[a].depth = Cardinality(FramesOf(a)) + Cardinality(Park(a))
    BY DEF GateBalance, Park
  <2>1. Cardinality(FramesOf(a)) = Cardinality(Toks(a))
    BY FramesByToken
  <2>2. /\ Cardinality(Toks(a)) \in Nat
        /\ Park(a) = {} => gate[a].depth = Cardinality(Toks(a))
        /\ Park(a) # {} => gate[a].depth = Cardinality(Toks(a)) + 1
    BY CountedGate
  <2>3. Cardinality(Park(a)) = IF Park(a) = {} THEN 0 ELSE 1
    <3>1. \A r, s \in Park(a) : r = s
      BY DEF OInv, Owners, Owned, OneTurn
    <3> QED  BY <3>1, NoMoreThanOne
  <2> QED  BY <2>1, <2>2, <2>3
<1> QED  BY <1>1, TurnsAreOwned, PTL

(* A live turn's stream or start owns the agent's entry of activeTurnTokens,*)
(* so that nothing starts beside it and a stop reaches it.                  *)
THEOREM LiveTurnsHoldTokens == Spec => []LiveTurnHoldsToken
<1>1. OInv => LiveTurnHoldsToken
  <2> SUFFICES ASSUME OInv, NEW f \in frames, f.phase \in {"starting", "streaming"}, f.stop = "none"
               PROVE  token[f.agent] = f.tok
    BY DEF LiveTurnHoldsToken
  <2>1. f.agent \in Agent
    BY FrameTyped DEF OInv
  <2>2. f.tok \in LiveToks(f.agent)
    BY DEF LiveToks, FramesOf, Living, Gone
  <2> QED  BY <2>1, <2>2 DEF OInv, Owners, Owned, OneTurn
<1> QED  BY <1>1, TurnsAreOwned, PTL

(* While an auxiliary call runs under withAuxiliaryAdmission, no primary    *)
(* turn of its agent is under way.                                          *)
THEOREM CallsRunAlone == Spec => []AuxiliaryExclusion
<1>1. OInv => AuxiliaryExclusion
  <2> SUFFICES ASSUME OInv, ~closed, NEW x \in Aux, aux[x] = "running"
               PROVE  FramesOf(AuxAgent[x]) = {}
    BY DEF AuxiliaryExclusion
  <2>1. AuxAgent[x] \in Agent
    BY SchedulerConstants
  <2>2. Toks(AuxAgent[x]) = {}
    BY <2>1 DEF OInv, Owners, Owned, Excluded
  <2> QED  BY <2>2 DEF Toks
<1> QED  BY <1>1, TurnsAreOwned, PTL

(* An agent's turn goes on in one place only: a continuation queued, held   *)
(* or parked, or the live turn.  A restart or a retry never runs beside the *)
(* turn it carries on, nor twice.                                           *)
THEOREM TurnsGoOnOnce == Spec => []OneContinuation
<1>1. OInv => OneContinuation
  <2> SUFFICES ASSUME OInv, NEW a \in Agent
               PROVE  Cardinality({r \in OnTheirWay({}) : r.agent = a})
                        + Cardinality({f \in FramesOf(a) : f.stop = "none"
                                         /\ f.phase \in {"starting", "backoff", "streaming"}}) <= 1
    BY DEF OneContinuation
  <2> DEFINE X == {r \in OnTheirWay({}) : r.agent = a}
             Y == {f \in FramesOf(a) : f.stop = "none"
                     /\ f.phase \in {"starting", "backoff", "streaming"}}
  <2>1. OneTurn(a) /\ TypeOK /\ Distinct
    BY DEF OInv, Owners, Owned
  <2>2. /\ Pend(a) \in SUBSET Request /\ Pas(a) \in SUBSET Request
        /\ Held(a) \in SUBSET Request /\ Park(a) \in SUBSET Request
    BY <2>1, QueuesTyped
  <2>3. \A r \in X : ContinuesTurn(r) /\ (r \in Pend(a) \/ r \in Pas(a) \/ r \in Held(a) \/ r \in Park(a))
    <3>1. \A b \in Agent : \A r \in hold[b].held : r.agent = b
      BY DEF OInv, Owners, Owned, Held
    <3> QED  BY <3>1 DEF OnTheirWay, Pend, Pas, Held, Park, Of
  <2>4. \A r \in X : r \in Request /\ \E p \in r.parts : p \in Carrying
    BY <2>2, <2>3 DEF ContinuesTurn, Carrying, Request
  <2>5. X # {} => Anywhere(a, Carrying) \/ Park(a) # {}
    BY <2>3, <2>4 DEF Anywhere, Has
  <2>6. \A r, s \in X : r = s
    <3> SUFFICES ASSUME NEW r \in X, NEW s \in X
                 PROVE  r = s
      OBVIOUS
    <3>1. PICK p \in r.parts, q \in s.parts : p \in Carrying /\ q \in Carrying
      BY <2>4
    <3>2. \A R : r \in R => Has(R, Carrying)
      BY <3>1 DEF Has
    <3>3. \A R : s \in R => Has(R, Carrying)
      BY <3>1 DEF Has
    <3>4. \A R : r \in R /\ s \in R /\ Single(R, Carrying) => r = s
      BY <3>1 DEF Single
    <3> QED  BY <2>1, <2>3, <3>2, <3>3, <3>4 DEF OneTurn, Loose, Anywhere
  <2>7. \A f \in Y : f.tok = token[a] /\ f \in frames
    BY <2>1 DEF OneTurn, LiveToks, Living, FramesOf, Gone
  <2>8. \A f, g \in Y : f = g
    BY <2>1, <2>7 DEF Distinct
  <2>9. X # {} => Y = {}
    <3>1. Y # {} => LiveToks(a) # {}
      BY DEF LiveToks, Living, Gone
    <3> QED  BY <2>1, <2>5, <3>1 DEF OneTurn
  <2> HIDE DEF X, Y
  <2>10. Cardinality(X) = (IF X = {} THEN 0 ELSE 1) /\ Cardinality(Y) = (IF Y = {} THEN 0 ELSE 1)
    BY <2>6, <2>8, NoMoreThanOne
  <2>11. Cardinality(X) + Cardinality(Y) <= 1
    BY <2>9, <2>10
  <2> QED  BY <2>11 DEF X, Y
<1> QED  BY <1>1, TurnsAreOwned, PTL
=============================================================================
