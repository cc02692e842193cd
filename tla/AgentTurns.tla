----------------------------- MODULE AgentTurns -----------------------------
(* What the turn scheduler of src/framework.ts promises of wakes and turns, *)
(* without its queues, holds and gate: a wake waits until a turn of its     *)
(* agent takes it, and is then that turn's until it is settled or given     *)
(* back; an agent has at most one turn, which may go on through restarts    *)
(* and held retries; and a quiesced host lets the turns it has go on to     *)
(* their ends and begins no other.                                          *)
EXTENDS FiniteSets

CONSTANTS Agent, Wake, AgentOf

VARIABLES
    stage,      \* where each wake stands
    alive,      \* agents with a turn under way (turnHolders)
    serving     \* not quiesced

vars == <<stage, alive, serving>>

Stage == {"new", "waiting", "inTurn", "done"}

At(s) == {w \in Wake : stage[w] = s}
OfAgent(a) == {w \in Wake : AgentOf[w] = a}
Move(W, s) == [w \in Wake |-> IF w \in W THEN s ELSE stage[w]]

Init ==
    /\ stage = [w \in Wake |-> "new"]
    /\ alive = {}
    /\ serving = TRUE

Arrive(w) ==
    /\ stage[w] = "new"
    /\ stage' = Move({w}, "waiting")
    /\ UNCHANGED <<alive, serving>>

(* A turn of a begins, or merges wakes into the one it carries on; wakes    *)
(* whose rows it finds read are settled.                                    *)
Begin(a) ==
    /\ serving
    /\ \E W \in SUBSET (At("waiting") \cap OfAgent(a)) :
       \E D \in SUBSET (At("waiting") \cap OfAgent(a)) :
         stage' = [w \in Wake |-> IF w \in W THEN "inTurn"
                                  ELSE IF w \in D THEN "done" ELSE stage[w]]
    /\ alive' = alive \cup {a}
    /\ UNCHANGED serving

(* An exhausted turn's wakes wait for another turn.                         *)
GiveBack(a) ==
    /\ a \in alive
    /\ \E W \in SUBSET (At("inTurn") \cap OfAgent(a)) : stage' = Move(W, "waiting")
    /\ UNCHANGED <<alive, serving>>

(* Wakes are answered, or dropped; turns end, with none of their wakes left.*)
Settle ==
    /\ \E W \in SUBSET (At("waiting") \cup At("inTurn")) : stage' = Move(W, "done")
    /\ alive' \in SUBSET alive
    /\ \A w \in Wake : stage'[w] = "inTurn" => AgentOf[w] \in alive'
    /\ UNCHANGED serving

Mode == serving' \in BOOLEAN /\ UNCHANGED <<stage, alive>>

Next ==
    \/ \E w \in Wake : Arrive(w)
    \/ \E a \in Agent : Begin(a) \/ GiveBack(a)
    \/ Settle
    \/ Mode

Spec == Init /\ [][Next]_vars

TypeOK ==
    /\ stage \in [Wake -> Stage]
    /\ alive \subseteq Agent
    /\ serving \in BOOLEAN

(* A wake in a turn belongs to an agent that has one.                       *)
InTurnIsAlive == \A w \in At("inTurn") : AgentOf[w] \in alive
=============================================================================
