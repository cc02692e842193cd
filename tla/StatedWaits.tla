----------------------------- MODULE StatedWaits -----------------------------
(* What src/provider-waits.ts promises of waits across restarts, without   *)
(* journal, checkpoints or failures: acts take effect in order; those       *)
(* recorded stay, the unrecorded ones may be lost with the process, last    *)
(* ones first; the longest wait stated binds until it passes or is released.*)
EXTENDS Naturals, Sequences, SequencesExt

CONSTANTS Agent, Model, EveryModel, LastInstant

VARIABLES
    kept,       \* deadlines that binding acts have set for good
    tentative,  \* acts made and not yet sure to be kept
    now

vars == <<kept, tentative, now>>

Key == Agent \X Model
Forever == LastInstant + 1

Passed(waits, t) == [k \in Key |-> IF waits[k] > t THEN waits[k] ELSE 0]

After(waits, act) ==
    [k \in Key |->
        IF act.agent # k[1] \/ act.model \notin {k[2], EveryModel} THEN waits[k]
        ELSE IF act.kind = "released" THEN 0
        ELSE IF waits[k] > act.until THEN waits[k] ELSE act.until]

Through(acts, n) ==
    LET upTo[i \in 0..n] == IF i = 0 THEN kept ELSE After(upTo[i - 1], acts[i])
    IN  upTo[n]

Init == kept = [k \in Key |-> 0] /\ tentative = <<>> /\ now = 0

Act == [kind : {"set", "released"}, agent : Agent, model : Model \cup {EveryModel},
        until : 0..Forever]

(* A wait is stated, or waits are released.                                 *)
Do ==
    /\ UNCHANGED now
    /\ tentative' # <<>>
    /\ LET act == Last(tentative')
       IN  /\ act \in Act
           /\ act.kind = "set" => act.until > now
           /\ tentative' = Append(tentative, act)
    /\ UNCHANGED kept

(* The first n unrecorded acts are recorded; the last of them may be        *)
(* offered once more, which changes nothing.                                *)
Record(n) ==
    /\ UNCHANGED now
    /\ tentative' \in {SubSeq(tentative, i, Len(tentative)) : i \in n..(n + 1)}
    /\ kept' = Passed(Through(tentative, n), now)

Restart ==
    /\ UNCHANGED now
    /\ \E n \in 0..Len(tentative) : tentative' = SubSeq(tentative, 1, n)
    /\ UNCHANGED kept

Tick ==
    /\ now < LastInstant
    /\ now' = now + 1
    /\ kept' = Passed(kept, now')
    /\ UNCHANGED tentative

Next ==
    \/ Restart
    \/ Do
    \/ \E n \in 1..Len(tentative) : Record(n)
    \/ Tick

Spec == Init /\ [][Next]_vars
=============================================================================
