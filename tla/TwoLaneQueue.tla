---------------------------- MODULE TwoLaneQueue ----------------------------
(***************************************************************************)
(* What the process queue promises: two FIFO lanes, external messages      *)
(* first.  An event accepted while nothing is queued may be delivered at   *)
(* once.                                                                   *)
(***************************************************************************)
EXTENDS Sequences

CONSTANTS Event, External

VARIABLES external, internal, delivered

vars == <<external, internal, delivered>>

Init == external = <<>> /\ internal = <<>> /\ delivered = <<>>

Accept(e) ==
    /\ IF e \in External
       THEN external' = Append(external, e) /\ UNCHANGED internal
       ELSE internal' = Append(internal, e) /\ UNCHANGED external
    /\ UNCHANGED delivered

HandOver(e) ==
    /\ external = <<>> /\ internal = <<>>
    /\ delivered' = Append(delivered, e)
    /\ UNCHANGED <<external, internal>>

ServeExternal ==
    /\ external # <<>>
    /\ delivered' = Append(delivered, Head(external))
    /\ external' = Tail(external)
    /\ UNCHANGED internal

ServeInternal ==
    /\ external = <<>>
    /\ internal # <<>>
    /\ delivered' = Append(delivered, Head(internal))
    /\ internal' = Tail(internal)
    /\ UNCHANGED external

Discard == external' = <<>> /\ internal' = <<>> /\ UNCHANGED delivered

Next ==
    \/ \E e \in Event : Accept(e) \/ HandOver(e)
    \/ ServeExternal
    \/ ServeInternal
    \/ Discard

Spec == Init /\ [][Next]_vars
=============================================================================
