---------------------------- MODULE ProcessQueue ----------------------------
(***************************************************************************)
(* The framework's event queue (src/queue.ts): one array holding two lanes *)
(* in front of each other.  External messages go ahead of internal work,   *)
(* each lane keeping its order of arrival; a consumer that finds the array *)
(* empty leaves a waiter, which the next push resolves directly.           *)
(***************************************************************************)
EXTENDS Naturals, Sequences, SequencesExt, FiniteSets

CONSTANTS
    Event,      \* process events, each pushed at most once
    External,   \* those of type 'external-message'
    Caller,     \* callers of pop(), each with at most one call pending
    Idle,       \* the result of a caller that never called
    Pending     \* the result of a call that has not settled

ASSUME QueueConstants ==
    /\ External \subseteq Event
    /\ Idle # Pending /\ {Idle, Pending} \cap Event = {}

VARIABLES
    queue,      \* ProcessQueueImpl.queue
    waiters,    \* ProcessQueueImpl.waiters
    closed,     \* ProcessQueueImpl.closed
    pushed,     \* history: the events push() has accepted
    delivered,  \* history: the events handed to a consumer, in order
    result      \* what the last pop() of each caller resolved to

vars == <<queue, waiters, closed, pushed, delivered, result>>

Init ==
    /\ queue = <<>>
    /\ waiters = <<>>
    /\ closed = FALSE
    /\ pushed = {}
    /\ delivered = <<>>
    /\ result = [c \in Caller |-> Idle]

Internal(e) == e \notin External

(* Defect: the newest external message goes to the very front.              *)
JumpExternalLane(q, e) == <<e>> \o q

(* The array after an external message joined the end of its lane.         *)
JoinExternalLane(q, e) ==
    LET firstInternal == SelectInSeq(q, Internal)
    IN  IF firstInternal = 0 THEN Append(q, e) ELSE InsertAt(q, firstInternal, e)

(* The promise of caller c's pop() resolves to e.                           *)
Resolve(c, e) ==
    /\ result' = [result EXCEPT ![c] = e]
    /\ delivered' = Append(delivered, e)

Enqueue(e) ==
    queue' = IF Internal(e) THEN Append(queue, e) ELSE JoinExternalLane(queue, e)

(* Defect: every event goes through the array, past the waiters.            *)
PushPastWaiters(e) ==
    /\ ~closed
    /\ e \notin pushed
    /\ pushed' = pushed \cup {e}
    /\ Enqueue(e)
    /\ UNCHANGED <<waiters, result, delivered, closed>>

-----------------------------------------------------------------------------
(* push(): a waiting consumer is served before anything is queued.         *)
Push(e) ==
    /\ ~closed
    /\ e \notin pushed
    /\ pushed' = pushed \cup {e}
    /\ \/ /\ waiters # <<>>
          /\ waiters' = Tail(waiters)
          /\ Resolve(Head(waiters), e)
          /\ UNCHANGED queue
       \/ /\ waiters = <<>>
          /\ Enqueue(e)
          /\ UNCHANGED <<waiters, result, delivered>>
    /\ UNCHANGED closed

(* pop(): throws when closed, takes the head, or waits.                     *)
Pop(c) ==
    /\ ~closed
    /\ result[c] # Pending
    /\ \/ /\ queue # <<>>
          /\ queue' = Tail(queue)
          /\ Resolve(c, Head(queue))
          /\ UNCHANGED waiters
       \/ /\ queue = <<>>
          /\ waiters' = Append(waiters, c)
          /\ result' = [result EXCEPT ![c] = Pending]
          /\ UNCHANGED <<queue, delivered>>
    /\ UNCHANGED <<closed, pushed>>

(* tryPop(): what the event loop uses; it still drains a closed queue.     *)
TryPop ==
    /\ queue # <<>>
    /\ queue' = Tail(queue)
    /\ delivered' = Append(delivered, Head(queue))
    /\ UNCHANGED <<waiters, closed, pushed, result>>

Clear ==
    /\ queue' = <<>>
    /\ UNCHANGED <<waiters, closed, pushed, delivered, result>>

(* close(): the resolvers of pending pops are dropped, not rejected.        *)
Close ==
    /\ closed' = TRUE
    /\ waiters' = <<>>
    /\ UNCHANGED <<queue, pushed, delivered, result>>

Next ==
    \/ \E e \in Event : Push(e)
    \/ \E c \in Caller : Pop(c)
    \/ TryPop
    \/ Clear
    \/ Close

Spec == Init /\ [][Next]_vars
-----------------------------------------------------------------------------
(* No consumer sleeps beside work: the array and the waiter list are never *)
(* both occupied, whatever interleaving of push, pop, tryPop and close.    *)
NoSleeperBesideWork == queue = <<>> \/ waiters = <<>>

(* An accepted event is queued once or delivered once and never both; the  *)
(* direct hand-off to a waiter must not also leave the event in the array. *)
DeliveredAtMostOnce ==
    /\ queue \o delivered \in Seq(pushed) /\ waiters \in Seq(Caller)
    /\ IsInjective(queue \o delivered)

(* The array is two lanes in order of arrival, parted at the first internal *)
(* event: an implementation of the pair of FIFO queues in which the         *)
(* external one is served first.                                            *)
Externals(q) ==
    LET firstInternal == SelectInSeq(q, Internal)
    IN  IF firstInternal = 0 THEN Len(q) ELSE firstInternal - 1
Lanes == INSTANCE TwoLaneQueue
    WITH external <- SubSeq(queue, 1, Externals(queue)),
         internal <- SubSeq(queue, Externals(queue) + 1, Len(queue))
ImplementsTwoLanes == Lanes!Spec
=============================================================================
