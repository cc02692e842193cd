-------------------------- MODULE AwarenessLedger --------------------------
(***************************************************************************)
(* The awareness marks ledger (src/recovery/discord-awareness-outbox.ts):  *)
(* one entry per reaction, what the acts that still stand want of it,      *)
(* whether a request is owed, and what was last answered.  Each act is an  *)
(* operator from the ledger before it to the ledger after it; a write that *)
(* fails leaves the file, and so the ledger, as it was.                    *)
(***************************************************************************)
EXTENDS Integers, FiniteSets

CONSTANTS
    Mark,           \* reactions: a route, channel, message and emoji
    Batch,          \* surgeries that choose marks
    Retract,        \* retract requests
    RefsOf,         \* [Batch -> SUBSET Mark]
    Suppression,    \* the batches with suppression intervals
    MaxAttempts     \* MAX_UNCONFIRMED_ATTEMPTS

ASSUME LedgerConstants ==
    /\ RefsOf \in [Batch -> SUBSET Mark]
    /\ Suppression \subseteq Batch
    /\ Batch \cap Retract = {}
    /\ MaxAttempts \in Nat \ {0}

Act == Batch \cup Retract
Action == {"add", "remove"}
Nothing == [action |-> "none", due |-> 0]

Entries == [wanted : {"none", "present", "absent"}, by : SUBSET Act,
            retracted : Nat, due : Nat, attempts : Nat,
            sending : [action : Action, due : Nat] \cup {Nothing},
            confirmed : {"none", "present", "absent", "unknown"},
            mayLand : SUBSET Action]

Ledgers == [moment : Nat,
            status : [Batch -> {"none", "prepared", "active", "retired"}],
            chosen : [Batch -> Nat], made : SUBSET Retract,
            cancelled : SUBSET Act, entry : [Mark -> Entries]]

NewEntry == [wanted |-> "none", by |-> {}, retracted |-> 0, due |-> 0, attempts |-> 0,
             sending |-> Nothing, confirmed |-> "none", mayLand |-> {}]

NewLedger == [moment |-> 0, status |-> [b \in Batch |-> "none"],
              chosen |-> [b \in Batch |-> 0], made |-> {}, cancelled |-> {},
              entry |-> [m \in Mark |-> NewEntry]]

-----------------------------------------------------------------------------
(* One entry.                                                               *)

(* addEntry, owe: an act wants this of the reaction, joining the acts that  *)
(* want the same, and a request is owed for it afresh.                      *)
Wants(e, wish, act, moment) ==
    [e EXCEPT !.wanted = wish,
              !.by = IF e.wanted = wish THEN e.by \cup {act} ELSE {act},
              !.due = moment, !.attempts = 0]

CountAttempt(e, due, permanent) ==
    IF due # e.due THEN e
    ELSE LET n == e.attempts + 1 IN
         [e EXCEPT !.attempts = n,
                   !.due = IF permanent \/ n >= MaxAttempts THEN 0 ELSE e.due]

(* Defect: a request nobody answered does not count as an attempt.          *)
UnansweredUncounted(e) ==
    [e EXCEPT !.sending = Nothing, !.confirmed = "unknown",
              !.mayLand = e.mayLand \cup {e.sending.action}]

RecordUnanswered(e) ==
    CountAttempt([e EXCEPT !.sending = Nothing, !.confirmed = "unknown",
                           !.mayLand = e.mayLand \cup {e.sending.action}],
                 e.sending.due, FALSE)

Answered(action) == IF action = "add" THEN "present" ELSE "absent"

(* Defect: an answer takes back what an earlier request may still do.       *)
ConfirmSettles(e) ==
    LET ends == e.sending.due = e.due IN
    [e EXCEPT !.sending = Nothing, !.confirmed = Answered(e.sending.action),
              !.due = IF ends THEN 0 ELSE e.due,
              !.attempts = IF ends THEN 0 ELSE e.attempts, !.mayLand = {}]

(* recordOutcome.                                                           *)
RecordConfirmed(e) ==
    LET ends == e.sending.due = e.due IN
    [e EXCEPT !.sending = Nothing, !.confirmed = Answered(e.sending.action),
              !.due = IF ends THEN 0 ELSE e.due,
              !.attempts = IF ends THEN 0 ELSE e.attempts]

RecordNotSent(e) == [e EXCEPT !.sending = Nothing]

RecordFailed(e, permanent) == CountAttempt(RecordNotSent(e), e.sending.due, permanent)

(* cancel takes an act out of the entry: one no act wants is owed nothing.  *)
WithoutAct(e, act) ==
    IF act \notin e.by THEN e
    ELSE IF e.by # {act} THEN [e EXCEPT !.by = e.by \ {act}]
    ELSE [e EXCEPT !.by = {}, !.wanted = "none", !.due = 0, !.attempts = 0]

-----------------------------------------------------------------------------
(* The acts.                                                                *)

Prepare(l, b) ==
    [l EXCEPT !.moment = l.moment + 1, !.chosen[b] = l.moment + 1,
              !.status[b] = "prepared"]

PendingSuppression(l, b) == l.status[b] = "prepared" /\ b \in Suppression

(* Defect: a retract made since the surgery's choice is overridden.         *)
ActivateOverRetracts(l, b) ==
    [l EXCEPT !.moment = l.moment + 1, !.status[b] = "active",
              !.entry = [m \in Mark |->
                  IF m \in RefsOf[b] THEN Wants(l.entry[m], "present", b, l.moment + 1)
                  ELSE l.entry[m]]]

(* activateIn: a retract made since the surgery's choice decides, so the    *)
(* mark is not owed there.                                                  *)
Activate(l, b) ==
    LET moment == l.moment + 1
        owed == {m \in RefsOf[b] : l.entry[m].retracted <= l.chosen[b]}
    IN  [l EXCEPT !.moment = moment, !.status[b] = "active",
                  !.entry = [m \in Mark |->
                      IF m \in owed THEN Wants(l.entry[m], "present", b, moment)
                      ELSE l.entry[m]]]

Retire(l, b) == [l EXCEPT !.status[b] = "retired"]

Cancel(l, act) ==
    [l EXCEPT !.cancelled = l.cancelled \cup {act},
              !.entry = [m \in Mark |->
                  IF act \in Batch /\ l.status[act] = "prepared" THEN l.entry[m]
                  ELSE WithoutAct(l.entry[m], act)]]

(* The keys of a retract of everything: the refs of every batch not retired *)
(* and every entry the ledger holds.  An entry exists once a batch that     *)
(* names it was activated or a retract selected it.                         *)
Everything(l) ==
    {m \in Mark : \/ \E b \in Batch : l.status[b] \in {"prepared", "active"} /\ m \in RefsOf[b]
                  \/ l.entry[m].retracted # 0}

MakeRetract(l, r, keys) ==
    LET moment == l.moment + 1 IN
    [l EXCEPT !.moment = moment, !.made = l.made \cup {r},
              !.entry = [m \in Mark |->
                  IF m \in keys
                  THEN Wants([l.entry[m] EXCEPT !.retracted = moment], "absent", r, moment)
                  ELSE l.entry[m]]]

-----------------------------------------------------------------------------
(* Requests.                                                                *)

Request(l, m) ==
    [mark |-> m, due |-> l.entry[m].due,
     action |-> IF l.entry[m].wanted = "present" THEN "add" ELSE "remove"]

OwedRequests(l) ==
    {Request(l, m) : m \in {k \in Mark : /\ l.entry[k].due # 0
                                         /\ l.entry[k].sending = Nothing
                                         /\ l.entry[k].wanted # "none"}}

(* claim: a request still marked on the wire is one whose answer could not  *)
(* be written; recoverAtStartup: one the previous process left.             *)
Release(l) ==
    [l EXCEPT !.entry = [m \in Mark |->
        IF l.entry[m].sending = Nothing THEN l.entry[m] ELSE RecordUnanswered(l.entry[m])]]

WriteAhead(l, request) ==
    [l EXCEPT !.entry[request.mark].sending = [action |-> request.action, due |-> request.due]]

Record(l, m, entry) == [l EXCEPT !.entry[m] = entry]

(* Defect: a start retires what an interrupted suppression has still to do. *)
RetireEveryPrepared(l) ==
    [l EXCEPT !.status = [b \in Batch |->
        IF l.status[b] = "prepared" THEN "retired" ELSE l.status[b]]]

(* recoverAtStartup retires what interrupted surgeries left, but for a      *)
(* suppression, whose body a start on its branch finishes.                  *)
RetireInterrupted(l) ==
    [l EXCEPT !.status = [b \in Batch |->
        IF l.status[b] = "prepared" /\ b \notin Suppression THEN "retired" ELSE l.status[b]]]
=============================================================================
