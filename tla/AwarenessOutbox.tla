-------------------------- MODULE AwarenessOutbox --------------------------
(***************************************************************************)
(* The awareness ledger at work in the framework: surgeries that choose    *)
(* marks, the store whose branch they move, operator cancels and retracts, *)
(* the delivery pass to one Discord route (runDiscordAwarenessDrain), and  *)
(* stops, crashes and starts.  A write that fails leaves the ledger as it  *)
(* was, so an act that only writes needs no step for its failure.          *)
(***************************************************************************)
EXTENDS AwarenessLedger

CONSTANT MaxActs    \* bound of the instance: surgeries and retracts made

ASSUME OutboxConstants == MaxActs \in Nat

VARIABLES
    ledger,
    body,       \* where the store stands for a batch: "source", "fork" or "cut"
    stored,     \* the same on disk
    surgery,    \* the surgery under way
    host,
    connected,  \* the route
    pass,       \* the delivery pass
    joined,     \* discordAwarenessDrainsJoined
    pending,    \* a delivery is about to be asked for in the background
    there,      \* the marks on Discord
    late,       \* requests without an answer that Discord may still apply
    asked,      \* history: owed marks whose delivery an act or occasion asked for
    tries       \* history: requests sent for what the mark is owed now

work == <<body, stored, surgery>>
delivery == <<connected, pass, joined, pending>>
discord == <<there, late>>
history == <<asked, tries>>
vars == <<ledger, work, host, delivery, discord, history>>

NoSurgery == [batch |-> "none", step |-> "none"]
NoRequest == [mark |-> "none", due |-> 0, action |-> "none"]
Requests == [mark : Mark, due : Nat, action : Action]
NoPass == [at |-> "none", tried |-> {}, request |-> NoRequest, landed |-> FALSE, gone |-> FALSE]

Running == host \in {"up", "stopping"}
Signature(request) == <<request.mark, request.due>>
OwedMarks(l) == {q.mark : q \in OwedRequests(l)}

Init ==
    /\ ledger = NewLedger
    /\ body = [b \in Batch |-> "source"] /\ stored = body
    /\ surgery = NoSurgery
    /\ host = "up" /\ connected = TRUE
    /\ pass = NoPass /\ joined = FALSE /\ pending = FALSE
    /\ there = [m \in Mark |-> FALSE] /\ late = [m \in Mark |-> {}]
    /\ asked = {} /\ tries = [m \in Mark |-> 0]

(* What an act newly makes owed is asked for, and its attempts are counted  *)
(* afresh.                                                                  *)
Fresh(l) == {m \in Mark : l.entry[m].due \notin {0, ledger.entry[m].due}}
Tally(l) == tries' = [m \in Mark |-> IF l.entry[m].due = ledger.entry[m].due THEN tries[m] ELSE 0]
AsksFor(l) == asked' = asked \cup Fresh(l) /\ Tally(l)

Made == {b \in Batch : ledger.status[b] # "none"} \cup ledger.made
MoreActs == Cardinality(Made) < MaxActs

-----------------------------------------------------------------------------
(* Surgeries: one at a time (reserveStoreForSurgery).                       *)

Prepares(b) ==
    /\ host = "up" /\ surgery = NoSurgery
    /\ ledger.status[b] = "none" /\ MoreActs
    /\ ledger' = Prepare(ledger, b)
    /\ surgery' = [batch |-> b, step |-> "chosen"]
    /\ UNCHANGED <<body, stored, host, delivery, discord, history>>

At(step) == Running /\ surgery.step = step

(* branchAt and switchBranch for a rollback, fork for a suppression.        *)
Forks ==
    /\ At("chosen")
    /\ body' = [body EXCEPT ![surgery.batch] =
                   IF surgery.batch \in Suppression THEN "fork" ELSE "cut"]
    /\ surgery' = [surgery EXCEPT !.step = "forked"]
    /\ UNCHANGED <<ledger, stored, host, delivery, discord, history>>

(* The managers followed, and a suppression's removals made.                *)
Applies ==
    /\ At("forked")
    /\ body' = [body EXCEPT ![surgery.batch] = "cut"]
    /\ surgery' = [surgery EXCEPT !.step = "applied"]
    /\ UNCHANGED <<ledger, stored, host, delivery, discord, history>>

(* A move or a removal failed and the source branch was restored.           *)
Restores ==
    /\ (At("chosen") \/ At("forked"))
    /\ body' = [body EXCEPT ![surgery.batch] = "source"]
    /\ surgery' = [surgery EXCEPT !.step = "restored"]
    /\ UNCHANGED <<ledger, stored, host, delivery, discord, history>>

(* The source branch could not be confirmed: the batch is kept.             *)
KeepsAfterFailure ==
    /\ At("forked")
    /\ surgery' = NoSurgery
    /\ UNCHANGED <<ledger, body, stored, host, delivery, discord, history>>

(* retireAfterRestore: the store is synced first.  Or the write fails.      *)
Discards ==
    /\ At("restored")
    /\ surgery' = NoSurgery
    /\ \/ ledger' = Retire(ledger, surgery.batch) /\ stored' = body
       \/ UNCHANGED <<ledger, stored>>
    /\ UNCHANGED <<body, host, delivery, discord, history>>

(* activateSurgeryMarkers, settleActivation: the store is synced before the *)
(* write.  One that fails, or a batch cancelled meanwhile, is retired       *)
(* instead, and one that cannot be stays prepared.                          *)
Activates ==
    /\ At("applied")
    /\ surgery' = NoSurgery
    /\ pending' = TRUE
    /\ \/ /\ surgery.batch \notin ledger.cancelled
          /\ ledger' = Activate(ledger, surgery.batch)
          /\ stored' = body
       \/ ledger' = Retire(ledger, surgery.batch) /\ stored' = body
       \/ UNCHANGED <<ledger, stored>>
    /\ AsksFor(ledger')
    /\ UNCHANGED <<body, host, connected, pass, joined, discord>>

(* The store syncs for another writer.                                      *)
StoreSyncs ==
    /\ host # "down"
    /\ stored' = body
    /\ UNCHANGED <<ledger, body, surgery, host, delivery, discord, history>>

-----------------------------------------------------------------------------
(* Operator controls, refused once a stop has begun.                        *)

Cancels(act) ==
    /\ host = "up"
    /\ act \in Made \ ledger.cancelled
    /\ ledger' = Cancel(ledger, act)
    /\ asked' = {m \in asked : ledger'.entry[m].due # 0} /\ Tally(ledger')
    /\ UNCHANGED <<work, host, delivery, discord>>

Retracts(r, keys) ==
    /\ host = "up"
    /\ r \notin ledger.made /\ MoreActs
    /\ ledger' = MakeRetract(ledger, r, keys)
    /\ pending' = TRUE
    /\ AsksFor(ledger')
    /\ UNCHANGED <<work, host, connected, pass, joined, discord>>

RetractsBatch(r, b) == ledger.status[b] # "none" /\ Retracts(r, RefsOf[b])
RetractsAll(r) == Retracts(r, Everything(ledger))
-----------------------------------------------------------------------------
(* Delivery.                                                                *)

(* Defect: a trigger that meets a pass under way is taken as served by it.  *)
NobodyJoins ==
    /\ Running
    /\ pending' = FALSE
    /\ IF host = "up" /\ OwedRequests(ledger) # {}
       THEN /\ asked' = asked \cup OwedMarks(ledger)
            /\ pass' = IF pass.at = "none" /\ connected THEN [NoPass EXCEPT !.at = "loop"] ELSE pass
       ELSE UNCHANGED <<pass, asked>>
    /\ UNCHANGED <<ledger, work, host, connected, joined, discord, tries>>

(* deliverDiscordAwarenessInBackground after an act, a start or a connect,  *)
(* or an operator's sync: a server with a request owed gets a pass, or      *)
(* joins the one under way.                                                 *)
Delivers ==
    /\ Running
    /\ pending' = FALSE
    /\ IF host = "up" /\ OwedRequests(ledger) # {}
       THEN /\ asked' = asked \cup OwedMarks(ledger)
            /\ IF pass.at # "none" THEN joined' = TRUE /\ UNCHANGED pass
               ELSE /\ pass' = IF connected THEN [NoPass EXCEPT !.at = "loop"] ELSE pass
                    /\ UNCHANGED joined
       ELSE UNCHANGED <<pass, joined, asked>>
    /\ UNCHANGED <<ledger, work, host, connected, discord, tries>>

(* The pass ends, and asks for another if a trigger joined it unserved.     *)
Leaves ==
    /\ pass' = NoPass /\ joined' = FALSE
    /\ pending' = (pending \/ (joined /\ host = "up"))

(* The stop, or its route gone, ends the pass at its next request, what was *)
(* asked of it left to the next occasion.                                   *)
PassBreaks ==
    /\ Running /\ pass.at = "loop"
    /\ (host = "stopping" \/ ~connected \/ pass.gone)
    /\ Leaves
    /\ asked' = {}
    /\ UNCHANGED <<ledger, work, host, connected, discord, tries>>

Goes(request) ==
    /\ pass' = [pass EXCEPT !.at = "claimed", !.request = request]
    /\ asked' = asked \ {request.mark}

(* claim: what was left on the wire is released, and the oldest request     *)
(* this pass has not tried is written ahead.                                *)
PassClaims ==
    /\ host = "up" /\ pass.at = "loop" /\ connected /\ ~pass.gone
    /\ LET open == {q \in OwedRequests(Release(ledger)) : Signature(q) \notin pass.tried}
       IN  \E q \in open :
               /\ \A p \in open : q.due <= p.due
               /\ ledger' = WriteAhead(Release(ledger), q)
               /\ Goes(q)
    /\ Tally(ledger')
    /\ UNCHANGED <<work, host, connected, joined, pending, discord>>

(* Nothing is left to claim: what the pass tried is tried once more for a   *)
(* trigger that joined, or the pass ends.                                   *)
PassRunsOut ==
    /\ host = "up" /\ pass.at = "loop" /\ connected /\ ~pass.gone
    /\ \A q \in OwedRequests(Release(ledger)) : Signature(q) \in pass.tried
    /\ ledger' = Release(ledger)
    /\ joined' = FALSE
    /\ pass' = IF joined /\ pass.tried # {} THEN [pass EXCEPT !.tried = {}] ELSE NoPass
    /\ Tally(ledger')
    /\ UNCHANGED <<work, host, connected, pending, discord, asked>>

(* A write of the pass fails: an accounting error ends it, what it was      *)
(* asked for left to the next occasion.                                     *)
PassFails ==
    /\ Running
    /\ \/ pass.at = "loop" /\ connected /\ host = "up" /\ UNCHANGED late
       \/ /\ pass.at = "claimed" /\ UNCHANGED late
          /\ (host = "stopping" \/ ~connected \/ pass.gone)
       \/ /\ pass.at = "sent"
          /\ late' = IF pass.landed THEN late
                     ELSE [late EXCEPT ![pass.request.mark] = @ \cup {pass.request.action}]
    /\ Leaves
    /\ asked' = {}
    /\ UNCHANGED <<ledger, work, host, connected, there, tries>>

(* The request leaves the host, written ahead; it counts for what the mark  *)
(* is owed unless an act has replaced that meanwhile.                       *)
PassSends ==
    LET m == pass.request.mark IN
    /\ host = "up" /\ pass.at = "claimed" /\ connected /\ ~pass.gone
    /\ pass' = [pass EXCEPT !.at = "sent", !.landed = FALSE,
                            !.tried = @ \cup {Signature(pass.request)}]
    /\ tries' = IF ledger.entry[m].due = pass.request.due
                THEN [tries EXCEPT ![m] = @ + 1] ELSE tries
    /\ UNCHANGED <<ledger, work, host, connected, joined, pending, discord, asked>>

Entry == ledger.entry[pass.request.mark]

Answer(entry) ==
    /\ ledger' = Record(ledger, pass.request.mark, entry)
    /\ pass' = [pass EXCEPT !.at = "loop", !.request = NoRequest, !.landed = FALSE]
    /\ Tally(ledger')
    /\ UNCHANGED <<work, host, connected, joined, pending, there, asked>>

(* Refused before it left the host: the stop began, or the route is gone.   *)
PassGivesBack ==
    /\ Running /\ pass.at = "claimed"
    /\ (host = "stopping" \/ ~connected \/ pass.gone)
    /\ ledger' = Record(ledger, pass.request.mark, RecordNotSent(Entry))
    /\ pass' = [pass EXCEPT !.at = "loop", !.request = NoRequest,
                            !.tried = IF host = "stopping" THEN @
                                      ELSE @ \cup {Signature(pass.request)}]
    /\ UNCHANGED <<work, host, connected, joined, pending, discord, history>>

PassConfirmed ==
    /\ Running /\ pass.at = "sent" /\ pass.landed
    /\ Answer(RecordConfirmed(Entry))
    /\ UNCHANGED late

(* Discord refused it, for now or for good.                                 *)
PassRefused ==
    /\ Running /\ pass.at = "sent" /\ ~pass.landed
    /\ \E permanent \in BOOLEAN : Answer(RecordFailed(Entry, permanent))
    /\ UNCHANGED late

(* The deadline, a lost route or an answer that may come after the fact.    *)
PassUnanswered ==
    /\ Running /\ pass.at = "sent"
    /\ Answer(RecordUnanswered(Entry))
    /\ late' = IF pass.landed THEN late
               ELSE [late EXCEPT ![pass.request.mark] = @ \cup {pass.request.action}]

-----------------------------------------------------------------------------
(* Discord applies the request on the wire, or one nobody waits for.        *)

Applied(action) == action = "add"

Lands ==
    /\ pass.at = "sent" /\ ~pass.landed
    /\ there' = [there EXCEPT ![pass.request.mark] = Applied(pass.request.action)]
    /\ pass' = [pass EXCEPT !.landed = TRUE]
    /\ UNCHANGED <<ledger, work, host, connected, joined, pending, late, history>>

LandsLate(m) ==
    /\ \E action \in late[m] : there' = [there EXCEPT ![m] = Applied(action)]
    /\ UNCHANGED <<ledger, work, host, delivery, late, history>>

-----------------------------------------------------------------------------
(* The route and the process.                                               *)

(* The pass holds the connection it began with, which a reconnect keeps and *)
(* a new registration replaces.                                             *)
Disconnects ==
    /\ connected /\ host # "down"
    /\ connected' = FALSE
    /\ \E gone \in {pass.gone, pass.at # "none"} : pass' = [pass EXCEPT !.gone = gone]
    /\ asked' = {}
    /\ UNCHANGED <<ledger, work, host, joined, pending, discord, tries>>

Connects ==
    /\ ~connected /\ host = "up"
    /\ connected' = TRUE /\ pending' = TRUE
    /\ UNCHANGED <<ledger, work, host, pass, joined, discord, history>>

Stops ==
    /\ host = "up" /\ host' = "stopping"
    /\ asked' = {}
    /\ UNCHANGED <<ledger, work, delivery, discord, tries>>

(* The process ends, or a start that cannot write throws.                   *)
Ends ==
    /\ host # "down"
    /\ host' = "down"
    /\ body' = stored /\ surgery' = NoSurgery
    /\ pass' = NoPass /\ joined' = FALSE /\ pending' = FALSE /\ connected' = FALSE
    /\ late' = IF pass.at = "sent" /\ ~pass.landed
               THEN [late EXCEPT ![pass.request.mark] = @ \cup {pass.request.action}] ELSE late
    /\ asked' = {}
    /\ UNCHANGED <<ledger, stored, there, tries>>

(* recoverAtStartup; the store is synced if a batch is retired.             *)
Recovers ==
    /\ host = "down" /\ host' = "resuming"
    /\ ledger' = RetireInterrupted(Release(ledger))
    /\ stored' = IF ledger'.status # ledger.status THEN body ELSE stored
    /\ Tally(ledger')
    /\ UNCHANGED <<body, surgery, delivery, discord, asked>>

(* resumePreparedDiscordSuppressions: a suppression whose branch is the     *)
(* store's has its removals made, and is retired.                           *)
ToResume == {b \in Batch : PendingSuppression(ledger, b) /\ body[b] # "source"}

ResumesBody(b) ==
    /\ host = "resuming" /\ b \in ToResume /\ body[b] = "fork"
    /\ body' = [body EXCEPT ![b] = "cut"]
    /\ UNCHANGED <<ledger, stored, surgery, host, delivery, discord, history>>

ResumesRecord(b) ==
    /\ host = "resuming" /\ b \in ToResume /\ body[b] = "cut"
    /\ ledger' = Retire(ledger, b) /\ stored' = body
    /\ UNCHANGED <<body, surgery, host, delivery, discord, history>>

Serves ==
    /\ host = "resuming" /\ ToResume = {}
    /\ host' = "up" /\ pending' = TRUE
    /\ UNCHANGED <<ledger, work, connected, pass, joined, discord, history>>

Next ==
    \/ \E b \in Batch : Prepares(b) \/ ResumesBody(b) \/ ResumesRecord(b)
    \/ Forks \/ Applies \/ Restores \/ KeepsAfterFailure \/ Discards \/ Activates
    \/ StoreSyncs
    \/ \E act \in Act : Cancels(act)
    \/ \E r \in Retract : RetractsAll(r) \/ \E b \in Batch : RetractsBatch(r, b)
    \/ Delivers \/ PassBreaks \/ PassClaims \/ PassRunsOut \/ PassFails
    \/ PassSends \/ PassGivesBack \/ PassConfirmed \/ PassRefused \/ PassUnanswered
    \/ Lands \/ \E m \in Mark : LandsLate(m)
    \/ Disconnects \/ Connects \/ Stops \/ Ends \/ Recovers \/ Serves

Spec == Init /\ [][Next]_vars

-----------------------------------------------------------------------------
(* The state's types: what every step leaves of the ledger, the store, the  *)
(* pass and Discord.                                                        *)
TypeOK ==
    /\ ledger \in Ledgers
    /\ body \in [Batch -> {"source", "fork", "cut"}] /\ stored \in [Batch -> {"source", "fork", "cut"}]
    /\ surgery \in [batch : Batch \cup {"none"},
                    step : {"none", "chosen", "forked", "applied", "restored"}]
    /\ host \in {"up", "stopping", "down", "resuming"} /\ connected \in BOOLEAN
    /\ pass \in [at : {"none", "loop", "claimed", "sent"}, tried : SUBSET (Mark \X Nat),
                 request : Requests \cup {NoRequest}, landed : BOOLEAN, gone : BOOLEAN]
    /\ joined \in BOOLEAN /\ pending \in BOOLEAN
    /\ there \in [Mark -> BOOLEAN] /\ late \in [Mark -> SUBSET Action]
    /\ asked \subseteq Mark /\ tries \in [Mark -> Nat]

(* The later act wins: a mark is wanted present only by activated batches   *)
(* that stand and whose choice is later than every retract of it, even one  *)
(* cancelled since.  The choice and the activation are separate acts, with  *)
(* retracts, cancels and restarts between them (activateIn, retract,        *)
(* cancel).                                                                 *)
LaterActWins ==
    \A m \in Mark :
        LET e == ledger.entry[m] IN
        /\ e.due # 0 => e.by # {}
        /\ e.by \cap ledger.cancelled = {}
        /\ e.wanted = "present" =>
              \A b \in e.by : /\ b \in Batch /\ m \in RefsOf[b]
                              /\ ledger.status[b] = "active"
                              /\ ledger.chosen[b] > e.retracted

(* What is on Discord is what it last answered, unless a request that may   *)
(* land is on record: no crash, unwritten answer or late effect is missing  *)
(* from the ledger's mayLand and sending (recordUnanswered, claim,          *)
(* recoverAtStartup).                                                       *)
MayLandIsOnRecord ==
    \A m \in Mark :
        LET e == ledger.entry[m]
            open == e.mayLand \cup {e.sending.action}
        IN  /\ late[m] \subseteq open
            /\ e.confirmed = "present" /\ "remove" \notin open => there[m]
            /\ e.confirmed = "absent" /\ "add" \notin open => ~there[m]
            /\ e.confirmed = "none" /\ "add" \notin open => ~there[m]

(* The ledger never outlives the branch state it relies on: a batch active  *)
(* on disk has its surgery's body on disk, and a suppression is not retired *)
(* with its removals half made (persist's afterCommittedState,              *)
(* recoverAtStartup, completeSuppression).                                  *)
LedgerNeverAhead ==
    \A b \in Batch :
        /\ ledger.status[b] = "active" => stored[b] = "cut"
        /\ ledger.status[b] = "retired" /\ b \in Suppression => stored[b] # "fork"

(* No mark is tried more than three times for one act without a             *)
(* confirmation, a request on the wire at a crash or whose answer could not *)
(* be written among them (countAttempt).                                    *)
AttemptsAreCounted == \A m \in Mark : tries[m] <= MaxAttempts

(* What an act made owed, or a start, a connect or a sync found owed, has a *)
(* pass under way or about to be asked for while the route is open: a       *)
(* trigger that meets a pass ending does not get lost between the two       *)
(* (drainDiscordAwarenessOutbox, runDiscordAwarenessDrain).                 *)
AskedIsServed ==
    host = "up" /\ connected /\ asked \cap OwedMarks(ledger) # {} =>
        pass.at # "none" \/ pending

(* README.md:949-953: a mark whose request failed in a way a retry could    *)
(* change is sent again by the next delivery pass, an operator's sync among *)
(* its occasions: one that meets an open route and no pass begins one if a  *)
(* mark is owed.                                                            *)
SyncTriesWhatIsOwed ==
    [][Delivers /\ host = "up" /\ connected =>
          ((\E m \in Mark : ledger.entry[m].due # 0) => pass'.at # "none")]_vars
=============================================================================
