---------------------------- MODULE ProseDrafts ----------------------------
(***************************************************************************)
(* Words an agent could not send, held as drafts in a journal              *)
(* (src/prose-drafts.ts), and the two ways they are sent later: a resend   *)
(* of the drafts tool, and an envelope that says {{unsent}} for the latest *)
(* bounce (src/framework.ts).                                              *)
(*                                                                         *)
(* One agent, with several sends under way at once.  The journal is taken  *)
(* as JournalClient's theorems give it: what a durable write returned for  *)
(* is kept, the records after it may go with the machine, and a failed     *)
(* write's record is there or not.  So the log is what its lasting records *)
(* come to and the few records that are not lasting yet.  Any write may be *)
(* the one that makes a checkpoint due.  The process may end between any   *)
(* two records: a call is a step that writes, then what the write leaves   *)
(* to do.                                                                  *)
(*                                                                         *)
(* Ids are numbers in the order of the holds.  Left out: what drafts say,  *)
(* the notices that name them, dates (retention lets go of any old draft   *)
(* not being sent), and an id let go and given again by chance.            *)
(***************************************************************************)
EXTENDS Naturals, Sequences, FiniteSets, SequencesExt

CONSTANTS
    Sender,             \* tool calls and rounds that may send at once
    KeepNewest,         \* KEEP_NEWEST
    MaxDrafts, MaxSends,    \* bounds of the instance
    MaxResend,          \* bound: drafts one resend names
    MaxFaults,          \* bound: restarts, writes and reloads that fail
    MaxActs             \* bound: holds and attempts, and faults twice

DraftsConstants ==
    /\ KeepNewest \in Nat \ {0} /\ MaxDrafts \in Nat /\ MaxSends \in Nat
    /\ MaxResend \in Nat /\ MaxFaults \in Nat /\ MaxActs \in Nat

VARIABLES
    lasting,        \* what the records on stable storage come to
    tail,           \* the records after them that this process sees
    unseen,         \* a record its append threw over: none, or one
    doubt,          \* what a failed write left: "reconcile", "reopen" or nothing
    drafts,         \* the drafts in memory
    latestBounce,   \* the draft {{unsent}} names, kept or not; 0 when none
    call,           \* what the write under way has still to do
    issued,         \* ids given
    sender,         \* what each sender does
    faults,         \* bound of the instance: faults so far
    begun,          \* bound of the instance: attempts so far
    mayBeOut,       \* history: for each draft, who may have posted its words: a
                    \* sender whose answer is out, or some earlier send
    following,      \* history: <<d, e>> when e copied d while d was claimed
    reported,       \* history: drafts whose hold returned, not let go of since
    settled         \* history: drafts whose delivery was recorded

journal == <<lasting, tail, unseen, doubt>>
projection == <<drafts, latestBounce>>
history == <<mayBeOut, following, reported, settled>>
vars == <<journal, faults, begun, projection, call, issued, sender, history>>

Ids == 1..MaxDrafts
Earlier == "an earlier send"
Status == {"delivered", "failed", "unknown"}   \* unknown: an outcome, or none recorded
Draft == [risk : BOOLEAN, dismissed : BOOLEAN, attempts : Seq(Status)]

Idle == [phase |-> "idle", via |-> "resend", list |-> <<>>, claims |-> {}, confirmed |-> FALSE]

(* Defect: an attempt whose outcome is not known counts for nothing.        *)
DraftStateOfOutcomes(d) ==
    IF \E i \in 1..Len(drafts[d].attempts) : drafts[d].attempts[i] = "delivered" THEN "delivered"
    ELSE IF drafts[d].dismissed THEN "dismissed"
    ELSE IF drafts[d].risk THEN "unconfirmed" ELSE "held"

(* draftState                                                               *)
DraftState(d) ==
    IF \E i \in 1..Len(drafts[d].attempts) : drafts[d].attempts[i] = "delivered" THEN "delivered"
    ELSE IF drafts[d].dismissed THEN "dismissed"
    ELSE IF drafts[d].risk \/ \E i \in 1..Len(drafts[d].attempts) : drafts[d].attempts[i] = "unknown"
    THEN "unconfirmed" ELSE "held"

Kept(d) == d \in DOMAIN drafts
Open(d) == Kept(d) /\ DraftState(d) \in {"held", "unconfirmed"}
InFlight == UNION {sender[s].claims : s \in Sender}                 \* draftsInFlight
At(phases) == {Head(sender[s].list) : s \in {t \in Sender : sender[t].phase \in phases}}
Sending == At({"sending"})                                          \* draftsSending

-----------------------------------------------------------------------------
(* The projection of the journal.                                           *)

Held(d, bounced, risk) == [op |-> "held", id |-> d, bounced |-> bounced, risk |-> risk]
Attempt(d) == [op |-> "attempt", id |-> d]
Outcome(d, i, status) == [op |-> "outcome", id |-> d, attempt |-> i, status |-> status]
Dismissed(d) == [op |-> "dismissed", id |-> d]
Checkpoint(gone) == [op |-> "checkpoint", gone |-> gone]

Nothing == [drafts |-> <<>>, latest |-> 0]

Reduce(p, entry) ==
    IF entry.op = "held"
    THEN [drafts |-> [d \in DOMAIN p.drafts \cup {entry.id} |->
                        IF d = entry.id
                        THEN [risk |-> entry.risk, dismissed |-> FALSE, attempts |-> <<>>]
                        ELSE p.drafts[d]],
          latest |-> IF entry.bounced THEN entry.id ELSE p.latest]
    ELSE IF entry.op = "checkpoint"
    THEN [p EXCEPT !.drafts = Restrict(@, DOMAIN @ \ entry.gone)]
    ELSE IF entry.id \notin DOMAIN p.drafts THEN p
    ELSE CASE entry.op = "dismissed" -> [p EXCEPT !.drafts[entry.id].dismissed = TRUE]
           [] entry.op = "attempt" ->
                [p EXCEPT !.drafts[entry.id].attempts = Append(@, "unknown")]
           [] entry.op = "outcome" ->
                [p EXCEPT !.drafts[entry.id].attempts[entry.attempt] = entry.status]

ReduceAll(p, entries) ==
    LET upTo[i \in 0..Len(entries)] == IF i = 0 THEN p ELSE Reduce(upTo[i - 1], entries[i])
    IN  upTo[Len(entries)]

Projection == [drafts |-> drafts, latest |-> latestBounce]
Projected(p) == drafts' = p.drafts /\ latestBounce' = p.latest

InBounds == issued + begun + 2 * faults < MaxActs
Faulty == InBounds /\ faults < MaxFaults /\ faults' = faults + 1
Faultless == UNCHANGED faults

(* reload: what the records this process sees come to.                      *)
Replayed == ReduceAll(lasting, tail)
Reloads ==
    /\ Projected(Replayed)
    /\ doubt' = IF doubt = "reconcile" THEN "none" ELSE doubt
    /\ UNCHANGED <<lasting, tail, unseen>>

LetsGoOf(kept) == {d \in kept : Cardinality({e \in kept : e > d}) >= KeepNewest}
MaybeDue == call' = "none" \/ (LetsGoOf(DOMAIN drafts') # {} /\ call' = "checkpoint")

(* write(): a write that returns is applied, one that fails after its       *)
(* append is followed by a reload, one the journal refuses changes nothing. *)
Writes(entry) ==
    /\ doubt = "none"
    /\ lasting' = Reduce(Replayed, entry) /\ tail' = <<>>
    /\ UNCHANGED <<unseen, doubt>>
    /\ Projected(Reduce(Projection, entry))
    /\ MaybeDue /\ Faultless

AppendThrows(entry) ==
    /\ unseen' \in {<<>>, <<entry>>} /\ doubt' = "reopen"
    /\ UNCHANGED <<lasting, tail>>
AppendFails(entry) ==
    /\ tail' = Append(tail, entry) /\ doubt' = "reconcile"
    /\ UNCHANGED <<lasting, unseen>>

Fails(entry) ==
    /\ \/ doubt = "none" /\ AppendThrows(entry) /\ call' = "none" /\ Faulty
       \/ doubt = "none" /\ AppendFails(entry) /\ call' = "reload" /\ Faulty
       \/ doubt # "none" /\ UNCHANGED journal /\ Faultless
          /\ call' = IF doubt = "reconcile" THEN "reload" ELSE "none"
    /\ UNCHANGED projection

(* beginAttempt                                                             *)
Begins(d) == InBounds /\ begun < MaxSends /\ begun' = begun + 1 /\ Writes(Attempt(d))
BeginFails(d) == InBounds /\ begun < MaxSends /\ begun' = begun + 1 /\ Fails(Attempt(d))

(* The rest of a write that failed: the reload may fail as well.            *)
Reconciles ==
    /\ call = "reload"
    /\ call' = "none"
    /\ (Reloads /\ Faultless) \/ (UNCHANGED <<journal, projection>> /\ Faulty)
    /\ UNCHANGED <<begun, issued, sender, history>>

(* Defect: retention goes by age alone.                                     *)
MayLetGoActive == LetsGoOf(DOMAIN drafts)

(* checkpointIfDue: the newest are kept, and what happened to lately.       *)
MayLetGo == LetsGoOf(DOMAIN drafts) \ At({"recorded", "sending"})

(* Defect: the drafts are let go of before the checkpoint is written.       *)
LetsGoFirst(gone) == drafts' = Restrict(drafts, DOMAIN drafts \ gone)

(* Memory lets go of the drafts once the checkpoint is written.             *)
LetsGo(gone) ==
    drafts' = IF doubt' = "none" THEN Restrict(drafts, DOMAIN drafts \ gone) ELSE drafts

Checkpoints ==
    /\ call = "checkpoint"
    /\ \E gone \in SUBSET MayLetGo :
         /\ \/ /\ doubt = "none" /\ tail' = Append(tail, Checkpoint(gone))
               /\ UNCHANGED <<lasting, unseen, doubt>> /\ call' = "none" /\ Faultless
            \/ AppendThrows(Checkpoint(gone)) /\ call' = "none" /\ Faulty
            \/ AppendFails(Checkpoint(gone)) /\ call' = "reload" /\ Faulty
         /\ LetsGo(gone)
         /\ reported' = reported \ gone
    /\ UNCHANGED <<latestBounce, begun, issued, sender, mayBeOut, following, settled>>
-----------------------------------------------------------------------------
Init ==
    /\ lasting = Nothing /\ tail = <<>> /\ unseen = <<>> /\ doubt = "none"
    /\ faults = 0
    /\ drafts = <<>> /\ latestBounce = 0
    /\ call = "opening" /\ issued = 0
    /\ sender = [s \in Sender |-> Idle]
    /\ begun = 0 /\ mayBeOut = [d \in Ids |-> {}]
    /\ following = {} /\ reported = {} /\ settled = {}

Opens ==
    /\ call = "opening"
    /\ Reloads
    /\ MaybeDue
    /\ UNCHANGED <<faults, begun, issued, sender, history>>

(* No call is in the middle of its work.                                    *)
Settled == call = "none" /\ \A s \in Sender : sender[s].phase \in {"idle", "sending"}

(* Words are held: bounced, or kept from an explicit send or for want of a  *)
(* destination.                                                             *)
Holds(bounced, risk) ==
    /\ InBounds /\ issued < MaxDrafts
    /\ issued' = issued + 1
    /\ LET entry == Held(issued', bounced, risk)
       IN  \/ Writes(entry) /\ reported' = reported \cup {issued'}
           \/ Fails(entry) /\ UNCHANGED reported

Hold(bounced) ==
    /\ Settled
    /\ Holds(bounced, FALSE)
    /\ UNCHANGED <<begun, sender, mayBeOut, following, settled>>

(* unsentWords: what the words copied from a draft bring with them.         *)
CarriesRisk(d) == DraftState(d) = "unconfirmed" \/ d \in InFlight

(* A message that says {{unsent}} is held with a draft's words written out. *)
HoldsCopy(source, bounced) ==
    /\ Holds(bounced, CarriesRisk(source))
    /\ mayBeOut' = [mayBeOut EXCEPT ![issued'] = mayBeOut[source]]
    /\ following' = following \cup
         {<<d, issued'>> : d \in {e \in Ids : (e = source /\ e \in InFlight)
                                              \/ <<e, source>> \in following}}
    /\ UNCHANGED <<begun, settled>>

(* It is refused or bounces before any send (takeUnsent, bounceProse), or   *)
(* has no destination in a round of the drafts tool.                        *)
HoldWithUnsent(bounced) ==
    /\ Settled /\ latestBounce # 0 /\ Open(latestBounce)
    /\ HoldsCopy(latestBounce, bounced)
    /\ UNCHANGED sender

(* A draft is set aside, unless it is being sent.                           *)
Dismiss(d) ==
    /\ Settled /\ Open(d) /\ d \notin Sending
    /\ Writes(Dismissed(d)) \/ Fails(Dismissed(d))
    /\ UNCHANGED <<begun, issued, sender, history>>
-----------------------------------------------------------------------------
(* Sending.                                                                 *)

(* resendRefusal                                                            *)
Refused(d, confirmed) ==
    DraftState(d) = "dismissed" \/ (DraftState(d) = "unconfirmed" /\ ~confirmed)

Step(s, phase, list) == sender' = [sender EXCEPT ![s].phase = phase, ![s].list = list]

(* The sender is done: what it claimed is free.                             *)
Ends(s) ==
    /\ sender' = [sender EXCEPT ![s] = Idle]
    /\ following' = {p \in following : p[1] \notin sender[s].claims}
Follows == UNCHANGED following

ResendBegins(s, list, confirmed) ==
    /\ Settled /\ sender[s].phase = "idle"
    /\ \A d \in ToSet(list) : Kept(d) /\ d \notin InFlight /\ ~Refused(d, confirmed)
    /\ \E d \in ToSet(list) : DraftState(d) # "delivered"
    /\ sender' = [sender EXCEPT ![s] = [phase |-> "next", via |-> "resend", list |-> list,
                                        claims |-> ToSet(list), confirmed |-> confirmed]]
    /\ UNCHANGED <<journal, faults, projection, call, begun, issued, history>>

(* A draft let go, dismissed or put at risk while it waited ends the resend.*)
ResendStops(s, d) ==
    \/ ~Kept(d)
    \/ DraftState(d) # "delivered" /\ Refused(d, sender[s].confirmed)

(* The next draft of a resend: passed over, refused, or its attempt         *)
(* recorded (beginAttempt).                                                 *)
ResendNext(s) ==
    /\ call = "none" /\ sender[s].phase = "next"
    /\ IF sender[s].list = <<>> \/ ResendStops(s, Head(sender[s].list))
       THEN Ends(s) /\ UNCHANGED <<journal, faults, begun, projection, call>>
       ELSE LET d == Head(sender[s].list)
            IN  IF DraftState(d) = "delivered"
                THEN /\ Step(s, "next", Tail(sender[s].list)) /\ Follows
                     /\ UNCHANGED <<journal, faults, begun, projection, call>>
                ELSE \/ Begins(d) /\ Step(s, "recorded", sender[s].list) /\ Follows
                     \/ BeginFails(d) /\ Ends(s)
    /\ UNCHANGED <<issued, mayBeOut, reported, settled>>

MaySendUnsent(d) == Open(d) /\ DraftState(d) = "held" /\ d \notin InFlight

(* An envelope says {{unsent}} (takeUnsent, deliverWithUnsent): it bounces  *)
(* when its attempt cannot be recorded, and when its destination cannot be  *)
(* resolved, which records nothing and sends nothing.                       *)
SendUnsent(s) ==
    /\ Settled /\ sender[s].phase = "idle"
    /\ latestBounce # 0 /\ MaySendUnsent(latestBounce)
    /\ \E phase \in {"recorded", "bouncing"} :
         /\ \/ phase = "recorded" /\ Begins(latestBounce)
            \/ phase = "bouncing" /\ BeginFails(latestBounce)
            \/ phase = "bouncing" /\ UNCHANGED <<journal, faults, begun, projection, call>>
         /\ sender' = [sender EXCEPT ![s] = [phase |-> phase, via |-> "unsent-token",
                         list |-> <<latestBounce>>, confirmed |-> FALSE,
                         claims |-> IF phase = "recorded" THEN {latestBounce} ELSE {}]]
    /\ UNCHANGED <<issued, history>>

(* The request leaves, unless the checkpoint after the attempt's record     *)
(* threw.                                                                   *)
SendLeaves(s) ==
    LET d == Head(sender[s].list)
    IN  /\ call = "none" /\ sender[s].phase = "recorded"
        /\ IF doubt = "reconcile"
           THEN /\ IF sender[s].via = "resend" THEN Ends(s)
                   ELSE Follows /\ sender' = [sender EXCEPT ![s].phase = "bouncing", ![s].claims = {}]
                /\ UNCHANGED mayBeOut
           ELSE /\ Step(s, "sending", sender[s].list) /\ Follows
                /\ mayBeOut' = [e \in Ids |-> IF e = d \/ <<d, e>> \in following
                                              THEN mayBeOut[e] \cup {s} ELSE mayBeOut[e]]
        /\ UNCHANGED <<journal, faults, begun, projection, call, issued, reported, settled>>

(* What is known of the words a sender's request carried.                   *)
Answered(s, status) ==
    mayBeOut' = [d \in Ids |->
        IF s \notin mayBeOut[d] THEN mayBeOut[d]
        ELSE (mayBeOut[d] \ {s}) \cup (IF status = "failed" THEN {} ELSE {Earlier})]

AfterAnswer(s, status) ==
    IF sender[s].via = "resend"
    THEN IF status = "delivered" THEN Step(s, "next", Tail(sender[s].list)) /\ Follows ELSE Ends(s)
    ELSE IF status = "failed"
    THEN /\ sender' = [sender EXCEPT ![s].phase = "bouncing", ![s].claims = {}]
         /\ following' = {p \in following : p[1] \notin sender[s].claims}
    ELSE Ends(s)

(* The answer comes, and the outcome is recorded against its attempt.       *)
SendAnswered(s, status) ==
    LET d == Head(sender[s].list)
        entry == Outcome(d, Len(drafts[d].attempts), status)
    IN  /\ Settled /\ sender[s].phase = "sending"
        /\ Answered(s, status)
        /\ \/ /\ Writes(entry)
              /\ settled' = IF status = "delivered" THEN settled \cup {d} ELSE settled
           \/ Fails(entry) /\ UNCHANGED settled
        /\ AfterAnswer(s, status)
        /\ UNCHANGED <<begun, issued, reported>>

(* The send throws: no outcome is recorded.                                 *)
SendThrows(s) ==
    /\ Settled /\ sender[s].phase = "sending"
    /\ IF sender[s].via = "resend" THEN Ends(s) ELSE AfterAnswer(s, "failed")
    /\ Answered(s, "unknown")
    /\ UNCHANGED <<journal, faults, begun, projection, call, issued, reported, settled>>

(* An envelope that was not sent bounces: held with the words it copied,    *)
(* unless it said nothing else (bounceProse).                               *)
Bounces(s) ==
    LET d == Head(sender[s].list)
    IN  /\ call = "none" /\ sender[s].phase = "bouncing"
        /\ \/ Kept(d) /\ HoldsCopy(d, TRUE)
           \/ UNCHANGED <<journal, faults, projection, call, begun, issued, history>>
        /\ sender' = [sender EXCEPT ![s] = Idle]

(* The process ends at any point.                                           *)
Restarts ==
    /\ Faulty
    /\ tail' \in {SubSeq(tail \o unseen, 1, n) : n \in 0..Len(tail \o unseen)}
    /\ unseen' = <<>> /\ doubt' = "none"
    /\ UNCHANGED lasting
    /\ drafts' = <<>> /\ latestBounce' = 0
    /\ call' = "opening"
    /\ sender' = [s \in Sender |-> Idle]
    /\ following' = {}
    /\ mayBeOut' = [d \in Ids |-> IF mayBeOut[d] = {} THEN {} ELSE {Earlier}]
    /\ UNCHANGED <<begun, issued, reported, settled>>

ResendLists == {list \in UNION {[1..n -> Ids] : n \in 1..MaxResend} : IsInjective(list)}

Next ==
    \/ Opens \/ Reconciles \/ Checkpoints
    \/ \E b \in BOOLEAN : Hold(b) \/ HoldWithUnsent(b)
    \/ \E d \in Ids : Dismiss(d)
    \/ \E s \in Sender :
         \/ \E list \in ResendLists, c \in BOOLEAN : ResendBegins(s, list, c)
         \/ ResendNext(s) \/ SendUnsent(s) \/ SendLeaves(s)
         \/ \E status \in Status : SendAnswered(s, status)
         \/ SendThrows(s) \/ Bounces(s)
    \/ Restarts

Spec == Init /\ [][Next]_vars
-----------------------------------------------------------------------------
TypeOK ==
    /\ DOMAIN drafts \subseteq Ids /\ \A d \in DOMAIN drafts : drafts[d] \in Draft
    /\ latestBounce \in 0..issued /\ issued \in 0..MaxDrafts
    /\ call \in {"opening", "none", "reload", "checkpoint"}
    /\ \A s \in Sender :
         /\ sender[s].phase \in {"idle", "next", "recorded", "sending", "bouncing"}
         /\ sender[s].phase \in {"recorded", "sending"} =>
              Head(sender[s].list) \in DOMAIN drafts \cap sender[s].claims
    /\ mayBeOut \in [Ids -> SUBSET (Sender \cup {Earlier})]
    /\ reported \subseteq Ids /\ settled \subseteq Ids

Leaves(s) == sender[s].phase = "recorded" /\ sender'[s].phase = "sending"

(* Words that may be posted already are not sent again unless the resident  *)
(* confirmed it: every earlier send of the draft, and of the drafts it      *)
(* copied, is known to have failed, through crashes, lost writes and        *)
(* interleaved sends; and a draft whose delivery was recorded is not sent   *)
(* again at all (beginAttempt, draftState, resendRefusal, takeUnsent).      *)
NoSilentRepeat ==
    [][\A s \in Sender : Leaves(s) =>
           /\ sender[s].confirmed \/ mayBeOut[Head(sender[s].list)] = {}
           /\ Head(sender[s].list) \notin settled]_vars

(* The drafts in memory are those of the journal, whatever writes and       *)
(* checkpoints failed, and words whose hold returned are a draft of every   *)
(* later process until a checkpoint lets go of them (write, hold,           *)
(* checkpointIfDue, reload).                                                *)
ReadsTheJournal ==
    /\ (call \in {"none", "checkpoint"} /\ doubt # "reconcile") => Projection = Replayed
    /\ call # "opening" => \A d \in reported : Kept(d)
=============================================================================
