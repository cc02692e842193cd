---------------------------- MODULE MCHostParts ----------------------------
(***************************************************************************)
(* Parts of the host side by side for TLC: the ledger of awareness marks   *)
(* and its delivery, held drafts, and the tools a server shows.  They      *)
(* share no state here, so a behaviour is one of a part's own; which part  *)
(* is chosen at its start.                                                 *)
(***************************************************************************)
EXTENDS AwarenessOutbox, TLC

CONSTANTS
    Part,                                                   \* the parts that may run
    m1, b1, b2, q1,                                         \* AwarenessOutbox
    s1, s2, Sender, KeepNewest, MaxDrafts, MaxSends, MaxResend, DraftActs,  \* ProseDrafts
    t1, t2, Tool, g1, Toolset, NoToolset, ServerActs, ServerFaults,         \* ToolPresence
    MaxFaults

(* Both surgeries removed every message.                                    *)
MCRefsOf == [b \in Batch |-> Mark]

VARIABLES part

VARIABLES lasting, tail, unseen, doubt, drafts, latestBounce, call, issued, sender, faults, begun,
          mayBeOut, following, reported, settled
VARIABLES server, presence, serverConnected, policySettled, wire, asks, flow, again, timer, acts,
          serverFaults, agentAsks, failed, stale, ignored

draftsVars == <<lasting, tail, unseen, doubt, drafts, latestBounce, call, issued, sender, faults,
                begun, mayBeOut, following, reported, settled>>
presenceVars == <<server, presence, serverConnected, policySettled, wire, asks, flow, again, timer,
                  acts, serverFaults, agentAsks, failed, stale, ignored>>

Drafts == INSTANCE ProseDrafts WITH MaxActs <- DraftActs

(* One tool of a toolset, one of none; and the first of them alone, beside  *)
(* an agent that asks.                                                      *)
Presence == INSTANCE ToolPresence
    WITH connected <- serverConnected, settled <- policySettled, faults <- serverFaults,
         SetOf <- [t \in Tool |-> IF t = t1 THEN g1 ELSE NoToolset],
         MaxActs <- ServerActs, MaxFaults <- ServerFaults, MaxAsks <- 0
Asked == INSTANCE ToolPresence
    WITH connected <- serverConnected, settled <- policySettled, faults <- serverFaults,
         Tool <- {t1}, SetOf <- [t \in {t1} |-> g1],
         MaxActs <- 1, MaxFaults <- ServerFaults, MaxAsks <- 1

ASSUME PartsConstants == Drafts!DraftsConstants
ASSUME ShownConstants ==
    Presence!PresenceConstants /\ Asked!PresenceConstants /\ t1 \in Tool

Alike == Permutations(Sender)

(* A part that does not run starts in one way.                              *)
PartsInit ==
    /\ part \in Part
    /\ Init /\ Drafts!Init
    /\ IF part = "asked" THEN Asked!Init ELSE Presence!Init
    /\ part \notin {"presence", "asked"} => server.tools = {}

PartsNext ==
    /\ UNCHANGED part
    /\ \/ part = "marks" /\ Next /\ UNCHANGED <<draftsVars, presenceVars>>
       \/ part = "drafts" /\ Drafts!Next /\ UNCHANGED <<vars, presenceVars>>
       \/ part = "presence" /\ Presence!Next /\ UNCHANGED <<vars, draftsVars>>
       \/ part = "asked" /\ Asked!Next /\ UNCHANGED <<vars, draftsVars>>

PartsSpec == PartsInit /\ [][PartsNext]_<<part, vars, draftsVars, presenceVars>>

-----------------------------------------------------------------------------
(* Every part's variables keep their types; a draft being sent is not let   *)
(* go of (prose-drafts.ts 249-271), and a ledger row that is settled owes   *)
(* nothing.                                                                 *)
TypesOK ==
    CASE part = "marks" -> TypeOK
      [] part = "drafts" -> Drafts!TypeOK
      [] OTHER -> Presence!TypeOK

(* The drafts in memory are those of the journal, and words whose hold      *)
(* returned are a draft until a checkpoint lets go of them                  *)
(* (prose-drafts.ts write, hold, checkpointIfDue, reload).                  *)
ReadsTheJournal == part = "drafts" => Drafts!ReadsTheJournal

(* Words that may be posted already are not sent again unless the resident  *)
(* confirmed it, and delivered words never (prose-drafts.ts 442,            *)
(* framework.ts 23419-23524).                                               *)
NoSilentRepeat == Drafts!NoSilentRepeat

(* A host with nothing left to read or to ask shows the tools the server    *)
(* shows, but for a statement a recovery did not look into                  *)
(* (mcpl/toolset-host.ts 187-512).                                          *)
SettledAgrees == Presence!SettledAgrees

(* toolset-host.ts 466-471: after a recovery every tool its toolsets/list   *)
(* names is known, unless its tools/list failed.                            *)
RecoveryKnows == Presence!RecoveryKnows
=============================================================================
