------------------------------ MODULE MCStores ------------------------------
(***************************************************************************)
(* Three parts whose state outlives the process, side by side for TLC: a   *)
(* journal with its client, the agent registry, a subject's pushes.  They  *)
(* share no state here, so a behaviour is one of a part's own; which part  *)
(* is chosen at its start.                                                 *)
(***************************************************************************)
EXTENDS JournalClient, TLC

CONSTANTS
    Part,                                               \* the parts that may run
    p1, p2, t1, t2, Resident, Primary, Task, NoAgent,   \* AgentRegistry
    MaxNumber, MaxMail, MaxActs, MaxFaults,
    e1, e2, e3, Event, NoEvent, MaxEvents               \* PushCoalescer

VARIABLES part

VARIABLES
    phase, reg, recovery, disk, endedFile, rows, onDisk, kept, todo, checks, acts, faults,
    begun, closed, accepted, moves, excused

VARIABLES
    subject, receipts, recent, dirty, stored, lasting, lock, wake, keeper, armed,
    suspended, authorized, read, kind, line, answered, seen, doubted, settled, told,
    cutOff, missed, overlaid, failures

registryVars == <<phase, reg, recovery, disk, endedFile, rows, onDisk, kept, todo, checks,
                  acts, faults, begun, closed, accepted, moves, excused>>
pushVars == <<subject, receipts, recent, dirty, stored, lasting, lock, wake, keeper, armed,
              suspended, authorized, read, kind, line, answered, seen, doubted, settled, told,
              cutOff, missed, overlaid, failures>>

Reg == INSTANCE AgentRegistry
Push == INSTANCE PushCoalescer

ASSUME StoresConstants == Reg!RegistryConstants /\ Push!PushConstants

Alike == Permutations(Task) \cup Permutations(Event)

StoresInit == part \in Part /\ Init /\ Reg!Init /\ Push!Init

StoresNext ==
    /\ UNCHANGED part
    /\ \/ part = "journal" /\ Next /\ UNCHANGED <<registryVars, pushVars>>
       \/ part = "registry" /\ Reg!Next /\ UNCHANGED <<vars, pushVars>>
       \/ part = "pushes" /\ Push!Next /\ UNCHANGED <<vars, registryVars>>

StoresSpec == StoresInit /\ [][StoresNext]_<<part, vars, registryVars, pushVars>>

-----------------------------------------------------------------------------
(* Every part's variables keep their types, and in the registry a live      *)
(* agent has a live parent (dendrite/registry.ts 607-675).                  *)
TypesOK == TypeOK /\ Reg!TypeOK /\ Push!TypeOK

(* Mail whose sender was told it is held is never lost (registry.ts 707,    *)
(* framework.ts 33668).                                                     *)
AcceptedIsKept == Reg!AcceptedIsKept

(* Mail reaches a recipient once (framework.ts 13146-13163).                *)
LandsOnce == Reg!LandsOnce

(* A task the process's end interrupted is told of, and told of once        *)
(* (framework.ts 13044-13121).                                              *)
InterruptedIsToldOnce == Reg!InterruptedIsToldOnce

(* What a producer's acceptance acknowledged, and nothing overtook, is in   *)
(* the agent's context, in a batch or rendering, before and after a crash,  *)
(* and a batch has a wake, a render or a timer that will reach it, but for  *)
(* the assembly that joined a render, the render a stop cut off, and the    *)
(* save a crash cut in two (push-coalescer.ts 411-418, 873-892, 1118-1187). *)
KeepsAccepted == Push!KeepsAccepted

(* A delivery stores nothing twice, and nothing that an admitted occurrence *)
(* or retraction took the place of (push-coalescer.ts 804-842, 1189-1363).  *)
StoresOnlyTheCurrent == Push!StoresOnlyTheCurrent

(* A producer is told that the agent saw nothing only when it saw nothing   *)
(* and will see nothing (push-coalescer.ts 920-982).                        *)
UnseenIsUnseen == Push!UnseenIsUnseen

(* A deferred notice that was acknowledged is rendered, or taken over by a  *)
(* newer occurrence, whatever crash comes (push-coalescer.ts 411-418).      *)
NoticesSurvive == Push!NoticesSurvive

(* An acceptance acknowledged and overtaken by none is found after any kill *)
(* (push-coalescer.ts 411-418), but for a render that a stop cut off.       *)
AcceptedIsOnDisk == Push!AcceptedIsOnDisk
=============================================================================
