# TLA+ models of the agent framework

The agent framework hosts conversational agents over a branching message
store (Chronicle, through a context manager) and a set of servers that give
them tools and channels (MCPL). One Node process runs everything: JavaScript
runs one callback at a time, so what interleaves is the code between two
awaits, timers, messages from servers, operator calls, and the death and
restart of the process. This directory models the parts of `src/` whose
correctness depends on those interleavings, checks them with TLC and proves
what matters most of them with TLAPS. Paths below are relative to `src/src/`.

- [The system](#the-system): components, state, interactions, hard behaviours
- [Modules](#modules): what models what
- [Runs](#runs): what each checks, its bounds, what it shows
- [Fairness](#fairness)
- [Proofs](#proofs): theorems, invariants and why they are needed
- [Findings](#findings): where code and text disagree
- [What the models leave out](#what-the-models-leave-out)
- [Plan](#plan): what comes next, in order

## The system

### Components and their state

**Event loop and process queue** (`queue.ts`, `framework.ts`). Everything
that happens becomes a `ProcessEvent` in an array with an external lane in
front of the internal one; consumers wait in a list of resolvers. Operations:
push, pop, tryPop, clear, close. Correct when an event is handed out at most
once, lanes keep their order, and no consumer sleeps beside an event.

**Turn scheduler and provider admission** (`framework.ts` 6600-6700,
7090-7380, 21500-22530, 26630-30474). State: `pendingRequests` (wakes and
continuations), the requests of the running pass, a provider gate for each
agent (primary depth, primary pending, recovery), the acceleration holds with
the requests they keep, starts parked until auxiliary calls are idle, the
stack of live frames (`startAgentStream`, `driveStream`, nested by retries)
and the turn token of each agent, and the host's mode. Operations: a wake,
the inference pass, a turn's assembly, stream, retry, restart and end, the
begin and end of holds, auxiliary calls, withdrawals, abort, quiesce,
abandon, resume, stop. Correct when no wake is lost or answered twice, an
agent has one turn, primary turns and auxiliary calls exclude each other,
every place taken in the gate is given back once, a quiesced host begins no
turn, and every wake ends.

**Record journal** (`record-journal.ts`). Entries and checkpoints appended to
the store's log outside its branches. State: the last entry known, entries
since the checkpoint, and two failure marks: *unreconciled* (an append
returned and then something failed) and *unreadable* (the append itself
failed, perhaps after its record reached the log). Correct when replay never
misses or repeats an entry, durable entries stay, and no entry outlives the
branch state it asserts.

**Provider waits** (`provider-waits.ts`), a client of the journal: deadlines
a provider stated, which must bind across restarts. State: the journal's
reduction, this process's acts not yet recorded, and the view that binds.

**Awareness marks** (`recovery/discord-awareness-outbox.ts`, and in
`framework.ts` the surgeries at 16684-17215, the operator controls at
17656-17825 and the delivery at 35788-36203). After a surgery removed
messages, the ledger (a JSON file beside the store) owes Discord reactions.
State: batches (prepared, active, retired), retracts, one entry per reaction
(what is wanted and by which acts, what is owed, what is on the wire, what
may still land), and the delivery pass of each route. Correct when the later
act decides, nothing that may land goes unrecorded, attempts are bounded,
the ledger never gets ahead of the store, and a trigger is never lost.

**Prose drafts** (`prose-drafts.ts`; in `framework.ts` the drafts tool at
23323-23538, envelopes that say `{{unsent}}` at 25967-26060, bounces at
26387-26485). A second client of the journal: words that could not be sent are
held as drafts, an attempt is recorded before its words leave and its outcome
after. State: the drafts, the latest bounce, and in memory which drafts are
claimed by a send. Correct when words that may be posted are not sent again
unless the resident said so, and a recorded delivery is final.

**Agent registry and held mail** (`dendrite/registry.ts`; `framework.ts`
12236-12432, 13042-13163, 33653-33682). Which agents exist and who spawned
them, the records of those that ended, the tasks a dead process interrupted,
and mail between agents until the recipient's store has it on disk. State:
the registry, its recovery file and the ended log's, rows and the part of them
on disk. Correct when mail whose sender was told it is held reaches its
recipient, once, and an interrupted task's recipient is told, once.

**Push events and the coalescer** (`mcpl/push-coalescer.ts`; the host it is
constructed with in `framework.ts` 21007-21097, 21396-21590). Of each subject
a server pushes about: what the context holds of it unread, a deferred batch
that the server is asked to render when the agent's turn comes, and receipts
that answer a repeated push. Correct when what was acknowledged is kept
through crashes, nothing overtaken is stored, answers are truthful, and a batch
is never left with nothing that will reach it.

**Surgeries of the store** (`framework.ts` 4746-4783, 15499-15601,
16219-16660, 16763-17187, 24552-24702, 33107-33361). A branch switch, a
rollback or a suppression moves the branch under every agent's context
manager. State: the hold (`surgeryHold`), the managers that refuse their work,
writes held for the release and writes held for a manager's recovery. Correct
when nothing moves under a surgery, managers are on the branch or refuse,
held writes land once and in order, and the hold ends.

**Heartbeat** (`heartbeat/heartbeat.ts`). An agent's periodic tick and its
reminders, in memory and in a file. State: settings, the next tick, the
reminders, two armed timers, and whether the file may be written over.
Correct when a reminder said to be saved is kept until it is due, and is
delivered then and no more.

**Tool presence and toolsets** (`mcpl/tool-presence.ts`,
`mcpl/toolset-host.ts`; `framework.ts` 39085-39109, 38431-38470). What the
host believes a server shows of its dynamic tools: the last list, what is
open, what is visible, and the revision of the last statement it read.
Statements come as hints, as answers and in both lists; a gap, a repeat or a
tool not listed starts a recovery. Correct when a host at rest shows what the
server shows.

**Tool lifecycle** (`mcpl/tool-lifecycle.ts` and its calls in `framework.ts`).
Servers that may observe an agent's tool calls are told of each when it opens
and when it ends. State: the calls under way and to whom, and over which
transport, each opening went. Correct when an observer is sent one terminal
after an opening, no matter whether the result, the stream's end or the
script's patience comes first.

**Not modelled yet.** Agents and their contexts (`agent.ts`: read watermarks,
budget epochs, stream cancellation); undo, redo and offline recovery; the
conversation router; the channel registry; the event gate; tune-out; MCPL
transports and connections; checkpoints of feature sets; inference that
servers request; the workspace module. `PROJECT.json` lists each with its files and its place in
the plan or the reason it is left out.

### How they interact

A server's message passes the event gate and tune-out, becomes a process
event, and its handler pushes inference requests. The event loop's pass takes
them to turns; a turn asks for admission, streams from a provider, dispatches
tools through the module registry, and ends or leaves a continuation. A
provider that refuses gets a hold in memory (acceleration) or a stated wait
in the journal; both park the turn's requests. Maintenance and servers' own
inference are auxiliary calls through the same gate. Operators quiesce the
host, run maintenance and surgeries, and resume it. A surgery moves the
store's branch, records its marks in the awareness ledger and starts a
delivery. Drafts, registry, waits and marks outlive the process; the rest is
rebuilt at start.

### Hard behaviours

- State read before an await and used after it: admission, the busy check of
  a pass, a parked start, a delivery's connection.
- Nested ends: a turn can end by completing, failing, an abort, an abandon, a
  stop, a withdrawal during assembly, and at each by way of frames that own a
  gate place or do not.
- Mass moves: a hold's release, a withdrawal, `dropContinuations` and stop
  edit the queue, the pass, the parked requests and the hold together.
- Writes whose outcome is unknown, in the journal and in the ledger.
- Requests whose effect may come after any later one.
- Two files that must agree after a crash at any point: ledger and store,
  registry and the agents' stores, snapshot and receipts of the coalescer.
- A render awaited from a server while what it stands for is overtaken.
- A timer's delivery that is saved only after it, and a file that could not be
  read beside a state that goes on.
- Lists, answers and notifications of one server, read by three flows that
  overlap and lose some of them.
- A surgery that waits for maintenance, which waits for admission, while
  writers, spawns and turns wait for the surgery.

The list in `PROJECT.json` (`hazards`) gives each at its line.

## Modules

| module | models |
| --- | --- |
| `ProcessQueue` | `queue.ts`, every operation |
| `TwoLaneQueue` | what the queue promises: two FIFO lanes |
| `TurnScheduler` | scheduler, gate, holds, frames, operator |
| `AgentTurns` | what it promises: a wake is one turn's, an agent has one turn |
| `RecordJournal` | operators: one call of the journal and the store |
| `JournalClient` | a client that keeps the journal's contract, kills, power loss |
| `ProviderWaits` | `provider-waits.ts` over `RecordJournal` |
| `StatedWaits` | what it promises of waits across restarts |
| `AwarenessLedger` | operators: each act of the ledger |
| `AwarenessOutbox` | surgeries, store, delivery, Discord, crashes over it |
| `ProseDrafts` | `prose-drafts.ts` and the sends of its drafts |
| `AgentRegistry` | `dendrite/registry.ts`, delivery of mail, the boot |
| `PushCoalescer` | one subject of `push-coalescer.ts` with its host |
| `SurgeryHold` | the hold, managers that follow, writes held meanwhile |
| `Heartbeat` | `heartbeat.ts`: ticks, reminders, timers, file |
| `ToolPresence` | one server's tools as host and server have them |
| `ToolLifecycle` | what observers are told of calls |
| `*_proofs` | theorems about the module they extend |
| `MC*` | instances for TLC, one `.cfg` for each run |

`MCQueueAndWaits`, `MCHostParts` and `MCStores` put modules that share no state side by side:
a behaviour chooses a part at its start and is then that part's alone, so one
run checks each exactly as a run of its own would, and the states add up
instead of multiplying.

`RecordJournal` and `AwarenessLedger` are components without a behaviour of
their own; `JournalClient` and `ProviderWaits`, and `AwarenessOutbox`, compose
them with a caller. `PROJECT.json` (`map`) names the source lines of every
definition. Some modules hold operators marked *Defect*: plausible mistakes in
the code beside them, which no behaviour uses; each property is known to fail
when its defect replaces the definition it is a variant of.

### Process queue

`queue` is the array, `waiters` the resolvers, `result` what each caller's last
pop() came to. The lanes share one array in
the code; the refinement to `TwoLaneQueue` maps its external prefix and its
internal rest to two sequences.

### Turn scheduler

A request is a set of *parts*, one or the batch of a merged start, each with
its kind (wake, autoContinue, a held turn's retry, a budget or guard restart)
and the wakes it answers. A frame is a live call of `startAgentStream` or
`driveStream`: its turn token and its agent, the phase (starting, backoff,
handing over to the frame that goes on for it, streaming, ending), the wakes it reads, why its
stream was cancelled (`stop`: by a caller, an abandon, a shutdown, a budget
restart, a turn that ended), the frame that waits for it to start (`parent`),
and whether the pass awaits it. A live frame holds one place in `gate.depth` of
its agent, and so does a parked request. An action is the code between two awaits; the
pass, which runs for all agents between its awaits, is a step per agent,
since the agents' groups are handled one after the other with awaits between.
`over`, `dropped` and `arrived` are history: which wakes have been answered
or settled.

### Journal and waits

The store is external and modelled by what `record-journal.ts:12-55` says of
it: `log` with a `visible` prefix (what this process can read) and a `stable`
one (what a power failure leaves). `Write`, `WriteThrows` and `WriteFails` are
the three ends of a call of `write`. A reopen keeps any prefix at least as
long as `stable`. In `ProviderWaits` a call is a step that decides and the
steps of its flush, as the process may end between two records.

### Awareness marks

`AwarenessLedger` has one operator from ledger to ledger for each act. A
write either happens or leaves the file and the reloaded ledger as they were
(`persist`, `forget`, `writeLedgerFile`), so the failure of an act that only
writes needs no step; where the caller goes on after the failure
(`retireAfterRestore`, `settleActivation`, the delivery pass) the step has
that outcome as a disjunct. `AwarenessOutbox` adds

- the store: for each batch, whether the store stands on the branch before it
  (`source`), on a fork whose removals are not made (`fork`), or where the
  messages are gone (`cut`); `body` in memory, `stored` on disk;
- the surgery under way, with its failures and restores;
- the delivery pass to one route: its loop, what it has tried, the request
  on the wire, whether a trigger joined it, and a trigger about to be made
  (`pending`); `runDiscordAwarenessDrain`'s two ends are `PassRunsOut` and
  `Leaves`;
- Discord: which marks are there, and `late`, requests whose answer nobody
  awaits any more and which may be applied at any time, any number of times;
- history: `tries`, requests sent for what a mark is owed now, and `asked`,
  marks an occasion asked a delivery for and none has claimed yet.

### Prose drafts

The journal is taken as `JournalClient`'s theorems give it, so its state here
is what its lasting records come to (`lasting`), the records after them
(`tail`), a record an append may have left when it threw (`unseen`) and the
failure mark (`doubt`). A call is a step that writes and then what the write
leaves to do (`call`: a reload, a checkpoint). `sender` holds for each tool
call or round what it claims, which drafts of its list are still to be sent
and whether the resident confirmed. `mayBeOut` is history: who may have posted
the words, a sender whose answer is out or some earlier send; `following`
carries it to drafts that copied the words while they were being sent.

### Agent registry

Residents are declared again at every boot; tasks end, are interrupted, and
may be registered again under their name. One action is one call, its
cascades and recovery-file writes included, with a disjunct for each write
that fails and what is rolled back then. `kept` is what a surgery or a
refusing manager holds in memory, replayed or passed on later. A boot goes
through `declaring` (restore, declarations, mail) and `telling` (notices of
interrupted tasks, then their settlement), and a crash may come in each,
keeping any prefix of the rows not shorter than what was synced. A write of
the restore, of a declaration or of an end that configuration left out may
throw: the start has then `failed`, with what reached the files, and only ends.

### Push coalescer

Subjects share only a lock, so there is one subject and one agent. `subject` is
the code's record (`run`: rows in the context in order, `batch`, `rendering`),
`receipts` what a repeated push is answered from. The host's store is what is
written (`stored`: rows, snapshot, recent receipts) and `lasting`, every
version a crash may leave. Commits, renders and saves are awaited in separate
steps, and `lock` stands for `serial` while one of them is. A delivery that
throws leaves its batch to the recovery, which is saved at once and committed
(`RenderThrows`), or whose save throws too, before or between its two writes
(`RenderUnsaved`): the throttled save then follows.

### Surgery hold

`surgeryHold` carries the surgery's verb, its mover and its stage up to the
next await, so that every failure of a step is a disjunct: the move throws
before or after the branch moved, a manager cannot follow, the restore fails
with or without the branch. `refusing` stands both for
`managersRefusingWork` and for a manager that itself refuses, which agree at
the end of every await; `behind` are the managers not on the store's branch.
Held writes are numbered in the order they were accepted; `queue` waits for
the release, `kept` for a manager's recovery. `disposeEmptiedForks` and the
release it is followed by are two steps here and one stretch in the code,
which only adds behaviours. The scheduler is the part of `TurnScheduler` that
a hold meets: the primary's gate, a turn parked behind an auxiliary call, a
maintenance pass that waits at the gate.

### Heartbeat

`state` is `this.state`, `file` what a start would read; a call or a timer's
callback is one step, but `fireDueReminders` goes one reminder at a time
(`due`), since the process may end after a delivery and before the save. A
timer is what it waits for (`due`) and when it rings, which is earlier where
the wait exceeds what a timer can hold. `owed` is history: reminders whose
answer said they were saved and whose last time has not come; `over` holds
what was delivered or cancelled, and forgets what a start would see anew in a
file left behind by a crash or a failed write.

### Tool presence

`server` and `presence` have the same shape. The server numbers its
statements (`rev`), and its messages keep their order on `wire` but one may be
lost. Three flows read lists (`recover`, `connected`, the refresh a
notification asks for); `flow` says what each waits for, and an answer is
applied where it is read, before the flow goes on. A toolset opens with any of
its tools shown. `failed`, `stale` and `ignored` are history: lists that
failed or notices lost while a flow ran, which nothing repaired since, and a
statement that a recovery set aside.

### Tool lifecycle

A call is the emitter's record of it: the tool it was routed to, whether its
opening was sent, and the transport epoch of each observer it was sent to.
A send to an observer may fail, of an opening or of a terminal.
`results` are the tool-result events in the queue, `waiters` the script calls
somebody awaits. `heard` is what an observer was sent of a call over its
present transport; `steady` are the pairs of observer and opened call whose
transport and permission have lasted since, and no send to which failed.

## Runs

| run | states | shows |
| --- | --- | --- |
| `queue_and_waits` | 4 events, 2 consumers; 1 agent, 2 models, 3 records, a checkpoint after each; 2 reminders, 4 instants, 1 fault; 2 calls of 1 tool, 2 observers, 2 transports of each | lanes, at most once, no sleeper, refinement of `TwoLaneQueue`; what binds is the history, refinement of `StatedWaits`; reminders kept and fired in time; one terminal for each opening |
| `turn_outcomes` | 1 agent, 1 wake, 1 auxiliary call, every outcome, one re-arm, with fairness | gate balance, exclusion, token, refinement of `AgentTurns`; every wake ends |
| `turn_merges` | 2 wakes (symmetric), holds and restarts, one retry | wakes conserved, one continuation, quiesce |
| `host_parts` | 1 mark, a rollback and a suppression, a retract, any two of the three; 2 senders (symmetric), 3 drafts, 3 sends, 2 faults; 2 tools, 1 toolset, 1 change by the server, with and without a request of an agent, 1 fault | the later act, late effects, the store barrier, bounded attempts, triggers; no silent repeat, delivered is final, memory is the journal; a host at rest shows what the server shows |
| `stores` | a journal of 4 records; 2 residents, 2 tasks, 1 mail, 3 requests; 3 pushes | replay, durability, the state barrier; mail and notices kept and once; pushes kept, current, truthfully answered |
| `surgery_hold` | the primary and a fork, 3 writes, 2 surgeries, with fairness | held writes, managers follow or refuse, nothing moves, the hold ends |
| `turn_pending`, `turn_resume`, `awareness_sync`, `push_notices`, `push_saves`, `tool_recovery` | the smallest instance | [findings](#findings): the property fails |

Why the bounds suffice. *Queue*: two events a lane give every order within and
across lanes, two consumers a waiter beside a waiter. *Turns*: agents share
nothing in the scheduler but the pass and the operator, so one agent with two
wakes reaches a merge, and a merge with a withdrawal, a hold or a restart; two
tokens allow a frame that winds down beside a newer turn; one attempt in
`turn_merges` and one re-arm in `turn_outcomes` give both sides of each limit. `Outcome` leaves out of an instance
what its question does not need. *Journal*: four records hold two checkpoints
with an entry before each, any of them doubtful; the theorems cover any length.
*Waits*: two models make `EveryModel` differ from one; of the `Stated` values 0 is
over at once (a negative one reads as 0), 1 is a deadline the clock reaches, and 9
exceeds the last instant and is held until released, as one that is no number is;
three records with a checkpoint after
each put a failure on either side of a checkpoint. *Awareness*: the code tries 3
times, the instance twice, and the theorems cover any number; two acts are
enough for a retract between a surgery's choice and its activation, two
surgeries that want the same mark, and a retract or a cancel while a request is
on the wire; every crash, lost route and failed write comes in as often as it
likes. One mark does not exercise the order between two owed marks. *Drafts*:
two senders interleave on one draft; three drafts are a held one, its copy and
one more for retention (`KEEP_NEWEST` is 2) to let go of; three sends are two in
doubt and the one that would repeat them. *Registry*: a task spawned by a task
cascades or orphans, two residents and an end give mail two places to go,
`MaxNumber` 2 a name resumed; one failed write and three requests or crashes.
*Pushes*: two occurrences and one of another kind, or a stop, a crash or a
failure in the place of one of the three. *Surgery*: two surgeries leave a
manager refusing and recover it; three writes are one that waits, one that was
there and one that arrives; the fork is created, ends, or is emptied.
*Heartbeat*: two reminders are due together or apart, a repeating one and a
cancelled one; the fault is a delivery that throws, a crash or a failed write;
`MaxTimeout` 2 makes a timer wait on. *Tools*: one tool of a toolset and one of
none take both ways a list shows a tool; one change is a toolset opened, a tool
shown, added or removed while the host reads its lists, and with an agent's
request it makes two, one of which may be lost; one fault starts a recovery, and
the second of `tool_recovery` is lost while it runs. *Lifecycle*: a model's call
and a script's are the two that end differently, two observers one that provides
the tool and one that does not, two transports one that ends between opening and
terminal. MaxActs, MaxLog, MaxState and LastInstant are bounds of instances;
MaxAttempts of `AwarenessLedger` and CheckpointEvery are the code's constants (2
and 1 here, 3 and larger there).

Deadlock is not checked: a stopped host with its wakes used up has nothing to
do, and a full log, or the last write, surgery, push, instant or request of an
instance, stops the others. That nothing stands still earlier is what
`WakesEnd`, `HoldEnds`, `AskedIsServed` and `NoSleeperBesideWork` are for.

The abstract specifications are properties of the runs. `AgentTurns` sees of
the scheduler only where each wake stands (waiting, in a turn, done), which
agents have a turn (`turnHolders`), and whether the host serves: it allows a
turn to begin only while serving, a wake to be taken by one turn of its agent,
and wakes of a turn to leave it only by being settled or given back.
`StatedWaits` sees the deadlines recorded, the acts not yet sure to be kept,
and the clock: acts take effect in order, a restart loses the last unrecorded
ones at most, and a deadline falls only by passing or by a release.

## Fairness

Only `turn_outcomes`, `turn_resume` (`FairSpec`) and `surgery_hold` assume
any. In the scheduler: weak fairness
of each pass step, unpark, frame step, woken or ending auxiliary call, and of
the end of holds and waits: Node's event loop runs every ready callback,
timers fire, and calls to providers return or time out by their deadlines. No
step needs more than weak fairness, since each stays possible until taken.
Nothing is assumed of what the outside decides: wakes, withdrawals, operator
calls, starts of auxiliary calls. `WakesEnd` further assumes, in the property,
that in the end the host serves and calls stop failing or restarting
(`Settles`): with a provider that refuses for ever, holds repeat for ever.

`SurgeryHold` assumes weak fairness of three groups: the steps of the surgery
under way (its awaits return or throw), the tick and the provider call that
maintenance is in (calls have deadlines), and the replay (it runs without an
await). Turns, cooldowns and everything operators do are left unfair:
`HoldEnds` says that a surgery waits for none of them.

## Proofs

| module | theorem | for every value of the constants |
| --- | --- | --- |
| `QueueAndWaits_proofs` | `NoSleeper` | no consumer waits beside an event |
| | `QueueKeepsLanes` | the queue's array implements `TwoLaneQueue` |
| | `WaitsBindTheHistory` | what binds is the journal with what is unrecorded |
| | `WaitsKeepTheirPromise` | the waits implement `StatedWaits` |
| | `TerminalsAreSent` | one terminal after each opening, when the call ends |
| | `RemindersAreKept` | a saved reminder is kept, and fires in its time |
| | `TypesAreKept` | types of the four parts; an event is delivered once |
| `TurnScheduler_proofs` | `TypeCorrect` | types, and a token is that of a frame |
| | `QuiesceHolds` | a quiesced host begins no turn |
| | `GateCountsTurns` | a gate's depth is its agent's turns |
| | `LiveTurnsHoldTokens` | a live turn has its agent's token |
| | `CallsRunAlone` | no turn beside an auxiliary call |
| | `TurnsGoOnOnce` | a turn is carried on by one thing |
| `AgentTurns_proofs` | `WakesAreConserved` | a wake is in one place at a time |
| | `TurnsKeepTheirPromise` | the scheduler implements `AgentTurns` |
| | `WakesInTurnsHaveTurns` | a wake in a turn is of an agent that has one |
| `Stores_proofs` | `CheckpointsCover`, `ClientHasTheLog`, `DurableIsKept`, `AssertedStateIsKept` | replay and barriers |
| | `AcceptedMailIsKept` | accepted mail is on file until it is in a store |
| | `MailLandsOnce` | no recipient has a mail twice |
| | `InterruptedAreToldOnce` | an interrupted task is told of, once |
| | `AcceptedPushesAreKept` | an accepted push's notice is kept until it is in a row |
| | `StoresTypes` | types of the three parts; live agents' parents are live |
| `AwarenessOutbox_proofs` | `TypeCorrect` | types of ledger, store, pass and Discord |
| | `LaterActDecides` | the later act wins |
| | `LedgerFollowsStore` | the ledger is never ahead of the store |
| | `RequestsOnRecord` | what may still land is on record |
| | `AttemptsBounded` | attempts are counted, and bounded |
| | `TriggersServed` | what was asked of a pass is served |
| `SurgeryHold_proofs` | `WritesHeldInOrder` | accepted writes wait, land or are told of, once, in order |
| | `BranchFollowed` | a manager off the branch refuses its work |
| | `StoreStandsStill` | nothing lands beside a surgery |
| `HostParts_proofs` | `DraftsReadTheJournal` | the drafts in memory are the journal's, and held words are kept |
| | `NothingIsRepeatedUnasked` | words that may be out are not sent again unasked |
| | `SettledHostAgrees` | a host at rest shows what the server shows |
| | `HostTypes` | types of the three parts; a draft being sent is kept |
| `ToolPresence_proofs` | `SettledShowsTheSame` | the same, of one server by itself |

Assumptions are those the modules name (`SchedulerConstants`,
`LedgerConstants`, `ClientConstants`, ...): TLC evaluates them in every run.

*Process queue.* `NoSleeperBesideWork` is inductive as it stands; the lanes
are not. `QueueInv` adds that no event is in the array twice, or there and
delivered (`Distinct`, `Apart`), and that internal work stays behind
(`Ordered`). The first internal event parts the array (`PartsAt`); by `Ordered`
everything after it is internal, so that taking the head of an array whose
external lane is empty serves the internal one, and inserting before the parting
appends to the external lane.

*Waits.* `WaitsInv` says what a process that has read its journal (`HasRead`)
knows of it: its reduction is the journal's replay (`DurableFollows`) except for a
write in doubt, which the log may hold already; its view is the reduction with
the unrecorded acts (`ViewFollows`); no entry lies past the position of a
journal that may write (`PastEntries`), so that a checkpoint covers exactly what it
reduces. Equal here means alike from now on (`BindAlike`): a checkpoint drops
deadlines that passed, and reducing keeps likeness. An act offered again after
a write in doubt is applied twice in the log and once in memory; that reducing
an act twice is reducing it once (`Reduced`) absorbs it. Replay is a recursion
over the log. No induction theorem can be cited, so the lemma `UpFrom` states
induction over an interval for sets (by the least counterexample, `Least`), and
`Recursion` that a recursion by a function has its course of values; `Course`
and `Travel` are those of `ReduceAll` and of `ReplayFrom`.

That the waits implement `StatedWaits` needs one thing more of the journal:
`Follows`, by which each record comes to what those before it come to with it
reduced, a checkpoint to something alike from now on. So the records past the
last sure one (`Unsure`) reduce what is sure (`Sure`) to what the whole log
replays to, and a write or checkpoint that is synced moves exactly them from
`tentative` to `kept`. A write in doubt puts an act in the log that is still
offered, twice in a row at worst when it is offered again; `Once` counts it
once, and `OnceMore`, `OnceAlike` and `OnceReduces` say that this neither hides
another act nor changes what the acts come to. Each step is then a `Do`, a
`Record`, a `Restart`, a `Tick`, or shows nothing.

*Calls.* `CallOK` holds of each call: what an observer heard is nothing, the
opening, or both (`Heard`), nothing is known of a call not made (`Unmade`), a
call waits for its result or its result for the handler (`Whose`), an opened call
goes on, and who was told of it on the transport it has still heard that alone
(`OpenedTo`), and an observer that could observe it all along is owed the terminal
while it goes on and has had it after (`Steady`).

*Heartbeat.* `BeatInv` adds to types and to `RemindersFire` that what fires is
due (`Firing`), that a turn of a repeated reminder that is over lies before the
one to come, in the process and in the file it would restart from
(`OverIsPast`), and that a retry is no earlier than its reminder. It needs that
intervals and periods are positive (`HeartbeatConstants`; the code refuses less
than 60 and 5 seconds).

*Turn scheduler.* `TypeOK` is inductive given lemmas for the operators on
requests, gates and frames. `QuiesceAdmitsNoNewTurn` is an action property
that needs it: every step that puts a fresh frame into `starting` is one the
quiesced host refuses, or moves a frame that was fresh before.

*Ownership of turns.* Gate balance, the token, exclusion and the one
continuation fail to be inductive for the same reason: each step that gives a
place up relies on what else the agent may have. `OInv` says it for each
agent. `OneTurn`: the parts that carry a turn on are together at most one,
queued, in the pass's hands, held or parked; at most one start is parked; a
live frame has the agent's token (one told to stop is live until its turn goes
on by a restart or ends), and while there is one nothing is parked and no
continuation is anywhere. `Balanced`: until the host stops, the depth is
the frames and the parked start. `Excluded`: no frame beside a running call.
`Distinct`: a frame is its token, so that counting tokens counts frames. A
step's proof says what becomes of one agent's places and that the others' stay
(`SameQueues`, `UntouchedOwned`); the lemmas on where parts are take the set of
parts as a parameter, since conservation asks the same of other parts.

*Conservation of wakes.* `Conserved(w)` says that w is with its agent and with
no other (`Here`), once there (`Once`: read by one part of one request in one
place, or by one frame that answers), exactly from its arrival until it is
`over` or `dropped`, and never both of these. It rests on `OInv`, and on
`Idle`: an agent without a hold has nothing held (a step that sets a hold
anew loses nothing), a pass that ended has nothing in its hands (the next one
may take the queue), and a frame that handed its turn to a retry, or whose turn
went on by a restart or ended, reads nothing (the same wakes are the next
frame's, or answered). That an `auto` part reads no wake is part of
its type: a quiesced host drops these parts, and loses no wake by it.

*The scheduler implements `AgentTurns`.* Under the invariant of conservation
the mapping is read off one agent's places: a wake is `Taken` when a frame
answers it or a part that continues a turn reads it, `Queued` when a part that
does not continue reads it, and an agent has a turn when it has a token or a
continuing part (`AskedByAgent`, `Standing`). Most steps rearrange what an agent
has asked for, so they are sorted by what that does to these marks: `Settle`
when marks are only lost, `Begin` when queued wakes are taken (the guards give
that the host is not quiesced), `GiveBack` when an exhausted turn's wakes are
queued again, `Arrive` and `Mode` for the rest. Each action has a lemma that
says which it is. What `AgentTurns` promises of itself then holds of the
scheduler.

*Journal.* `CheckpointsCoverReduced` and `LoadedIsTheLog` are not inductive
alone. They need `InView` (until an append throws inside the store, the
process sees the whole log) and `Positioned` (a journal that may write knows
the last entry): together `Inv`. A checkpoint written from such a state
covers exactly the entries before it. Durability adds `Secured` (acked
entries are in the stable prefix; every entry of the log asserts state that is
on stable storage).

*Registry and mail.* Three properties share one invariant, `RegistryInv`,
since what a crash leaves is what the next boot begins from. Requests differ
in what they change and agree in how they write, so each is shown to be an
instance of `Does(new, ends)`: a change that ends the records of `ends` and
brings no incarnation the registry had before, with files that hold the old
state or the new, and memory rolled back unless the files may lag. `Base`
follows: a name's counter has come to every number in use, in memory and on
disk (`Numbered`: a registration after a crash reuses none), and an
incarnation is live, pending or ended in one place, with the ended log never
ahead of what the process knows (`Placed`: a rolled back end is not written
later). Mail needs that the file covers memory (`Mailed`); `Counted` bounds
how often a mail was addressed by the recipients it may be found under, and
`Landing` says that a mail a call has still to deliver has no copy in a store
unless the call looks for one, and a copy kept by a surgery is in no store.
`Safe` strengthens acceptance by memory: while the process is up, mail is in
memory too, so that a snapshot of any later request has it. A task that began
is on record, in a result that is held, or on a row that is on disk, unless it
was closed or excused (`Followed`); whom a notice names works for its
recipient until it ends (`Noticed`), so that the boot's search for an earlier
notice finds it. `Inspect` chooses the newest ended record of a name; there is
one since the name's counter bounds them (`Greatest`).

*The registry's tree.* `TypesOK` asks that a live agent's parent is live or
the agent an orphan. What keeps it is `Tree`: the live records are finitely
many, and every nonempty set of them has an orphan or a member whose parent is
outside it (`Rooted`), so that nobody is above itself. An end takes an agent
with its tasks, or orphans them; a newcomer is nobody's parent. The step that
could close a cycle is reparenting, which `MayAdopt` guards by a look at the
new parent's ancestors bounded by the number of live agents. `ClimbEnds` shows
the look finds them all: a climb that still grows finds a live agent more each
generation, and there are no more than so many. It needs that the
configuration names finitely many residents (`RegistryConstants`). The climb
is a recursion over the numbers (`RecursionNat`).

*Pushes.* `PushInv` is about every store a crash may leave (`lasting`): what
it says of a receipt is so, it has every receipt that was answered, and if it
has one of the newest event it keeps its notice, as a row or in its batch
(`GoodStore`). The store as the host wrote it has the receipts written and not
yet answered too (`FullStore`), so that whichever part of a write reaches the
disk, the restart begins from a store that is good. What the host keeps of the
receipts is what it would write again, or its snapshot has them all
(`Recents`). In memory the newest event is in a row or is the latest of the
pending batch or of the one being rendered, the pending one being the newer
(`Held`); a step of a render finds the batches where the last one left them
(`Stages`); and a batch that waits has a wake, a keeper or a timer
(`Awaiting`). Acceptance is stated of the newest event, as a batch stands for
the earlier ones by it. What a stop cut off (`cutOff`), a torn save overlaid
(`overlaid`) and a joined render missed (`missed`) are exempt, as in the
property: the findings below are about these. Proving `StartsFull`, that the
first write of a save leaves a full store, is where `push_saves` was met.

*Awareness.* `LaterActWins` compares moments at an activation: a batch whose
choice is not older than a mark's last retract may want it. The code's test
(`retracted > chosen` skips) lets an equal moment through, so the proof needs
that moments are not shared: `Dated` says that every choice and retract lies
in the past and no retract has the moment of a choice. `Named` says that acts
an entry stands on were made and are not cancelled (so a fresh retract or
choice is nowhere yet), `Standing` is the property with the ledger as a
parameter, and `Sound` joins them. An activation must also find its batch
*prepared*: `Hosted` says that a surgery under way has one and that it ends
with the process, which a start's retirement relies on. Delivery changes
entries only within `Settled` (what is wanted, by whom and since when stays;
what is owed stays or is dropped), and `WrittenAhead` gives that the pass's
request is on the wire. `IInv` is the conjunction; one lemma shows that each
group of actions keeps it.

*Delivery.* `DInv` extends it by what the pass's own request is. `OnWire`: it
is the one its mark's entry says is on the wire. `Past`: what is owed or was
tried was decided by now, so a new decision is new to the pass. `InStore`:
the store is where an active or retired batch left it, in memory as on disk,
since a crash returns to the disk's. `Counted`: attempts are counted but for
the request on the wire, and a claim not yet sent is none. `Recorded`: what
may land late is on record; and a mark that is confirmed, with no opposite
request that may have landed, is there. A claimed request has had no effect
before it lands, which is why `Claimed` and `Landed` are told apart. `Untried`
says that what was asked of the pass under way has not been tried in it.

*Surgeries' hold.* `HInv` says who may be off the branch at each stage
(`Following`), on whose behalf a surgery runs (`Made`), that nothing runs
beside it (`Alone`), that what waits is for a live agent (`Destined`), and
that writes are `Sorted`: accepted ones are stored, told of, queued or kept,
once, and those of an agent in order. The queue is sorted through what its
operations do to it: `For(entries, whose)`, the part of a queue that is some
agents', is a recursive function, and `ForLies` (its entries lie in the whole,
in order) is proved by the least index that would be a counterexample
(`WFMin`), as the induction theorems are out of the provers' reach.

*Drafts.* `DraftsInv` is about every state a process may find on opening the
journal (`Views`): the last one known to be there with any number of the
records after it that may or may not have been written. `Shape` says that
memory is such a view until a write is in doubt and stays the journal's replay
otherwise. A record touches one draft, and a checkpoint only drops drafts no
one is sending, so a step adds at most one view and leaves the rest
(`Grows`, `SeenBefore`). `Frozen`: the draft a request was recorded for is alike
in every view, undecided, with its last attempt's outcome open, so that a
restart finds it unconfirmed wherever the journal stops. `Risks` is
what gives `NoSilentRepeat`: a draft that may be out by a send that no sender
still carries is marked in every view (its risk, or an attempt not known to
have failed), a recorded delivery is in every view, and a copy made of a draft
in flight carries its risk (`following`). `SendersOK` keeps the senders apart:
claims are disjoint, and of the senders that have still to begin one at most is
past its claim. What a log comes to is a fold, and that it depends on the
records alone (`RunOf`, `SameRun`) is by the least record at which it would not.
`HostTypes` adds to these `BounceOK` (the latest bounce was given an id, in
every view), and takes the ledger's types from `AwarenessOutbox_proofs` and the
presentation's from `PresenceInv`.

*Tools a server presents.* `PresenceInv` is about the line. `WireOK` says what
the line is good for, whatever of it is lost: the last it says of a tool or a
toolset is so, the revs on it follow each other, and a tool no longer listed
is spoken of only before the notice of it. Losing the head keeps all of that;
what the host no longer hears shows as a gap in the next statement's rev
(`InTurn`), or, if none is left, as a rev behind the server's, which `Quiet`
excludes. `Core`: the host is right about all that the line will not tell it,
or a gap will show, or a recovery is to come or has not read its last list, or a
list was missed and no flow that did not miss one has read another
(`Missed`, `Covered`). `Gone` is the like for a tool no longer listed: a notice,
or a list without it, is still to come. `Awaited` ties each flow to one request
or answer, so that a flow at rest has read all it asked for. The parts' module
uses the lemmas through two instances, one for the server alone and one beside
an agent that asks.

Only model-checked: the coalescer's action properties `StoresOnlyTheCurrent`
and `UnseenIsUnseen`, and what the provers cannot reach: liveness under fairness
(`WakesEnd`, `HoldEnds`).

## Findings

Each is a run in which a property stating the text fails.

1. `turn_pending`: wakes that a hold's release put back are announced as a
   pending primary turn. Withdrawing them (`cancelCoalescedWakes`,
   `framework.ts:21528`), or a quiesce that strips them (22187), never calls
   `endPendingPrimary`: admission stays shut to auxiliary calls with no turn
   to come. The comment at 6636-6638 says it reopens.
2. `turn_resume`: resume() waits for the maintenance pass (9809), whose
   auxiliary call may wait at the gate for a turn that only the resume would
   start. One way there: a hold begun by an auxiliary call leaves nothing
   pending, so when the wakes it released are dropped (22330)
   `endPendingPrimary` returns before its flush, and calls that waited on the
   hold wait on at an open gate until some later turn ends. The comment at
   9804 calls maintain-then-resume the canonical flow.
3. `awareness_sync`: an answer whose write fails leaves its entry on the wire.
   The code leaves the release of such entries to the next claim
   (`discord-awareness-outbox.ts:944`), but a pass begins only for marks
   `due()` returns (1234), which leaves those entries out: neither an
   operator's sync nor a reconnect sends the mark again until another mark is
   owed or the process restarts. `README.md:949-953` of the repository says
   the next pass after each of these does.
4. `push_notices`: a notice admitted while a render is under way opens a new
   batch, and the snapshot (`push-coalescer.ts:1475`) and the receipts (777)
   then hold that batch alone. A crash before the render is placed loses the
   notices it stood for, though they were acknowledged; the comment at 416-417
   says a kill after the acknowledgement finds the accepted work on disk.
5. `tool_recovery`: the comment at `toolset-host.ts:466-471` says that every
   tool a recovery's toolsets/list names is known, unless its tools/list
   failed. A server may list a tool and open its toolset between the two
   answers. The statement then skips a revision or names a tool not listed,
   and `readToolsetList` (325-333) starts nothing, because a recovery runs; the
   refresh that the server's notice asked for lists the tool later and shows
   none of a toolset's. The host is at rest with a tool less than the server
   shows. `SettledAgrees` is the same property without such a statement
   (`ignored`), and holds.
6. `push_saves`: a save writes the snapshot and then clears the recent receipts
   (`framework.ts` 21007-21013, 21082-21097). An acceptance whose record could
   not be written is known to the snapshot alone. A crash between the two
   writes restores the snapshot and replays over it the records left there,
   which are older (`push-coalescer.ts` 1421-1466; the comment there calls their
   batch newer than the snapshot): the acceptance keeps its receipt, as committed,
   and loses its batch, and the producer's retry is acknowledged. The comment
   at 416-417 says the accepted work is on disk. `KeepsAccepted` and
   `StoresOnlyTheCurrent` exempt what such a crash left behind (`overlaid`);
   it takes two events and two failures, one more than `stores` has.

Seen while modelling, without a run:

- `queue.ts` close() drops the resolvers of waiting consumers although the
  comment at 96-97 says they are rejected.
- An assembly that joins another's render settles its cause and is withdrawn
  (`framework.ts:27242-27254`) although a newer batch may be pending with no
  wake and no timer; `push-coalescer.ts:1040-1043` says every pending batch is
  rendered. `KeepsAccepted` exempts that case (`missed`).
- After suspend(), a render's `finally` clears `rendering` without restoring
  the batch, and a flush scheduled meanwhile overwrites the stop's snapshot
  without it (`push-coalescer.ts:1236, 1358, 1075`; `framework.ts:21074-21097`).
  `KeepsAccepted` exempts what a stop cut off (`cutOff`).
- After a crash a rendered row may be in the context while the restored history
  is `none` (the snapshot was saved while a newer batch waited beside the
  render, `push-coalescer.ts` 1369-1384), so a retraction is answered
  "retracted" (931). `UnseenIsUnseen` exempts such rows, as those of deliveries
  that threw (`doubted`); four events and failures reach it.
- reparentAgent delivers mail addressed anew without looking for an earlier
  copy, so mail addressed to one agent, another and the first again may land
  twice; `LandsOnce` exempts it, and counts an address whose write failed, as the
  file may have it and a crash bring it back. A boot looks for an interrupted task's mail by
  name alone (`framework.ts:13062`), so a later incarnation's notice is left
  out when an earlier one left mail.

- `tool-lifecycle.ts:818-824` says a result that arrives after its stream ended
  finds nothing. The table is keyed by agent and the model's call id: where a
  provider counts ids anew for each response, a later call takes the entry,
  and the earlier one's late result ends it. `ToolLifecycle` gives each call an
  id of its own.
- A reminder whose row is held in memory by a surgery
  (`heartbeat.ts:619-650`; `framework.ts:33194-33204`) is saved as delivered
  before any store has it; a crash then loses it.

## What the models leave out

*Turn scheduler.* Agents are neither added nor removed; ephemeral runs, prose
routing, tool dispatch and presentation are inside "streaming". A guard's
retry counts as an in-turn retry of the same attempt; a parked in-turn retry
starts its attempts again; parked requests with one key are not joined; a
merged start reduced to one part counts as single from then on. Surgery holds
and the auto-continue streak budget are absent. How long holds and waits last
is nondeterministic, and an auxiliary call may be for another model than the
hold's. A continuation by `tool_results_ready` is not modelled: only a round of
tools with no stream queues it (19249-19256), which callers of an agent's own
API reach (9443-9447). Every continuation here that `Ready` keeps with a restart
is therefore a restart itself.

*Journal and waits.* Records of other types in the log; a journal without a
store; the rate limit on retries (a retry may come at any time); syncs by
other writers in `ProviderWaits`; a clock that goes backwards. A record's id
is its place in the log.

*Awareness.* One route and one emoji; version 2 files and their migration;
receipts, counts and alerts. Branch switches, undo and redo, which neither
add nor withdraw a mark. Branches are relative to each batch: two surgeries'
branches are independent. Rename makes a ledger write atomic. Two triggers
that come close merge into `pending`. When the pass's route or the host goes,
or a write of the pass fails, what was asked is left to the next occasion, as
in the code; `AskedIsServed` therefore speaks of an open route, and
`awareness_sync` shows what that leaves.

*Prose drafts.* What drafts say, and so how envelopes are parsed and words
split; the notices that name drafts; dates (retention lets go of any old draft
that is not being sent); an id given twice.

*Agent registry.* A task's results go to its spawner; residents send messages
and tasks results; a resumed name keeps its context. Slots, observers, roles,
namespaces, retention of ended records, message paths and notices about
orphans. Syncs by other writers are covered by crashes that keep more than was
synced.

*Push coalescer.* Every push asks for inference and wakes. First-view and
ambient marks, the audience beyond one agent, suppressed batches, expiry and
pruning, the limit on notices, writes held by a surgery.

*Surgery hold.* Imported rows and writes that may be stored already, undo and
redo (refused under a hold), quiesce and stop, names used again, drains of
over-full contexts (waited for like a maintenance pass), marks (with
`AwarenessOutbox`), presentation, and a clock row's listener that ends the
agent being written to. Only the primary has a gate and maintenance.

*Heartbeat.* The import of heartbeat-mcpl's files, the manual trigger, delivery
modes, a clock that goes backwards, a delivery that calls the heartbeat's own
tools, and how times are read and written. A file that is not there, or is not
state, reads as the defaults. A failed write that replaced the file is one
that happened. A reminder may be set for a time that has passed, and fires at
once.

*Tool presence.* Instances of a toolset, definitions carried by hints, groups of
undeclared toolsets, suggestions, tools that move between presences, pages of
a list, hints in a push, and what the agent is told of a change. One server;
the refresh reads all servers' lists, here its one. A server that removed a
tool does not list it again.

*Tool lifecycle.* Inputs and their bounds, classes and filters beyond which
tools an observer may see, ids given twice, calls of a script whose origin is
unknown (observed by nobody). A call that is refused is refused before it
opens. A terminal's send is best effort: one that fails is not made again, so
the observer it failed for is no longer `steady`, and `OneTerminal` promises it
nothing more of that call.

## Plan

Order follows weight. Done: 1 to 9.

1. `ProcessQueue` with `TwoLaneQueue`; proof of `NoSleeperBesideWork`.
2. `TurnScheduler` with `AgentTurns`; types and quiesce proved.
3. `RecordJournal`, `JournalClient`, `ProviderWaits` with `StatedWaits`; the
   client proved.
4. `AwarenessLedger`, `AwarenessOutbox`; types and `LaterActWins` proved.
5. `ProseDrafts`, over what the client's theorems say of the journal.
6. `AgentRegistry`, with delivery, recovery files and the boot.
7. `PushCoalescer`, with the host's store.
8. `SurgeryHold`, with the part of the scheduler it meets.
9. `ToolPresence` and `ToolLifecycle` over a connection with reconnects;
   `Heartbeat`.
10. Read watermarks of overlapping compiles and boundaries (`agent.ts`).
11. Undo and redo; tune-out, event gate, conversation router,
    checkpoint trees, as far as their state justifies it.

Runs. As parts come, those that share no state are joined side by side, and
the findings' runs kept small.

Theorems next: `StoresOnlyTheCurrent` and `UnseenIsUnseen` of the coalescer,
on `PushInv`.
