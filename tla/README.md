# Verification of darkharness

darkharness (`crates/`) is a local coding agent: it loads language models into a
shared memory budget, runs turns in which a model calls tools under a permission
policy, plans work as a map of decision tickets, and shows all of it in a terminal.
This directory holds TLA+ models of the parts whose correctness depends on order,
failure or concurrency, models of the algorithms around them, the TLC configurations
that check both, and TLAPS proofs of what can be stated for every size.

    tlasany M.tla                       parse
    tlc -workers 2 -config X.cfg M      check a run
    tlapm M_proofs.tla                  check the proofs

`PROJECT.json` maps every definition that models code to the lines it models, lists
the runs, the hazards behind the properties, and for each property a mutated
definition under which TLC refutes it.

Contents: [inventory](#inventory), [modules](#modules), [runs](#runs-and-bounds),
[facts](#facts), [fairness](#fairness), [proofs](#proofs),
[further disagreements](#further-disagreements), [abstractions](#abstractions),
[not modelled](#not-modelled), [plan](#plan).


## Inventory

Paths are under `src/crates/`. The first part lists the components that have state and
steps, each with the module that is its state machine; the second those that compute.

### Map: dark-cartograph (CartographStore, Cartograph; reports in MapViews)

State: `journal.jsonl` per map (append-only, committed to Git, the source of truth);
`.dark/cartograph.db`, an SQLite projection of it; per session the tickets it has
claimed and a flag that it resolved a non-research ticket.

Operations: `map_create`, `ticket_create`, `ticket_block`, `ticket_claim`,
`ticket_resolve`, `ticket_invalidate`, `fog_write`, `fog_graduate`, `scope_exclude`;
`Store::rebuild`; `frontier`, `claim`, `reap_expired`. `write_map` of dark-cli
records a finished charting run through the same functions.

Interaction: tools read the database and decide, then append to the journal and
then apply to the database (`journal_then_apply`); `claim` does the two in the other
order, because the conditional UPDATE is what decides a race. Sessions are separate
processes on the same files, without a lock around the three steps.

Hard: interleavings between a check and its two writes; crashes and failed writes
between them; the journal and the database ordering two sessions' writes
differently; leases that expire; rebuilds under sessions that have the file open.

Correct when: at most one session holds a ticket; closed tickets stay closed; the
journal always replays, and to the database; edges have no cycle; a session resolves
one non-research ticket (Rule 20); the frontier does not run dry early.

### Resident set: dark-engine `resident` (ResidentSet)

State: a slot per model (loading, loaded, evicted; quantisation, granted context,
bytes), a deque in order of use, pins, and the leases of running turns.

Operations: `pin`, `begin_load` (with the degradation ladder: lower quantisation,
smaller context, another model's alias), `finish_load` with the measured size,
`fail_load`, `acquire_turn_lease`, `release_turn`.

Hard: the load itself happens with the set's lock released, so other loads, leases
and failures fall between `begin_load` and `finish_load`; eviction must skip what is
pinned, leased or loading; the deque and the table are kept in step by hand; the
ladder inverts a size estimate with integer division and ten percent headroom.

Correct when: the used bytes stay within the budget; a lease is on a loaded model;
no call disturbs a held model or a reservation.

### Engine: dark-engine `lib`, `stream` (Engine over ResidentSet)

State: the tables of registrations, of loaded models and of limiters beside the
resident set; per stream a bounded channel, a task that writes it, and the guard that
gives back the lease and the permit.

Operations: `install`, `resolve`, `stream` (route, lease, permit, request), the task's
loop with its cancellation, dropping a stream.

Hard: every method takes its locks one after another, so a model can be evicted or
replaced between being resolved and being leased; a task blocked on a full channel;
a request refused after the lease was taken.

Correct when: nothing leaks a lease or a permit, a stream is told its end once, the
resident set is used through its methods, and a dropped stream is given back.

### Turn: dark-core `turn` and `policy` (Messages, ChatTemplate, TurnLoop)

State: the messages of the turn, the round count, the accumulator of the round's
chunks, the calls still without a reply, the cancellation token, the one pending
prompt.

Operations: `run_turn`'s loop (open a round, fold chunks, take the finish reason,
answer every call, decide whether to go on), `run_one_call` (parse, find the tool,
decide permission, preview, ask, run under a timeout), `ChannelConfirmer`.

Hard: cancellation racing every step; a timeout racing a late result; streams that
fail, break off or end oddly; the round-trip limit with calls outstanding.

Correct when: every call is followed by its reply whatever happened; no tool runs
that policy and person did not allow; a cancelled turn stops soon; the loop winds
up once past its limit; the model sees the results it asked for; every turn ends.

### Tools: dark-tools (FileTools, Commands; their algorithms in Toolbox)

State: per session the hashes of files read; the files themselves, which other
programs write too; writes that a dropped call left running; for a command its
process group, the pumps on its output and its timers.

Hard: a file that changes between the read an edit is based on and the edit; a patch
that fails after some of its files; a call that times out while its write goes on; a
command whose timeout, cancellation and exit race, and descendants that hold its
output open.

Correct when: only known content is replaced; a patch is carried out whole; a killed
group is gone; output is lost only to a process that holds it; the drain ends in time.

### Session: dark-cli `shell`, dark-tui `app` (Shell over TurnLoop)

State: the intent channel, the queue of submissions, dark mode, the route (local
model or ACP agent), the conversation, prompts on the screen.

Operations: on the terminal's side type, answer, cancel, toggle, quit, die; on the
shell's side `drive`, `run_command`, `one_turn`, `one_acp_turn`, `FinishTurn`.

Hard: everything the person does during a turn races the turn; answers carry only a
prompt's identifier; four ways to leave.

Correct when: submissions run in the order typed and none is lost; the conversation
stays well formed across turns; every prompt reaches the person; leaving ends the
session.

### Records: dark-contract `event`, dark-cli `run`, dark-core `session` (Recording)

State: the event bus's two rings (reliable, lossy), the printer, the transcript's
buffer and file.

Hard: the rings are received in an order of their own, the lossy one drops, the disk
refuses, the process dies; the conversation is rebuilt from what was written.

Correct when: the course of a turn reaches the disk in order and whole, what is
replayed answers its calls, and the printer ends with the turn.

### Charting: dark-plan `chart`, dark-cli `plan` (Charting; the stages in ChartStages)

State: `checkpoints.jsonl` per map, one line per finished stage.

Operations: seven stages, each replayed from its checkpoint or computed and
appended; `resume` takes the newest map; a finished run is handed to `write_map`.

Hard: a process killed in the middle of an append; resumption after it; two runs.

Correct when: what loads is one coherent run; a map keeps its tickets across
resumptions; an acknowledged stage is not lost.

### Wiring repair: dark-plan `wire` (Wiring)

State: the edge set, the edges given up, the attempts left.

Operations: resolve names to tickets, dedupe, break cycles (drop the edge of a cycle
that points from the latest ticket back), reduce transitively, check the frontier.

Correct when: the repair ends within its attempts, what is left has no cycle, is the
transitive reduction, and leaves a ticket to start with.

### What computes

These have no concurrent state of their own. Their modules hold the algorithms, and
TLC evaluates [facts](#facts) about them.

| module | component | hard to test |
|---|---|---|
| Scraping | dark-qwen `toolcall`, `think`; dark-cli `scrape` | a tag split between two fragments, text that never closes what it opens, a call to repair and validate |
| ChartStages | dark-plan `axes`, `extract`, `sharpen`, `size`, `destination`, `gate`, `cost`, `work` | retries that do not converge, splits that lose or double a ticket, answers that nearly match |
| MapViews | dark-cartograph `digest`, `export`, `snapshot`, `health`, `map_read`, `ticket_zoom` | reports that select, cut and count: what is left out and whether the count says so |
| Instructions | dark-agentsmd | overrides, budgets that cut a file inside a fence, files met in the middle of a turn, a section rewritten in a person's file |
| Sources, Lexicon, Packs | dark-lexicon; dark-cli `pack`, `docsource` | documents whose outline, licence and addresses are guessed; chunks that must keep every line, codecs, fusion; a pack half written, sealed, imported, staged |
| Settings | dark-config, dark-cli `config`; dark-qwen `profile`, `sampling`; dark-core `context` | a key hidden by a layer, a prefix that changed, eviction and folding of a context |
| Screen | dark-tui `views`, `app`, `anim`, `replay`; dark-cli's prompts | wrapping, scrolling, prompts that take keys, playback against input; bars that fold late events, zones under the wrong labels, Markdown left open |
| Seams, Survey | dark-explore; dark-cli `explore`, `extend`, `refactor` | graph algorithms, caches keyed too narrowly, a report that is torn or old, rankings that depend on the rest, figures and citations in prose |
| Toolbox | dark-tools, the algorithms | quoting, paths that climb, hunks miscounted, overlapping matches, pages |
| Preparation | dark-engine `load`, `tune`, `embed`, `stream/request`; dark-cli `models`, `doctor`, `setup`, `harness` | a pull cut short or repeated, two quantisations in one directory, warnings that block or do not |
| Foreign | dark-acp; dark-cli `acp` | what an agent's request is taken for, a reply with a hole in it |
| Telemetry | dark-core `telemetry`, `jsonl`; dark-cli `stats`, `session` | a torn last line and the append after it, loads that span turns |
| Scripted | dark-engine-fake | ends, errors and cancellations in the same poll |


## Modules

### State machines

| module | lines it stands for | state and actions |
|---|---|---|
| CartographStore | journal/event.rs, store/{schema,mod,cycle}.rs | the event record, `Apply` of an event to the database, `Replay` of a journal, `ClosesCycle`, `Frontier` |
| Cartograph | tools/*.rs, frontier.rs, journal/log.rs, plan.rs `write_map` | `journal`, `db`, and per session `todo`, the rest of the call it is in. A tool action reads and decides, and leaves a list of steps (`check`, `append`, `apply`, `replay`); `Advance` carries out one of them. `Crash`, `WriteFails`, `Tick` |
| ResidentSet | resident/{set,estimate,degrade}.rs | `slots`, `pinned`, `lru` (the deque as the order it lists), `leases`; an action per method |
| Engine | lib.rs, stream/{live,concurrency,request,response}.rs | EXTENDS ResidentSet: its methods are called under its lock, one lock an action; adds `installs`, `models`, `limiter` and the `streams`, each with a channel and the phase its task is in |
| Messages, ChatTemplate | turn/mod.rs `history_is_well_formed`, contract `message.rs` | messages and when a history is well formed; the log a chat template can render, as an abstract specification |
| TurnLoop | turn/mod.rs, turn/accumulate.rs, policy/*.rs | `pc` is where `run_turn` awaits; an action per await that resolves and per branch of `run_one_call`; the engine, the person and the clock are the environment |
| FileTools | fs/{state,read_file,write_file,edit_file,apply_patch,atomic,path}.rs | `disk`, `seen` (the ReadState), the `call` in progress, the writes a dropped call left (`late`); an action per await of each tool; other programs |
| Commands | exec/{child,mod,args}.rs | the processes, their group and who holds the pipe, the timers, what is collected; an action per outcome of each select |
| Shell | shell.rs, acp.rs, app/*.rs | EXTENDS TurnLoop: a local turn is its actions, step for step, while `drive` is `"turn"`; adds the application, the channel, the queue, agent turns |
| Recording | event.rs, run.rs, session/transcript.rs | the two rings, the printer, the writer's `buffer` and the `disk`; the turn reduced to the events it sends |
| Charting | chart/pipeline.rs, chart/checkpoint.rs, plan.rs | `lines` of each map's file and whether the last has its newline, the running processes; `Replay`, `Compute`, `Save`, `SaveCut`, `Stop`, `Deliver` |
| Wiring | wire.rs | `edges`, `broken`, `tries`, `phase`; an action per iteration of each loop |

### Algorithms

Scraping, ChartStages, MapViews, Instructions, Sources, Lexicon, Packs, Settings,
Screen, Seams, Survey, Toolbox, Preparation, Foreign, Telemetry and
Scripted have operators only, one for each function they stand for (the component each belongs
to is in the [inventory](#what-computes)). Text is a sequence of lines, words or
characters of a small alphabet, as fine as what the function tells apart.

### Instances and proofs

MCCartograph, MCResidentSet, MCEngine, MCTurnLoop, MCFileTools, MCCommands,
MCRecording, MCCharting and MCWiring hold the values of constants for TLC and the facts
about the algorithms; Shell is its own instance. Modules named `_proofs` hold theorems
about the module they are named for; TurnLoop_proofs also those about Shell,
and Engine_proofs those about ResidentSet. Operators marked "Mutant of" are the plausible bugs the properties are tried
against; no specification uses them.

Three relations tie levels together. TurnLoop implements ChatTemplate (`TemplateKept`):
the log is the history, what is owed are the calls without a reply. Engine implements
ResidentSet (`UsesResidentSet`): every step of an install, a stream or a task is a call
of the resident set or leaves it alone, so what is proved of the set holds in the
engine. Shell contains TurnLoop, so that the history of a session is built by the same
steps the turn properties are about.


## Runs and bounds

**carto_work**: two sessions, a map with two tickets and a third to create, one fog
patch, a journal of at most 7 lines. Each tool has the sessions that use it in this
program's flows. Enough for: both sessions claiming and closing; an edge added
against an open, a claimed and a closed ticket; a cycle of three tickets; a second
resolution by one session, and a research ticket that does not count. Only one
session wires: with two, `EdgesAcyclic` fails (below).

**carto_faults**: charting, claims, resolutions, exclusions and rebuilds by two
sessions, each of which may crash or have a write fail once, at any step. `DbBacked`
is the invariant "durable first, derived second" is for.

**carto_claim**: three sessions and one reaper over two tickets, a lease of two
ticks and three ticks of time: a claim can expire, be reaped and be won again while
the first holder's append is still to come.

**resident_loads**: three models whose sizes exclude one another in a budget of 66 (40;
30 or 15; 20 or 10, and context by the token), requests that reach every rung of the
ladder, a lease, pins, failed loads, and two loads in flight. The program has one load
in flight at a time, because its only `install` is awaited by `bring_up`; `SoleLoadFits`
says what holds then, and is proved. The rest holds for two, and is proved for any number.

**engine_streams**: one installer and two turns over two models that cannot both be
resident, responses that carry a chunk or end the stream, a channel of one chunk, callers that read, stop reading, cancel or drop their stream at
any moment. Two turns are a stream that runs and one that is routed while its model is
evicted or installed again; a channel of one is always full.

**file_tools**: three calls on two files of two lines: a read, an edit based on it, and
something between. Two lines are two changes that do not touch each other. The patches
rename, create, delete, and name one file twice; other programs change files twice,
and a call that timed out leaves its write to land under a later one.

**commands**: a leader and two descendants, which leave the group or keep the pipe
open, at most two lines, a timeout of the command shorter than or equal to the turn's,
and a clock that passes every timer.

**turn_native**: a limit of two rounds and so three rounds, up to two calls of every
kind each (a read allowed, a write asked about, an execution denied, garbled,
unknown), every finish reason, a failure and a broken stream at every point, a
cancellation and an answer at any moment, tools that return or do not. Two calls
are what it takes for one to be answered and one to be waiting; the third round is
the one past the limit.

**shell**: three submissions, prompts or a switch to the agent, with turns of one round
and one call behind the scraping engine, one intent in the channel, and keys that
cancel, switch dark mode, quit, or a terminal that dies. Three submissions are one
running, one queued and one in the channel.

**records**: two rounds of up to two pieces of text and two calls, on a lossy ring of
one event, which overflows at once; the engine, the disk or the process fails at any
step. The reliable ring holds the whole turn, as 8192 events do.

**chart_resumes**: four runs in a row over at most two maps; each may fail or be killed
at any stage, and an append may leave nothing, a fragment, the whole line without
its newline, or the whole line unacknowledged. A second map makes `resume` choose.

**wiring_repair**: every naming answer the model can give for four tickets, under
distinct names and under names two tickets share: all sets of edges between four
tickets. Four is the least number with a cycle that has a chord both ways, two
disjoint cycles and an implied edge over a path.

Deadlock is checked in the resident, engine, turn and session runs (the last two end
in an explicit stuttering step, so that a deadlock is a real wait on nobody). It is off
in Cartograph, FileTools and Commands, whose bounds on journal, calls and clock stop the
model, and in Recording, Charting and Wiring, which end.


## Facts

The algorithms are checked as named assumptions of the MC modules: TLC evaluates each,
over every input of a small set, before it explores the run, and stops the run if one is
false. A fact compares an operator with a reference definition, or states what it keeps,
bounds or lets through; each is preceded by a comment that says which code it is about.
The names of those that show the code to differ from what is said of it are given under
[further disagreements](#further-disagreements).

| run | facts about |
|---|---|
| carto_work, carto_faults, carto_claim | MapViews |
| resident_loads | Settings, Preparation |
| engine_streams | Packs, Scripted |
| file_tools | Instructions |
| commands | Survey, Toolbox |
| records | Screen, Telemetry |
| turn_native | Scraping, Foreign |
| chart_resumes | ChartStages, Seams |
| wiring_repair | Lexicon, Sources |

Inputs are chosen so that both answers of a condition occur: for text all sequences up
to a length over the characters the function looks at, for graphs all edge sets of three
or four nodes or a few shapes where all would be too many, for numbers the values on
both sides of each threshold. Where a constant of the code is a size (a budget, a
window, a page) the instance has a small one, given at the `INSTANCE`.


## Fairness

TurnLoop (`LoopFairness`): the loop is polled when it can go on; the engine ends a
stream it has opened; a preview returns; the timer fires. Not assumed: that a tool
returns, or that anybody cancels. `AttendedSpec` adds a person who answers prompts,
as `TurnEnds` needs: `run_one_call` waits for an answer without a timeout and without
watching the token (`CancelEndsTurn` below). Liveness is thus about the loop's own
waits: the select around a running tool, the limit, the stream.

Shell (`SessionFairness`): the same inside a turn; the select of `one_turn` reads the
channel; an agent turn ends by itself; a person who answers as long as the terminal is
open. `LeavingEnds` excepts the sessions whose person has gone with a prompt open.

Engine (`EngineSpec`): the task of a stream is scheduled when it can go on. Not assumed:
that the model says anything, that a caller reads, or that an install ends.
`DroppedIsReleased` is thus about the select the task waits in.

Recording: the printer receives as long as there is something to receive and its
process runs. The turn itself is not assumed to end; `PrinterEnds` starts from there.

Wiring: `WF_vars(Next)`, a sequential loop.

Cartograph: `FairSpec` (weak fairness of the steps of a call, of the reaper and of the
clock) only in the refutation of `ExpiredClaimReleased`.

The fairness of a stream that ends is an assumption about the model server; the
code puts no timeout on a stream.


## Proofs

For every value of the constants that the named assumptions allow.

**Engine_proofs**, on ResidentSet (from `ResidentSetAssumption`: sizes and budget are
naturals, requests are over the models). `TypeOK` is inductive. `LeaseKeepsModel` and
`QueueCorrect` are inductive given `TypeOK`; the latter goes through `Lists`, an order
that lists a set, and two lemmas: removing from and moving to the end of a list give
a list. `HeldModelsUndisturbed` and `ReservationsKept` are action properties from
`TypeOK` and the lemma that `Plan` evicts only what `Evictable` allows. They hold for
any number of loads in flight. `SoleLoadWithinBudget` is about a sum: the lemmas
`BytesAny`, `BytesPart` and `BytesAgree` give what the community fold over the slots in
use returns (by the least finite set that would be a counterexample), `GrantedContextFits`
what the divisions of the ladder leave, and `VictimsMakeRoom` that the slots the deque
gives up free what the whole request needs. It rests on `Lists` and on the slots in use
being finitely many, which is an invariant and no assumption.

**TurnLoop_proofs** (from `ConfigAssumption`, `MaxCallsAssumption`).
- `TypeCorrect`, with `PendingInv`: a call is pending exactly while replies are being
  written, without which "the current call" has no type.
- `HistoryCorrect`: well-formedness is not inductive, for it does not hold while
  replies are outstanding. `HistoryInv` splits the history into a well-formed part
  and, while a round is being answered, an assistant message followed by its first
  `answered` replies; `RoundInv` ties the split to `calls` and `answered`.
- `TemplateImplemented`: the refinement, every step of the loop is a ChatTemplate step
  or stutters.
- `CancelBounded`: after a cancellation at most one tool starts and at most one round
  opens. `LateInv` says which `pc` and which `stopping` each count comes with.
- `PermissionKept`: from `GateInv`, a pending prompt is about a call that parsed and is
  registered.
- `OneWindUpAnnounced`: `WindUpInv` counts the system messages of the history against the
  rounds, in every `pc` but "failed", where a round may be announced and not taken.
- `ResultsShown`: only under `NativeTools`. Behind a scraping engine the property is
  false ([refuted](#refuted-properties)). `QuietInv` ties the calls of the last round to
  the reason it finished with.

The same module goes on to the session, `SessionSpec` of Shell, for any number of
submissions, any channel and all that the terminal may do.
- `SessionRunsTurns`: a step of the session is, on the turn's variables, a step of the
  turn, a stutter, or `FreshTurn`. With the lemmas that a step of the turn keeps its
  types and `HistoryInv`, these hold throughout a session (`SessionInv`).
- `ConversationCorrect`: two well-formed histories joined are well formed, and a turn is
  joined only once it has ended.
- `SubmissionsInOrder`: inductive with `IdleInv`, nothing waits for a turn when none runs.
  Each step moves the first submission of the channel to the end of what left it
  (`Moves`) or moves none (`NoneMoves`), and either keeps the numbering.
- `PromptsReachPerson`: inductive given `SessionInv`; a prompt leaves the screen only as an
  answer, and its answer leaves the channel only to close it.

The same module goes on to the engine, which extends ResidentSet (from `EngineAssumption`
as well). The inductive
`EngineInv` is the types, `NothingLeaks`, and `GoodStream` of every stream: nothing has
ended while the task can still send, what is left to send ends in its last chunk only
(`Telling`, from the assumption that a response is mapped with `Done` last), and the last
chunk of an ended channel is an ending. `ResidentSetUsed` is the refinement: every step
of an install or a stream is a method of the set or leaves it alone. With it the
theorems about the resident set hold in the engine, as `EngineLeaseKeepsModel` does.

**Recording_proofs** (from `RecordingAssumption` and `RingHoldsTurn`: the reliable ring has
room for what one turn announces, which with `RELIABLE_CAPACITY` is 4094 calls; with a
smaller ring and a printer that never runs `ResultsKept` is false). What is written and
what is replayed are folds over the log. `AnnouncedLaw` and `ReplayedLaw` say what each
returns for one event more: the fold of the community modules chooses a function on sets
of positions, and `OneFold` shows, by the smallest counterexample, that there is one such
function and no other. `IInv` then ties the ends together: what is recorded is how the
course began and what the ring holds is the rest (`Logged`), a call is announced
directly before its result (`Ordered`), what may still be announced fits (`Room`), and the
rebuild has in hand at most the call announced last (`InHand`), which is why the
result closes a message that asks for exactly it.
- `ResultsReachPaper`: with lost text, an engine that fails, a disk that refuses and a
  death at any point.
- `RecordingsReplay`: `InHand` at the end of the turn, where nothing is in hand.

**Commands_proofs** (from `CommandsAssumption`). `KillsTheGroup`: what a survivor starts is
in no group of the command, so a killed group stays dead. `LinesLostOnlyToHolder` and the
action property `DrainEndsInTime` share `DrainInv`: the drain's deadline is one grace
after the wait ended, and time passes in it only while a process may still write.

**FileTools_proofs** (from `FileToolsAssumption`). `KnownReplaced` is inductive with `SeenInv`: the content recorded for
a path is one the session saw there. `PatchAppliedWhole`: `PatchInv` says that, while
nobody else touches the files, the plans are those made against the files the patch
found, and the disk is those files with the plans so far carried out (`CarriedOut`).

**Charting_proofs** (from `ChartingAssumption`). `ProgressIsKept` holds for any number of processes: `EndsInv`, every
stage a run was told is kept is an ended line. `StagesFollowOn` and `TicketsDrawnUpOnce`
are about one process at a time (`OneAtATime`, which `chart_resumes` has; with two the
first is [refuted](#refuted-properties)). `ChartInv` says of each map's file that it
cannot be read, or that the run holds its first lines, or that the run has saved a stage
onto a line cut short and the file lost both; and of neighbouring stages, in the file and
in what is handed over, that one was computed from the other.

**Cartograph_proofs** (from the assumptions of CartographStore and Cartograph, and
`NoneIsNoStatus`: the absent value is no status). The invariants speak of the steps left in `todo`: what each may
rely on, in the database and in the journal, until it is carried out.
- `NothingBeforeTheJournal`, with no hypothesis: `Inv` says that what a step will apply is
  in the journal or is appended before it, that a replay cannot show more than the
  journal, and that a claim not yet appended is still in the program of its session.
- `RebuildSucceeds` (`Callers["write_map"] = {}`): `ReplayInv`, the journal is orderly: each
  creation comes once and before what names it, because the row that refuses a second
  creation is there before the first append ends. A second `write_map` appends first
  and is refused after, hence the hypothesis ([refuted](#refuted-properties) without).
- `RuleTwentyKept` (`Faultless`): `ResolveInv` counts resolutions in the journal and those
  a session has yet to append against its flag. With a failed write it is refuted.
- `OneHolderOnly` (`OneReaperNoRebuild`): `HolderInv`, an unexpired claim of a session,
  appended or still to be, is in the ticket's row, and a statement left that reopens a
  ticket is the reaper's and finds the claim expired. A rebuild in
  mid-claim takes the row's claim away before its line is in the journal; a second
  reaper works through an old list.
- `FrontierOffersWork` (`OneWirer`): `WireInv`, the edges are acyclic and the edge a session
  is about to write closes no cycle, which another wirer could undo. A finite acyclic
  relation has a first element (`AcyclicHasFirst`), by well-founded induction on the
  sets of tickets that lead to one.
- `RebuildChangesNothing` (`OwnersClose`, `Faultless`): `SettleInv`, database and replay agree
  on every mark and every row but for the step at the head of a running call, and what
  is left of each call still fits. `OwnersClose` excludes the late claim after another
  session's resolve and the reap of a closed ticket, with which it is refuted.
- `ClosedForGood`: the same, and no `scope_exclude`, which does not ask whether a ticket is
  closed.

The hypotheses are on constants: which session calls which tool, and what may fail. The
run that checks a property has constants that satisfy them.

**Wiring_proofs** (from `WiringAssumption`). `IInv` joins the types, "no edge from a
ticket to itself", `Enough` (the attempts left exceed the edges left, because each
attempt removes one) and the two properties. A cycle has an edge that points back,
and the dropped edge is one: `OnlyBackEdgesBroken`. `BudgetIsEnough` is from `Enough`.
`RepairedAcyclic`: removing edges creates no cycle. `MapStartsTakeable`: an edge set
without a cycle over a non-empty set of tickets has a ticket nothing blocks, by the
longest path (`SourceExists`).

Induction over a log is by the least counterexample: a non-empty set of naturals has a
least member (`LeastNatural`, from the well-foundedness of inclusion on initial
segments), and a recursive function unfolds at a given argument. This proves what
`Replay`, a fold over the journal, keeps, without an induction rule that takes an
operator.

Only model-checked: `RepairEnds`, `TurnEnds` and all other liveness, which is out of the
proof system's reach; and what the operators of the algorithm modules compute, over
bounded inputs.


## Further disagreements

Where the code does something else than a comment, a document or a test of the
repository says. None is a listed run; each was refuted by TLC as stated here, or by a
fact that TLC evaluates in a listed run.

### Refuted properties

"own" is the listed configuration with the property in place of its own. `retry` is
`carto_faults.cfg` with Session = {s1}, Callers <- Resolver, Charted <- AllTickets,
Planned <- NoPlan, Hitl <- Nothing, Humans <- Nothing and MaxJournal = 6, which refutes
`OneResolution`; where the table gives a constant another value, that one is meant. Paths are the code, on the left, and the sentence, on the
right.

| property | run | the code | what is said |
|---|---|---|---|
| OneResolution | retry | the Rule 20 flag is not set when the append succeeds and the statement fails (tools/ticket_resolve.rs:120) | "A session resolves one ticket" (PRD.md:246) |
| ExpiredClaimReleased | retry, `FairSpec`, Ticket = {t1}, Callers <- NoReaper, Lease = 1, MaxClock = 3 | `reap_expired` has no caller outside tests (frontier.rs:245) | "a crashed session cannot hold a ticket forever" (frontier.rs:7-8) |
| ReapSparesClosed | retry, Session = {s1, s2}, Ticket = {t1}, Callers <- ReaperAndWorker, Lease = 1, MaxClock = 3, MaxFaults = 0 | the reap works through a list read earlier and its UPDATE has no status guard: it reopens a ticket resolved since (frontier.rs:286) | "that `UPDATE` carries the same `'claimed'` guard" (frontier.rs:226-228) |
| NoInventedClaim | retry, Session = {s1, s2}, Ticket = {t1}, Callers <- ClaimsAndCloses, MaxFaults = 0 | a claim's append can land after another session's resolve; a replay shows the ticket claimed (frontier.rs:209) | "No rebuild ever invents a claim" (frontier.rs:30-31) |
| EdgesAcyclic | retry, Session = {s1, s2}, Callers <- Wirers, MaxFaults = 0 | the cycle check and the write are separate steps; two sessions add A->B and B->A (store/mod.rs:248) | "A cycle in the blocking edges cannot appear here" (frontier.rs:99-101) |
| FirstReasonKept | retry, Ticket = {t1}, Callers <- Excluder, MaxFaults = 0 | `scope_exclude` does not ask `require_not_terminal` (tools/scope_exclude.rs:123) | "keeps the reason it first closed for" (tools/mod.rs:390-392) |
| AlwaysReplayable | retry, Callers <- Charter, Charted <- Nothing, Planned <- PlanChain, MaxJournal = 7, MaxFaults = 0 | `chart` calls `write_map` after a resumed run too (plan.rs:471); `MapCreated` with the same id is appended before SQLite refuses the row, and `rebuild` stops at that line ever after | the journal "is the source of truth" |
| WithinBudget | resident_loads, own | a load counts another's reservation as room it could make (resident/set.rs:330) | "so a second concurrent load cannot also claim it" (set.rs:301) |
| ReservationHasLoader | engine_streams, own | an error of `spec_for` leaves `install` between the reservation and the part that gives it back (lib.rs:262) | "a failed load never leaves the resident set holding memory that nothing uses" (lib.rs:212-214) |
| ReleasedWithStream | engine_streams, own | the guard is the task's: a dropped stream's lease is held until the task looks, or its channel has room (stream/live.rs) | "it runs when the outer stream this function returns is dropped" (stream/live.rs:43-45) |
| ErrorIsNoStop | turn_native, own | `FinishReason::Error` ends as Stopped (turn/mod.rs:338) | "must not read that as a clean stop" (turn/accumulate.rs:88) |
| GraceRespected | turn_native, `Spec`, RoundTripLimit = 1, ToolTimeout = 3 | `cancel_grace` is never read; a cancelled tool runs to its timeout (turn/mod.rs:528) | "How long a running tool has to stop after a cancellation" (turn/mod.rs:74) |
| CancelEndsTurn | turn_native, `UnattendedSpec`, RoundTripLimit = 1 | a prompt is awaited without the token (policy/mod.rs:178, shell.rs:786) | "`cancel` stops the turn" (turn/mod.rs:274) |
| ResultsReachModel | turn_native, `Spec`, RoundTripLimit = 1, NativeTools = FALSE | scraped calls come with Stop, so the turn ends with results the model never saw (scrape.rs:125, turn/mod.rs:334) | "runs again until the model stops asking" (turn/mod.rs:3) |
| CancelledByRequest | turn_native, `Spec`, RoundTripLimit = 1, CancelsOnDrop = TRUE | the stream cancels its token when it drops (stream/live.rs:223), and the token it was given is the turn's own: after the first round every check sees a cancelled turn | `TurnEnd::Cancelled`, "A person cancelled the turn" |
| StaleWriteFails | file_tools, own | the hash is compared when the content is read, and the rename comes after an await (fs/edit_file.rs, fs/atomic.rs:32) | "fails when the file changed on disk since that read" (fs/mod.rs:9-13) |
| PatchedFilesWereRead | file_tools, own | `apply_patch` does not consult the read state before it plans (fs/apply_patch.rs) | "a write to an existing file requires a prior `read_file` call" (fs/mod.rs:9-13) |
| EveryHunkApplied | file_tools, own | two file patches of one file are planned against the same content; the second write undoes the first (fs/apply_patch.rs:129) | "applies every hunk in it or none of it" (fs/apply_patch.rs:3-4) |
| TimeoutKillsGroup | commands, own | the turn's timeout is the tool's default of 120 s and drops the call; only the direct child is killed on drop (turn/mod.rs:93, 528; exec/args.rs:8) | "A timeout kills the whole process group" (PRD.md:1099) |
| OutputAnswered | commands, own | a background process that keeps the pipe makes the drain time out, and everything collected is dropped (exec/child.rs:172) | "so its pipes have closed (or will close very soon)" (exec/child.rs:165-166) |
| ReplayIsExact | records, own | a result or `TurnEnd` is received before the deltas sent earlier (event.rs:315), and each result ends an assistant message, so two calls of one round are replayed as two messages (transcript.rs:207-216) | "Replay reproduces the message list exactly" (transcript.rs:10) |
| ReplyShown | records, own | a lagged delta is nowhere: the transcript is written from the same receiver (run.rs:183) | "a lagged display costs nothing that matters here" (run.rs:184-187), "nothing that the transcript cannot rebuild" (event.rs:223-224) |
| CommandsDispatched | shell, own | a command queued during a turn runs as a prompt (shell.rs:526, 801) | "Anything starting with a slash is dispatched" (shell.rs:546-548) |
| DarkAtNextTurn | shell, own | a dark mode asked for during a turn gets a notice and is thrown away (shell.rs:794-800) | "dark mode changes at the next turn, not during this one" (shell.rs:799) |
| NeverDiscarded | shell, own | a failing engine ends the session with submissions queued (shell.rs:814) | "Never discarded" (shell.rs:802-804) |
| CancelsItsTurn | shell, own | a cancel read late cancels the next turn (shell.rs:786) | "Cancel the running turn" (event.rs:236) |
| NoTurnOnceClosed | shell, own | after the terminal died queued prompts still run (shell.rs:599) | "end the session the same way" (shell.rs:529-530) |
| QuitEnds | shell, own | quitting with a prompt open waits for its answer (shell.rs:787) | "Leave the application" (event.rs:249) |
| AlwaysResumable | chart_resumes, own | an append after a truncated line joins it, and every later load fails (plan.rs:118, 135-157) | "a truncated final line loses that stage, never the ones before it" (plan.rs:78-84) |
| Coherent | chart_resumes, Runner = {r1, r2}, MaxRuns = 2, MaxMaps = 1 | two runs on one map mix one's tickets with the other's wiring (pipeline.rs:514) | "see the same progress, which is what makes resume possible" (pipeline.rs:118-122) |

### Found by facts, or while reading

The fact that shows each is named in parentheses; an entry without one was seen while
reading. Files are those of the component.

**Map.** A rebuild between a claim's UPDATE and its append lets two sessions hold one
ticket. Two sessions that create tickets at once can take the same ordinal
(tools/ticket_create.rs:112), and tickets that share one are listed once per blocker,
with a wrong count (SharedOrdinalsRepeat). `MapUpdated` is never emitted, so "most
recently updated" is most recently created (tools/map_read.rs:120-139).

**Charting.** `dark plan resume "<idea>"` does not use the idea, so a run without a
destination cannot be resumed (main.rs:309 offers it). A map on which every candidate is
fog is refused after its wiring was checkpointed, so "Retry it" (wire.rs) repeats the
refusal. A run killed before its first checkpoint leaves no directory and `resume`
takes an older map. wire.rs:9-13 says the pipeline has no place to call the repair, and
pipeline.rs:262 calls it. `tag_prefix` cuts a line at a byte, which may be inside a
character (destination.rs:64). The halves of a split ticket are not sized again, and
their names can be longer than allowed or collide (size.rs:208-221).

**Engine, models and doctor.** An interrupted second pull leaves the old manifest over
torn weights, still listed and chosen, against harness.rs:93 (RepullCanTear). With two
quantisations in one directory the first by name is loaded and verified whichever was
pulled last, and "pull again" does not mend it, against models.rs:126
(FirstByNameIsLoaded). A GGUF pull fetches no config.json or tokenizer.json, so the
model is installed and verified and cannot load, against shape.rs:14
(GgufAloneCannotLoad). Both shards' bytes count though one is loaded
(EveryShardIsWeighed). `a/b__c` and `a__b/c` share a directory (RepositoriesCanCollide);
no `--quant` asks for in-situ quantisation though its help says so (NoFlagPullsInSitu).
Progress is slower than the "2 Hz" of download.rs:77 when bytes are slow
(ReportsWaitForBytes), and files after the first show none (LaterFilesAreSilent).
`dark doctor --offline` can never print OFFLINE READY, against PRD.md:2785, 2895, 2927
(NeverOfflineReady), and says that no model is installed when one is; its warnings carry
`network_remedy` false, against doctor.rs:735-737 (WarningsNeverBlock). The recommended
context does not fit at 8, 9, 24 and 25 GiB (RecommendedMayNotFit), because the headroom
is kept twice (memory.rs:13-14; HeadroomIsKeptTwice). An affirmative token that was not
observed scores 0.0, against rerank.rs:49-50 "never as zero" (UnobservedIsNothing).
`ToolChoice::Required` is Auto (RequiredIsOptional). `dark tune` never measures;
`dark update` calls any other tag "available"; `smaller_quants_on_disk` is always empty,
so the ladder's quantisation rung is not used; `run_exclusively` and
`disable_paged_attention` of determinism.rs are never read.

**Turn and context.** `Allow::Always` is treated as Once (policy/mod.rs:179). A block
whose value does not begin with a brace or a quote swallows what follows it
(toolcall/stream.rs:200-205, 272-283); a thought opened at the very end is not reported
unclosed (think.rs:235). `evict_lexicon_chunks` skips a large chunk and keeps later
ones, against tail.rs:140 "only ever drops from the back" (LargeChunkIsPassedOver). A
fold of one message saves nothing and is selected again (FoldOfOneSavesNothing); a fold
can part a result from its call. Of the context functions only `assemble_prefix` has a
caller.

**Tools.** A file whose last line has no newline can be patched only by a hunk that
reaches it (apply_patch.rs:304-314; BareFilesTakeTheLastHunkOnly). A hunk that declares
too few lines loses the rest, and every later hunk of its file, against
apply_patch.rs:3-4 (MiscountLosesLaterHunks). A result of one empty line is written as an
empty file (OneEmptyLineIsLost); a line of prose that begins like a header is taken for
one (ProseIsPassedOver). Overlapping matches count once, against "must match exactly
once" (edit_file.rs:115; OverlapsCountOnce). A working directory that climbs above the
root is refused even when it comes back (ClimbIsRefused), while `grep` accepts absolute
and climbing paths that the other tools refuse (GrepTakesMorePaths). `glob` fails on a
directory it cannot read, `grep` goes on (OneBadEntryFailsGlob).

**Instruction files.** An override drops the entries of unrelated sibling directories,
against explain.rs:144 "in this directory's ancestry" (OverrideReachesSiblings). A cut
file and its note may not fit the budget (NoteMayNotFit). A file that cannot be read in
the middle of a turn loses the additions found before it (resolve.rs:170-186).

**Configuration.** Two known keys with one environment name: only the first is set
(VariableReachesOneKey). A leaf set by any layer hides the table below it, even from a
flag, against value.rs:69 (LeafHidesTheTable).

**Views.** The wrapping loop does not end for a line-start piece of one space and a word
at least as wide as the view, nor for a two-column character in a view of one, against
wrap.rs:77 (WrapMayNotEnd). Escape sequences with a question mark leave their digits,
against transcript.rs:262 "consumed and dropped" (PrivateSequencesShow). Changed lines
that begin with dashes or pluses are shown as file headers (DashesLookLikeAHeader). Keys
that answer nothing fall through to the command bar while a prompt waits, against
keys.rs:46-48 (PromptLetsKeysThrough). The deepest ring shares its radius with the fog
(FogSharesTheLastRing). Playback advances only when no input arrives (InputHoldsPlayback).
The labels of the function keys are drawn one after the other and their zones are equal
slots, against render.rs:348 "evenly spaced across the width": at every width some label
lies over another key, and a click on "9Menu" can quit (LabelsMissTheirZones). The help
or the menu hides a prompt, which a key still answers, and during a turn `Esc`, which the
help's own footer names to close it, cancels the turn (CoveredPromptIsAnswered). A token
that arrives after its turn's end replaces the turn's final rate (LateTokenUndoesTheRate).
A load that never reports its end would hide what is typed (StoppedLoadHidesTyping); the
program sends no such event today. A dark mode switched back half-way jumps to the end it
was leaving (FadeStartsAtItsEnd). Two slashes in a quoted string begin a comment, and an
indented fence is text (SlashesInStringsAreComments, FenceTakesTheRest).

**Repository analysis.** Bridges and seams: a bridge is reported in the search's
direction, against structure.rs:25 (BridgesFaceTheSearch); self-imports count once inside
and twice in a degree, against community.rs:72-73 (SelfImportsAreHalfCounted); the
reported `cochange` is relative, against document.rs:32-35, 311 "raw co-change coupling"
(CochangeIsRelative); a bounding seam counts though it leads nowhere, against
blast.rs:114 (SeamMayStopNothing); references between files no import joins score nothing
(SeamNeedsAnImport); a moved file's history is lost (MovedFileStartsAgain). Walking and
caching: only a file's size is compared, against walk.rs:54 (OnlySizeIsWatched); the
source is read again after it is hashed (SourceIsReadAgain); a cached parse keeps the path
of the last file with its content (WarmCacheKeepsOldPaths). Scopes: a foreign crate is
looked up in a directory of its name, against "never produces a wrong one"
(systems.rs:120-125), and some forms of import miss (SomeImportsMiss). Style: deep lines
vote on the unit, against style.rs:404-406 (DeepLinesVoteToo); one capital is
SCREAMING_SNAKE (OneCapitalScreams); nested tests count as alongside
(NestedTestsAreAlongside). Reports: `cached_report` falls back to another tree's report,
against explore.rs:224 (OldReportIsGivenOut); a torn one fails `produce_report` and hides
other trees' (TornReportBlocksOthers); the notes of `extend` are called current by the
report that was handed out, not by the tree (NotesSettleInThree); the model's failure is
passed over against extend.rs:46-47. The document: files nothing uses rank above those
that use others, and the order of two depends on third files, against document.rs:163-170
(RankingDependsOnTheRest); a trailing remark of the definition before counts as
documentation, against doc.rs:1-2 (DocTakesWhatIsNot). Narration: a stream that breaks off
is accepted (BrokenStreamIsAccepted); a figure is passed when a longer one contains it
(PartOfAFigurePasses); citing a field whose name has an underscore, as the prompt asks, is
flagged, and a figure with a percent sign is never looked at (CitationsAreFlagged). A
person's doc-sources.toml hides the built-in table (OwnTableHidesTheBuiltin).

**Documentation packs.** Sources: lowercase `license` is never tried, against
licence.rs:18-19 (LicenceIsTakenByName); four kinds of source are refused for want of a
licence nothing can give (FourKindsAreRefused); two items of one path become one document,
against docsrs.rs:20 (NamesakesAreDropped); an operation's request body is left out,
against openapi.rs:7 (RequestIsLeftOut); the headings of a man page are the chunker's
only (ManPageHidesHeadings); two documents of one title have the same chunks
(SameTitleSameChunk); a heading without ASCII letters gives its chunks no address
(AnchorMayBeNone); code in HTML loses its indentation (CodeLosesItsIndent). The dense tier
is written empty and never used (OwnVectorsAreNeverUsed). Chunks: small ones are merged in
reverse, against algorithm.rs:292 (MergesReverse); the pieces of an identifier are not
stemmed (PiecesAreNotStemmed); a document's preamble hides its sections
(PreambleHidesTheRest). Packs: export seals a half-written pack, which is then imported
and served, against hash.rs:146 (ExportSealsATornPack); a stopped import's directory is
listed, and stops `reindex --all`, against cli.rs:562 (StagingIsListed); robots.txt is
fetched without the limiter (RobotsIsNotPaced), and an agent's second group is ignored
(SecondGroupIsIgnored); a heading that is not closed loses text (OpenHeadingSwallows).

**Other agents, records and telemetry.** An agent's permission requests never reach the
person, for they are judged as reads (EveryAskIsARead, WholeAskWouldBeJudged), against
dark-acp session.rs:40-41; no known agent starts in dark mode, against discover.rs:24-25
(DarkStartsNoKnownAgent); a lagging display, or a transcript that cannot be written, leaves
a hole in the reply (LaggedReplyHasAHole). Interactive sessions open no transcript, so
`session resume` cannot find them. The append after a torn line joins it, and the file is
unreadable from the next record, against writer.rs "drops that line rather than failing
the whole read" (AppendingSealsATornLine); a load that ends between turns is counted
nowhere (LoadCountsWhereItEnds). The recorder is on no bus. In the scripted engine a
cancellation after the end yields a second one (StreamEndsOnce).


## Abstractions

- Cartograph: one map. Names, questions and wording are left out; a resolution keeps
  who wrote it. Ordinals are left out. A rebuild's removal of the file and the
  reopening are one step; a session that had it open keeps writing to the deleted
  file (`stale`). `set_progress` writes a column no tool reads and is left out. A torn
  journal line is not modelled here (its twins are, in Charting and Telemetry).
- ResidentSet: bytes in small units; the deque is the order it lists. Measured sizes
  are a constant set.
- Engine: what a model says is whether a response ends the stream; reading weights
  succeeds or fails. Models are registered and never unregistered, as in the code.
- TurnLoop: a call is its position in the round, and its kind stands for name and
  arguments. Time is ticks. An engine that reports calls itself honours
  `ToolChoice::None`. A preview has no timeout in the code and is assumed to return.
- FileTools: one call at a time, as the turn loop runs them. A file is a line of text at
  each of a few places, a hunk a change at one; a content and its hash are one.
- Commands: a line is one of a count, so output is what was written and how much of it
  was answered. A tick passes only when nothing that is due waits to be seen.
- Shell: two hops of the intent channel are one queue; an event is on the screen at
  once; a prefix that fails to assemble is a first round that fails; commands that only
  print, and `update`, are left out. An agent's turns open no prompt: what it asks is
  allowed before it reaches the person (`EveryAskIsARead`).
- Recording: the turn is the events it sends; events the rebuild skips are left out.
- Charting: what a stage computes is the run that computed it and the run it read from,
  plus whether it is empty where the pipeline branches on it. Map identifiers are in
  order of creation, as ULIDs are. What the gate and the stages decide is ChartStages';
  what `write_map` does is Cartograph's.
- Wiring: which cycle is broken and which implied edge goes first is left open, where
  the code has a fixed order: every order is checked.
- Algorithms: text as units of a small alphabet; hashes as the thing hashed; paths as
  sequences of names; floating-point scores as integers or fractions where order is all
  that matters.


## Not modelled

| part | why |
|---|---|
| dark-airlock | a predicate on one address in front of an HTTP client: without state or order, and a model would repeat it. Its checks of Git remotes and of child processes have no caller |
| tree-sitter grammars and queries (dark-explore `extract/lang`, `syntax`) | tables of node names for external parsers; what is made of the nodes is in Survey and Seams |
| BM25 scores, embeddings, sampling and determinism flags, `tune`'s search | numerics of floating point, or switches handed to mistral.rs; the fusion and the thresholds are in Lexicon and Preparation |
| mistral.rs, rusqlite, reqwest, tokio, libgit2 | libraries; what the code relies on is in the actions that call them |
| drawing: the cells of the fog map, themes, charts of `stats` | a picture of state that is modelled, with no effect on it |
| reading TOML, JSON, YAML, XML and Rust doc JSON; argument parsing; help and printing | conversions by libraries or of layout |
| hashing, ULIDs, clocks | taken as injective, ordered and monotone |
| SQL text and the layout of reports | MapViews has what each selects and cuts |
| `work` as a command, `docs_get`, `docs_resolve`, `run_exclusively`, `config_block::extract` | no caller in the program; the rules of `work` are in ChartStages |
| xtask, build scripts, tests, `dark-engine-fake`'s TOML and its hashed embeddings | checks and doubles of the program, not the program |


## Plan

What remains is proof.

1. In Cartograph, the journal's torn line.
