# A TLA+ model of learn-codex

learn-codex rebuilds a coding agent's harness in fifteen chapters (`src/s01_...` to `src/s15_...`), each one
`code.py`. Chapter 15 composes the others: it imports s05, s07, s09 to s14 and adds the kernel. This project models
what these chapters decide and keep: the kernel, the earlier loops it grew from, the patch engine, the terminal
sessions, the rollout file, the MCP connections, and the libraries that judge, tell and forget (policy, hooks,
instructions, compaction). TLC checks them on small instances; TLAPS proves what is claimed of the kernel for all
instances, but for liveness, the central invariants of the patch engine, the terminal sessions, the
rollout file, the MCP connections, the world state, the tool registry, the approvals, the hooks and the exec policy, and
that both kernels, of s15 and of s02, implement one abstract specification.

Contents: [inventory](#inventory), [modules](#modules), [runs and bounds](#runs-and-bounds),
[fairness](#fairness), [proofs](#proofs), [findings](#findings), [what is not modelled](#what-is-not-modelled),
[plan](#plan).

## Inventory

| Part | State | Operations | What is hard | What makes it correct |
|---|---|---|---|---|
| **s15 kernel** `Session`, `CodexThread`, `render_human` | submission queue, event stream, `active` task, `pending_input`, `pending_approvals`, `approved_commands`, `history`, `turn_diffs` | ops UserTurn, ExecApproval, Compact, Interrupt, Shutdown; `run_turn`, `_dispatch`, `_ask`; the frontend's reading and answering | a turn runs beside the loop that feeds it; cancellation at any await; steering in the middle of a turn; an exception at each step | one turn at a time, consent before anything leaves the sandbox, no message lost, repeated or reordered, one ending per turn, a loop that always comes back |
| s01 agent loop | history | one loop around the model | a response ends, a tool fails, the program dies in the middle | every call answered before the next request |
| s02 protocol | submission queue, `active`, `pending_input` | ops and events; steering, interrupt, shutdown | a correction arrives while a turn ends | the same steering that the kernel promises |
| s03 turn context | `WorldState.last`, the session's settings | `updates`, overrides per turn | what was told is remembered apart from the history it was told in; a section may fail to render | the model knows the current settings, and is not told twice |
| s04 tool registry | a table, the plan | register, build a call, dispatch, truncate | calls that cannot be read beside good ones | one answer for each call, of its kind |
| **s05 apply_patch** | the disk | parse, `seek_sequence`, `_apply_chunks`, two passes over the files | a loose search; several files; failing operations; other writers between check and write | a refused patch writes nothing, an applied one does all it says |
| **s06 unified exec** `ProcessManager` | sessions, ptys, bounded buffers | `exec_command`, `write_stdin`, `_result`, `close_all` | the program writes, closes its terminal and exits while it is read | every character accounted for once, ids valid exactly while the session is open |
| s07 sandbox | none | builds an argument list and a profile, or hands the command back bare where it knows no sandbox | the operating system's | confined only where seatbelt is (`Seatbelt`); its verdict is a choice in the kernel's model |
| s08 approval | queue, turns, `pending_approvals`, `approved_commands` | assess, ask, escalate, remember | several turns at once through one table of questions | nothing leaves the sandbox but on the user's word about it |
| s09 exec policy | rules, which consents extend | split a command, match, take the strictest, amend | shell syntax, overlapping rules, paths and names | the strictest rule of all segments decides; a consent loosens its own command |
| **s10 rollout** | one append-only file per session | append, read, `resume`, `fork`, `head_summary` | a process that ends inside a write; failing writes; readers of a file that is being written | what was appended is read back, replay is the history, a fork is a prefix |
| s11 compaction | history | `request_summary`, `build_compacted_history` | a token budget, repeated compactions | the newest user messages and one summary survive |
| s12 instructions | none after start-up | find the root, read files, concatenate | which directories are the project's; overrides that are blank | the project's notes, outermost first, and nobody else's |
| **s13 MCP** | clients (process, id counter, lock), tools, start-up report | `start_all`, `_start_one`, `call`, `close_all` | OS threads; servers that are slow, silent, chatty or gone; answers to requests that were given up | an answer is one's own, every server is reported, no process is left |
| s14 hooks | configuration | load, match, run in order, combine the answers | crashing and hanging programs, contradictory answers | a denial stops, whatever follows; nothing else does |

How they interact. A client puts submissions into a queue; one consumer (`_submission_loop`) handles them and starts a
turn as a task of the same event loop. The turn reads `pending_input` at every step boundary, streams the model's
answer, and dispatches its calls: hooks (s14), then the exec policy (s09), then a question to the user through the
event stream, whose answer comes back through the queue; then the sandbox (s07), the patch engine (s05) or an MCP
server (s13), in threads where they block. Every item is appended to the rollout file (s10); a compaction (s11)
rewrites the history in memory, which begins with what s12 found. s06 is not wired into s15 and stands alone.
s01 to s04 and s08 each have a loop and a session class of their own, from which the kernel of s15 grew; they are
programs in their own right (`python code.py`), and differ from the kernel where it matters: see the findings.

## Modules

| Module | What it is |
|---|---|
| `Steering` | abstract: a message is accepted, then said once or refused, while at most one turn is open |
| `Harness` | the kernel: loop, turn, approvals, frontend |
| `HarnessProperties`, `MCHarness` | its properties and instances |
| `HarnessProofs` | theorems about it: one turn, its approvals, consent; the refinement of `Steering`, the events, order, requests and public lines |
| `JsonWriter` (EXTENDS `Harness`) | `ThreadEventWriter`: the event stream as the lines of `codex exec --json` |
| `Protocol` | the kernel of s02, another implementation of `Steering` |
| `Approval` | the loop, turns and approvals of s08 |
| `AgentLoop` | the loop of s01: request, stream, calls, answers |
| `WorldState` (EXTENDS `AgentLoop`) | the loop with the settings of s03 and what is told of them |
| `Registry` | s04: the calls a response may hold, and their answers |
| `Selection`, `SequenceLemmas` | the elements of a sequence at chosen positions; induction, recursion and what is proved of selections |
| `Compaction` (EXTENDS `Instructions`) | s11's estimates, selection and rebuilt history as functions |
| `Context` (EXTENDS `Compaction`), `ContextProperties` | a session's history from its start through turns and compactions |
| `Chapters` (EXTENDS `WorldState`), `MCChapters` | s02, s03, s04, s08 and s11, one per behaviour; small instances of them |
| `ChapterProofs` | theorems about s02, s03, s04 and s08 |
| `ExecPolicy` | s09: rules, views, segments, verdict, and a policy that is amended |
| `Hooks` | s14: loading, matching, one hook after another, the turn that fires them |
| `Instructions`, `Notes` | s12: what is found in a tree of files; a tree that somebody rearranges |
| `Chunks`, `ChunksProperties` | `seek_sequence` and `_apply_chunks` as functions, against a declarative reference |
| `Libraries` (EXTENDS `ChunksProperties`), `MCLibraries` | s05's chunks, s09, s12 and s14, one per behaviour; small instances of them |
| `LibraryProofs` | theorems about s05's chunks, s09 and s14 |
| `Patch` (EXTENDS `Chunks`), `PatchProperties`, `MCPatch`, `PatchProofs` | the two passes of `apply_patch`, failing operations, other writers |
| `HeadTail` | the bounded output buffer as a data structure |
| `UnifiedExec` (EXTENDS `HeadTail`), `ExecProperties`, `MCExec`, `ExecProofs` | the process manager and the programs it runs |
| `RolloutFile` | a rollout file as its readers find it: read, replay, fork as functions |
| `Rollout` (EXTENDS `RolloutFile`), `RolloutProperties`, `MCRollout`, `RolloutProofs` | a session that appends to it, and may end anywhere |
| `Mcp`, `McpProperties`, `MCMcp`, `McpProofs` | MCP clients, their threads, and the servers |

**Harness.** All coroutines share one asyncio loop, so an action is the code between two awaits: `Loop...` are the
branches of `_submission_loop`, `Turn...`, `Stream...`, `Dispatch...`, `Exec...` and `Decided` the stretches of
`run_turn` and what it calls, `Render` and `AnswerApproval` the frontend. The phase `dispatch` stands for the code
between two calls of one response: nothing else runs there (`LoopFree`). `cancelled` holds the tasks whose `cancel()`
has been called and that have not run since. The event stream is kept as a log, because the properties speak of what
a frontend has seen. Messages and calls are identities; texts, token counts and the plan are left out. A hook allows,
asks, refuses or raises; a command runs, is blocked or fails; compaction may be due at any boundary. Every append to the
rollout may raise (`AppendFails`), which is after the item is in history: before the `try` the task dies, inside it the
handler adds an `ErrorEvent`, also to a `TaskComplete` that was told already, and inside the handler of a cancellation
nothing more is told. `torn` and `lost` are history variables that name the turns and messages it spoils. What a turn
asks for and says (`Sandboxed`) is kept apart from what the command gets (`Confined`): s07 confines nothing where
`Seatbelt` is false; `bare` holds the calls whose command ran in no sandbox.

**JsonWriter.** The writer only reads events, so what it has printed is a fold over the log of `Harness`.

**Protocol, Approval.** The actions are named and cut as in `Harness`. `Protocol` says with `Thread == INSTANCE
Steering` what steering means for it. In `Approval` each UserTurn starts a task at once, so two turns share the
question table, the set of remembered commands and the one `active` that an interrupt reaches.

**AgentLoop, WorldState, Registry.** One action per stretch between two things the program does not decide: the
model's next item, the end of its response, a command's outcome. `RunTurn` renders the sections one after the other,
so a section that raises (`RunTurnRaises`) leaves the earlier ones told. `Registry` is parameterised by the calls a
model may write: unknown tool, unreadable arguments, arguments that are no object, wrong plans.

**Compaction, Context.** A text is an identity, a size in characters, and where it looks like a block: cutting it may
change that. A compaction is a function of the history; `Context` applies it before a request and beside a turn.

**ExecPolicy, Hooks, Instructions.** A command line is a sequence of tokens and operators. A policy's verdict is a
function of it, compared with a declarative reference; actions type a token, open a quote, and add a rule. A hook's program
may answer anything a hook may print, crash or hang; the matcher is the set of tools it matches. `Instructions` is a
function of the tree of files, and `Notes` changes the tree.

**Chunks** and **Patch.** A line is its stripped text and whether it has white space at either end, which is what the
three comparisons of `seek_sequence` tell apart. `Patch` has one action per file operation of the two passes. Other
processes may write between any two, and an operation may fail; `touched` remembers where.

**UnifiedExec.** A program's output is the sequence of its positions, so a lost or repeated character shows. The
program can write, start a job that keeps the terminal, leave, and exit between any two steps of `read_available` and
`_result`. Every wait with a deadline may end at any moment.

**Rollout.** A file is a sequence of tokens: whole lines, ends of lines, and what an interrupted write left. Two
neighbours without an end between them are one row, which does not parse. Each append is visible in the middle; it may
fail, and the process may end. The session is `run_turn` reduced to what it records, in the order in which it does.
Readers change nothing, so reading, resuming and forking are functions of the file, and the properties apply them in
every state.

**Mcp.** OS threads: an action is what one does between two points where another can change what it looked at, e.g.
`process is None` and `process.poll()` in `Enter`. Whether a deadline has passed is a choice, made only where the code
looks. The write of a call may fill the pipe and then waits, with the client's lock, for the server to read
(`write`, `Written`); closing the client waits for it (`HangUp`). A line of the pipe carries the request it answers, which the client cannot see. Servers answer late, in any
order or never, write other things, and end.

## Runs and bounds

| Run | Question | Bounds, and why they are enough |
|---|---|---|
| `harness_safety` | the kernel's safety, and that it implements `Steering` | 3 submissions, 2 calls, 4 of both together (`MaxWork`): a prompt, its correction and an interrupt around an escalation; two prompts with an approval for the session used by the second; 611,000 states. `Seatbelt` is true: with false `UnsandboxedOnlyByConsent` is violated, see Findings |
| `harness_live` | every started turn ends, every correction is said, every submission is handled | 2 submissions (a prompt and its correction, or an interrupt), 1 call; policy `never`, because the property is about the waits, and hooks can still ask |
| `harness_deadloop` | *violation*: with `/compact` the loop itself waits, and may die | 2 submissions, 1 call |
| `libraries` | chunks: what `_apply_chunks` returns is a sequence of ordered replacements, an exactly fitting patch applies; policy: the verdict is the strictest, a consent loosens its own command only; notes: the project's; hooks: only a denial or question stops a call | files of up to 3 lines, patches of up to 2 chunks (the cursor matters from the second on); lines of 3 tokens with operators, 3 policies that disagree and 5 that are refused, 4 rules; 2 directories with the marker in either, both or none, files that are absent, blank, undecodable or say one of two things, so that their order shows; 4 hook files, two hooks for one event |
| `patch` | refused, applied and raised patches, with interference and failure | 3 files, 2 hunks: two hunks and a file neither names |
| `patch_allornothing` | *violation*: two hunks about one file | 2 files, 2 hunks |
| `exec` | replies account for every character; ids and sessions agree | 2 sessions, budget 4, 5 characters: one more than the budget, so that both halves fill and drop |
| `rollout` | reading, replay, forks after any end or failure | 2 turns, 9 items and events, 1 failed append, 1 compaction: one turn with a call, its output and its end takes 7, the next turn's start 2 |
| `mcp` | own answers, reports, no process left | 2 servers, 2 calls, 1 extra line, own ids {3} (a call's id): two calls share a server, or one server is late while the other works; 626,000 states |
| `mcp_live` | `start_all` comes to an end; `close_all` and calls do if servers read, and answer | 1 server, 2 calls that share it |
| `chapters` | s03: the model knows its context; s04: each call answered once; s08: nothing unsandboxed without consent; s02: it implements `Steering`; s11: what compactions keep | 3 turns and 7 items, 2 directories, 2 dates, a mode that does not render; responses of up to 5 items with each kind of wrong call; 2 turns and 2 calls of one command, 2 queued submissions; 4 submissions; 3 user messages around a budget of 3 tokens, any number of compactions |
| `compaction_prefix` | *violation*: the first compaction drops what the session began with | as `chapters` |

`libraries` and `chapters` are each several small models in one run: the initial state chooses which of them a
behaviour runs, and the variables of the others keep their first values. They do not interact; the run only saves
starting TLC for each.

Symmetry is used over file names in `patch` and over servers and calls in `mcp` (safety only). All runs set
`CHECK_DEADLOCK FALSE`: a session may be shut down, a patch is applied once, and the bounds end every other behaviour.

Every property of a passing run has a mutant, a definition `X_Something` before `X`: the change a plausible bug would
make, under which TLC finds the property violated.

What the passing runs show, in the order of the hazards:

- *Kernel.* `OneTurnAtATime`: the loop never starts a second turn, also while the first is created, or cancelled and
  not over. `ApprovalsMatchAsks`: on every way out of a question its future leaves `pending_approvals`.
  `UnsandboxedOnlyByConsent`: where there is a sandbox, what runs outside it was agreed to, now or for the session.
  `TurnStory`: a turn's events end with one ending (a refused prompt has two, and a turn killed by its prompt hook
  none), whatever appends to the rollout fail, but for the three that it names.
  `CompletionStrandsNothing`, `SaidInOrder`, `ImplementsSteering`: messages typed during a turn are said once, in
  order; each names its exceptions. `CorrectionsAreSaid`: and they are said, also one typed while the turn waits for
  its own compaction, after which nobody looks before the request goes out: the turn looks before it completes, and goes
  round again. `ItemsComplete`: in the lines of
  `codex exec --json` every item has one start and one end, but that of a blocked command somebody was asked about.
  `RequestsPaired`: a request never holds half an exchange unless a turn ended badly or /compact rewrote the history.
- *Patches.* `EditsInOrder`, `ExactPatchApplies`, `RefusedLeavesDisk`, `AppliedInFull`, `RaisesOnlyOnConflict`.
- *Terminals.* `RepliesAccount`, `HandlesAgree`.
- *Rollout.* `AppendedLinesAreRead`: a failed append costs at most itself and the next line. `ReplayIsHistory`.
  `CompleteTurnsReplayWhole`: a turn that says it is complete replays with every call answered, also after failed
  appends and in forks. `ForksKeepFirstTurns`.
- *MCP.* `AnswersAreTheirs`, `StartupReported`, `NothingLeftRunning`, `MainComesBack`, `CallsEnd`.
- *Policy and hooks.* `VerdictIsStrictest`: a line's verdict is the strictest among the longest rules of any view of
  any segment, whatever the order of rules. `AmendmentLoosensItsOwn`: a rule written back after a consent changes the
  verdict of no single command that does not begin with the words consented to. `OnlyUnopposedCallsRun`: a call runs only
  if no hook asked denied it, whatever later hooks say, crash or do not answer. `ContextArrivesBounded`: what hooks
  add arrives once, in order, cut to its limit.
- *What the model is told.* `NotesAreTheProjects`: a file above the project's root, or behind an override, changes
  nothing; where no marker is found only the working directory counts; the personal file comes first, and the notes of
  the nearest directory that has any come last. `ModelKnowsContext`: while a turn runs, the last thing told of each section is
  what holds for the turn, and nothing is told twice in a row. `KeepsNewestRequests`, `CompactionUsesItsBudget`,
  `LeadingBlocksSurvive`: after any number of compactions.
- *The chapters' loops.* `EveryCallAnswered` (s04), `ConsentIsTheUsers` (s08), `ThreadSteers` (s02, the refinement).

## Fairness

- `Harness!LiveSpec`: weak fairness of the loop, of each turn, of the renderer and of the user's answer. asyncio runs
  every ready coroutine; the model, the commands, the MCP servers and the summaries are taken to end; the user answers
  what is asked. Nothing is assumed of the client: it need not submit anything, interrupts included. The run allows no
  `/compact`, with which the property is false (`harness_deadloop`).
- `Mcp!FairSpec`: weak fairness of the main thread and of every thread. `join` and `wait` have timeouts, so `Join` and
  `Close` are always possible some time. Nothing is assumed of servers. `HangUp` has no timeout, and waits for a call
  that is writing: that `close_all` returns therefore has the antecedent `ServersRead` (weak fairness of `Written`),
  without which TLC violates it. `CallsEnd` has it too, and weak fairness of `Answer(s)`, because a silent server does
  block its caller (see Findings). Locks are handed out in some
  order; with two calls nobody can be overtaken for ever.

All other runs are of safety.

## Proofs

TLAPS proves, for every value of the constants that satisfies the named assumptions:

| Module | Theorem | Says |
|---|---|---|
| `HarnessProofs` | `TypeCorrect` | `Spec => []TypeOK` |
| | `OneTurn` | `Spec => []OneTurnAtATime` |
| | `ApprovalsMatch` | `Spec => []ApprovalsMatchAsks` |
| | `Consent` | `Seatbelt => (Spec => []UnsandboxedOnlyByConsent)` |
| | `SteeringImplemented` | `Spec => ImplementsSteering` |
| | `TurnsTellTheirStory` | `Spec => []TurnStory` |
| | `NothingStranded` | `Spec => []CompletionStrandsNothing` |
| | `MessagesInOrder` | `Spec => []SaidInOrder` |
| | `PairedRequests` | `Spec => RequestsPaired` |
| | `ItemsAreCompleted` | `Spec => []ItemsComplete` |
| `ChapterProofs` | `ThreadRefines` | `ChaptersSpec => ThreadSteers` (s02) |
| | `AlwaysConsent` | `ChaptersSpec => []ConsentIsTheUsers` (s08) |
| | `ContextKnown` | `Spec => []ModelKnowsContext` (s03) |
| | `AlwaysAnswered` | `ChaptersSpec => []EveryCallAnswered` (s04) |
| `PatchProofs` | `TypeCorrect` | `Spec => []TypeOK` |
| | `Refusal`, `Applied`, `Raises` | `RefusedLeavesDisk`, `AppliedInFull`, `RaisesOnlyOnConflict` |
| `McpProofs` | `TypeCorrect` | `Spec => []TypeOK` |
| | `OwnAnswers` | `Spec => []AnswersAreTheirs` |
| | `AllReported`, `AllEnded` | `StartupReported`, `NothingLeftRunning` |
| `ExecProofs` | `HandlesAlwaysAgree` | `Spec => []HandlesAgree` |
| | `AllAccounted` | `Spec => []RepliesAccount` |
| `RolloutProofs` | `Durable` | `Spec => []AppendedLinesAreRead` |
| | `HistoryReplayed` | `Spec => []ReplayIsHistory` |
| | `CompleteTurnsReplayed` | `Spec => []CompleteTurnsReplayWhole` |
| | `FirstTurnsForked` | `Spec => []ForksKeepFirstTurns` |
| `LibraryProofs` | `AlwaysApplies` | `LibrariesSpec => []ExactPatchApplies` (s05) |
| | `StrictestVerdict` | `LibrariesSpec => []VerdictIsStrictest` (s09) |
| | `AmendmentLoosens` | `LibrariesSpec => AmendmentLoosensItsOwn` (s09) |
| | `AlwaysUnopposed` | `LibrariesSpec => []OnlyUnopposedCallsRun` (s14) |

Each of these modules also has a theorem for its inductive invariant (`Inductive`, `ConsentInductive`,
`SteeringInductive`, `StoryInductive`, `ItemsInductive`, `EndInductive`, `ExecInductive`, `OutputInductive`, `RolloutInductive`,
`SessionInductive`, `ApprovalInductive`, `RegistryInductive`, `WorldInductive`, `HooksInductive`), with one lemma per action
(or group) beneath.

*Harness.* `TypeOK` is not inductive by itself: the actions take `Head(todo[t])`, so `CallInHand` is added (a turn in
a calling phase has a call). `OneTurnAtATime` needs the stronger `LiveIsActive`: whatever is alive *is* `active`; it
holds because a turn is only created when `TurnRunning` is false, which with `LiveIsActive` means that nothing is
alive. `ApprovalsMatchAsks` then needs that only one turn can be parked, which `LiveIsActive` gives.
Assumptions: `BoundsAssumption` (the bounds are naturals), `ConfigAssumption` (types of the configuration).

*Consent.* The property reads what the user answered; the code never does: it reads futures, queued operations and
`approved_commands`. So `UsersWord` says that these three hold what was answered. For that to stay true an answer must
never change, which is the harder half: each call is asked about at most once (`CallsOnce`: the calls in hand are the
working turn's and all different; `AskedOnce`: the stream has one question for each), and a question that is shown or not
yet read has no answer (`Unanswered`). `RunsConsented` is then kept by every step that starts a command. The theorem supposes
`Seatbelt`: elsewhere it is false of the code.

*Steering.* The mapping takes `said` for the conversation, the pending messages and the turn that has not begun for
what waits, ended turns whose message was never said for what is refused. A step maps to `Accept`, `Say`, `Close`,
`Refuse`, `Break` (the turn dies in the middle of the messages it has drained) or a stutter. `Say` demands that each message is new, and is said once; so the invariant says that a message is
in one place only and once: in the queue (`Numbered`), among the pending ones (`Queued`), or with a turn of its own,
which has said it exactly if it has begun (`Placed`). With `LiveIsActive` the one turn that may be waiting to begin is the
open one. The same argument serves s02 (assumption: `MaxSubs` is a natural); the kernel of s15 adds prompts refused by a
hook (`Refuse` without a cancellation), compactions, and the phases of a call, of which `Steering` sees nothing.

*Events, order and requests.* `StoryInv` is one invariant for five claims, over two kinds of steps. What a step of a
turn does to the stream, the queue and history is one of five things (`Tells`: it goes on, starts, stops short, concludes, or
is torn), and what it does to calls one of five (`Handles`); every other step tells the stream nothing of a turn that
has begun, and at most gives a message, the newest so far, to the queue or to a new turn (`Hears`). So the claims are
proved over a few shapes instead of the actions one by one. They need that numbers only grow
(`Numbering`: what is queued is newer than all that was received), and that no event bears the id of a message to come
(`Apart`). Then:

- `TurnStory` is preserved because an ending is only emitted together with the end of the task, or, where an append
  fails, the turn joins `torn` with the end of the task.
- `CompletionStrandsNothing` needs `Completes`: only a turn that is over has a TaskComplete in the stream. So a turn
  that ends without emitting one has ended badly, one that emits it sees an empty queue and no call in hand
  (`AddsEnding`), and a bad ending stays one (`BadForever`).
- `SaidInOrder` needs `InOrder`: whatever waits is newer than all that was said, and older than the prompt of a turn
  that has not begun only if an older turn ended badly.
- `RequestsPaired` needs `InHand`: the calls of history without an output are exactly those the working turn has still
  in hand, unless history is excused, which it then stays. A request is opened when none is left.

*Public lines.* The writer is a fold over the stream and keeps two things of its own: the next number, and the item that
is open for each call. `ItemInv` relates these to the turns: while a command runs, the item of its call is the one that
was started last and is not completed (`Tracks`), and every other item has completed, was asked about, or is of a turn
that is over (`Balance`). The end of a command therefore closes the item that its beginning opened, never one of its own
making, and the turn that completes, which runs nothing then, has no item left (`Completed`). It is shown event by event
(`KeptOpening`, `KeptClosing`, `KeptAsking`, `KeptCompletion`, `KeptAside`), and a step that tells several is a chain of
these. That no two turns run at once (`LiveIsActive`) is what makes one open item enough.

*Patch.* The inductive invariant says that pass 1 has only read (`FirstPassOnlyReads`), that each change computed is
what its hunk makes of the file as it was, unless somebody touched it (`ChangesForeseen`), and that pass 2 has written
a prefix of the changes and nothing else (`SecondPassInOrder`). Assumptions: `FilesAssumption` (edits lead from files
to files; checked by TLC for the instance), `MaxHunksAssumption`, `BlankAssumption`.

*Mcp.* `Progress` ties a thread's phase to the number of answers it has. `Traced` says that an id on the wire or in a
server's inbox is below the client's next one and belongs to one request, and that a thread that writes or reads holds the lock
and waits for the id of its own n-th request; so a line with that id, if it answers anything, answers that request.
For the other two properties `EndInv` has `Reported` (who has been joined is over or given up, and who is over was
reported or raised) and `Accounted` (only servers that were ready are closed, and what `close_all` has closed and has
yet to close is what its loop began with, which `Cardinality` and the size remembered say), so that a loop that comes to
its end has missed none.
Assumptions: `ThreadsAssumption`, `BoundAssumption`.

*UnifiedExec.* `HandlesAgree` speaks of the sessions between calls, so the invariant says what holds of the one a call
is working on (`CallOpen`): it is open, was never reported as over, and its process is reaped once the exit has been
seen, which is what the last reply will say. That an id is never given twice (`Fresh`) makes a new session's silence
true. No decision of the manager reads the buffers, so `ExecInv` leaves them out. `RepliesAccount` is about them:
`OutputInv` adds that the buffer of the session a call works on holds what was read since the last reply (`Holds`):
the positions from there on, all of them, or a beginning that fills the head and an end; between the two lies exactly
what `dropped` counts. The pieces of the tail follow one another without a gap (`Tiles`), which is what makes taking the
oldest off leave an end. Every other buffer is empty, and the totals of its replies add up to what was read.
Assumptions: `BoundsAssumption`, `MaxCharsAssumption`.

*Rollout.* The property is about the rows of the file, the code only appends at its end. `Stored` says that up to the line
being written (`End`) every line in the file was appended and is older than that line; `Alone`
that the file ends with a finished row if the last append returned, and that a line written after such a row, and
ended, has its row for good, because nothing before `End` is ever touched. The twenty actions of the session come down to
one shape (`Moves`: it begins no append, or that of one line, the newest). Assumption: `BoundsAssumption`.
The other three properties compare what readers select from the file with what the session knows, so `SessionInv` says of
whatever was recorded (`Given`: appended, lost, or in hand) that its numbers and turns grow (`Numbered`), that a turn starts
once, before its items, and without failures always (`Begun`), that history is what was recorded (`Remembered`), that
a turn that still goes on well has lost nothing and its calls without output are those in hand (`Balanced`), and that a
turn with a task_complete has therefore lost nothing (`Completed`). An exception of an append is what this
turns on: it takes the turn out of `Working`, and the handler's line is no task_complete. Two selections of numbered
lines that hold the same lines are the same sequence (`OrderedAlike`), so it is enough to compare what they hold; a fork
is a beginning of the file (`ForkIs`).

*WorldState.* The property compares the history with the current turn, but the code compares `last` with it and never
looks at the history. So the invariant `LastIsTold` ties the two: until the program ends, what `last` holds of a section
is what the history last tells of it (or neither says anything). `RunTurn` keeps it because each section appends to
the history exactly when it changes `last`, and an append of one section is no news of the other. It fails after an
exception in the middle of `updates`, which is why the property is about running turns. Assumptions: those of
`WorldState` about its constants.

*Registry.* The property looks at history when no call waits; `BooksKept` says what holds in between: a call of history
is in the response being read or among the calls left (`Waits`), or it has an answer, and never both; an answer is behind
its call, of its kind, and the only one. That a call which cannot be read is answered at once, before the good ones beside
it, does not disturb that, because the books do not ask for an order. The calls left are read from the response by
`Selected`. Assumption: `WritesTyped` (what a model may write has one of the types the code looks at), checked by TLC
for the instance.

*Approval.* Several turns share one table of questions, one set of remembered commands and one `active`. What keeps them
apart is that calls are new when they are made (`CallsApart`): no two turns have a call in common, so the question of one
is never answered for the other, and an answer is given once. `AnswersKept` says that what is queued, waits to be read or
is remembered is what the user answered. An interrupt reaches one turn only, and leaves the questions of the others open
(`OpenIsAwaited`).

*Hooks.* The property compares the fates in the transcript with the answers that were logged, call by call; the code only
keeps one combined outcome per event. `HooksInv` ties them: the outcome says what the answers to the event at hand say
so far (a denial is never undone, a question only by a denial), and every call decided before has the fate its answers
make of it. Assumption: `FilesTyped` (what the files and the plans are made of).

*Chunks.* The search is greedy: each chunk takes the first place, and a place of a stricter comparison before one of a
looser. By induction over the chunks the cursor is never behind the place where the patch would fit as it is written, so that
place is still ahead (`FittingIsFound`). The cursor may lie before it, and the edit may then be made elsewhere: nothing is
claimed of where. Assumption: `PatchesTyped`, with at least one file.

*ExecPolicy.* One more rule changes the best rule of a view only to itself, and only where it matches (`BestGrows`), which
means that the view begins with its words; the decision is that of the first view with a rule, and a view that had one keeps
it or takes the new one (`DecisionKept`). The commands of that property are those of up to `MaxTokens` words, for every
`MaxTokens`. `StrictestVerdict` rests on three inductions over data: `split_segments` cuts a line into exactly its maximal
runs without an operator (`SplitIsRuns`), `decide_tokens` keeps a longest rule and a strictest among those (`BestTops`),
and the fold over the segments keeps the strictest of their verdicts (`WorstIsStrictest`). The invariant, `PolicyKept`,
says that the rules stay well-formed whatever is written back. Assumption: `RuleFilesTyped` (a file is a sequence, and a
pattern one of sets of words).

*Sequences.* The provers cannot instantiate the library's induction theorems, whose hypotheses have operator parameters.
`SequenceLemmas` states induction with a set instead (`Induct`, from the least element of a set of naturals, and that from
`WFMin`, a theorem about relations). `Recursion` concludes that what is defined by recursion exists, and so the equations
that such a definition stands for; what the selections and sums of this project compute for every input follows.

The `TypeOK` are only proved: TLC would add nothing to a proof, and the runs leave them out. Before each proof TLC
checked the inductive invariant on an instance.

Only model-checked, and why:

- Liveness (`TurnsEnd`, `CorrectionsAreSaid`, `OpsKeepBeingHandled`, `MainComesBack`, `CallsEnd`): out of the prover's reach.
- Properties of what a longer recursion over data computes, not proved: `EditsInOrder` (the text of a patched file),
  `ContextArrivesBounded` (what hooks add), `KeepsNewestRequests`, `CompactionUsesItsBudget` and `LeadingBlocksSurvive`
  (rebuilt histories).
- `NotesAreTheProjects`: a statement about trees of files, without steps to argue over; not proved.

## Findings

Where the code does not do what its documentation says. `PROJECT.json` quotes the lines.

Shown by a run:

- `/compact` runs inside the submission loop: the loop waits for a model request and ends with its exception
  (`harness_deadloop`, s15 line 891).
- Two hunks about one file are both checked against the old file; the second overwrites or raises
  (`patch_allornothing`, s05).
- The history of s15 begins with a developer message, so a compaction takes its leading blocks to be none and drops
  the permissions, notes and skills for good (`compaction_prefix`, s15 line 662).

Seen in the model, as the exceptions the properties name:

- s15 on a platform without seatbelt: the command runs bare, nobody is asked, and the stream says "sandboxed"
  (`Confined`, line 734; with `Seatbelt = FALSE` in `Harness_safety.cfg` TLC violates `UnsandboxedOnlyByConsent`).
- s15, appends to the rollout that raise: after `TaskComplete` an `ErrorEvent`; in the handler of a cancellation, or
  before the `try`, no ending; among drained messages, those behind are lost (`torn`, `lost`).
- s15: an interrupted call keeps no output, and the next request is malformed; a declined escalation leaves a command open; a correction typed during an automatic compaction goes out one
  request late; a prompt hook that raises ends a turn without an ending.
- s05: a search for the end of the file may go back before the last chunk. s06: the buffer loses the end when the last
  piece is large; a background program outlives `close`.
- s03: a command that times out ends the program. s04: arguments that are a list are answered with the wrong type.
  s08: an approved command blocks the loop; a second turn runs beside the first.
- s09: a line that cannot be split is asked about although a segment is forbidden; a consent may not be enough to stop
  the question. s14: some outputs make the runner raise, and no frontend shows its warnings.
- s11: a user's text that looks like a block is dropped; the note of an interruption counts as a user's message.
- s10: half a character at the end of a file makes it unreadable; a compaction is not recorded, nor is what the session
  starts with; a fork ends with the context of a turn it does not keep.
- s13: the request timeout cannot fire while a server is silent; only `McpError` is caught, in `_start_one` and `call`;
  a late server is failed and ready at once, and may outlive `close_all`, which it may also break off; a server's own
  request with the same id passes for an answer; `close` waits without limit for a write to a server that does not read.

## What is not modelled

- s07: argument lists and profile texts for the operating system, without state; the verdict is a choice, but for
  whether there is a sandbox at all.
- Answers other than the four that the clients of the repository send: s08 and s15 take every string but `denied` and
  `abort` for an approval.
- Of s01 to s04 and s08: the wire format and authentication, rendering, the texts of sections and schemas,
  `truncate_output`, and the parser that decides whether a command is known to be safe (an attribute of the command).
- Of s05: the parser and the diffs. Of s06: time, wording, and bytes: each read is decoded by itself (line 147), so a
  character split over two reads is damaged, which the model, whose reads are whole characters, does not show. Of s03: a
  caller that catches an exception of `updates()` and goes on (`RunTurnRaises` ends the behaviour, as the program does).
  Of s09: quoting character by character and the
  justifications. Of s10: paths, listing, `head_summary`. Of s11: the text of a summary, an error of its request.
  Of s12: texts and the limit of 32 KiB. Of s13: how tools are listed and searched, and the flattening of names.
  Of s14: regular expressions, the events of subagents.
- Of s15: token counts, start-up, resume and dry run, the threads and processes a cancelled turn leaves behind. In
  `Harness`, a compaction keeps the user messages and drops the rest (what it really keeps is in `Context`), and a
  policy's or hook's verdict is an input (where it comes from is in `ExecPolicy` and `Hooks`).
- The `tests/` and the demos in each chapter.

## Plan

Written, in order of importance: the kernel, s05, s06, s10, s13; then compaction, world state, approvals, protocol and
registry; policy, hooks and instructions. Open:

1. The composition "hook, policy, approval, sandbox" of `_exec_command` from `Hooks`, `ExecPolicy` and `Harness`, with
   `Harness` and `Rollout` taking their compaction from `Compaction`.
2. `parse_patch` of s05 (what it refuses), and the tool names of s13 (`qualified_name` and the way back).
3. Proofs: `EditsInOrder` and the rebuilt histories of s11.
