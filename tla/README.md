# openharness in TLA+

TLA+ models of the stateful parts of openharness (`src/`, Go), model-checked
with TLC on small instances, and their safety properties proved with TLAPS for
every value of the constants. Everything here is translated from the code;
`PROJECT.json` maps each definition to the lines it stands for.

Contents: [the system](#the-system), [the modules](#the-modules),
[runs](#runs), [fairness](#fairness), [proofs](#proofs),
[where code and text disagree](#where-code-and-text-disagree),
[other observations](#other-observations),
[what is not modelled](#what-is-not-modelled), [plan](#plan).

## The system

openharness is a framework for agent applications. A program that embeds it
owns the agent loop; the framework supplies the boundary around it: runners
that execute loops, event streams, stores, tools, providers, cost control. The
Lite edition keeps everything in one process and on the local disk; the
gateway of the enterprise edition talks to a remote runner through a session
store. Most of the code is maps, files and one-request clients; the
behaviours that are hard to test are where goroutines, files and failing
writes meet. Per component:

| component | state | operations | meets | what is hard, and what makes it correct |
|---|---|---|---|---|
| Lite runner, `harness/lite/runner.go` | map of runs (status, end time, context), a bounded event channel per run | Dispatch, Interrupt, Cancel, Status, stream Next; an executor goroutine per run | calls the embedder's LoopFactory; the stream is read by the embedder | three kinds of goroutine, two locks, a channel that is closed while others may send, a status read without its lock. No send on a closed channel; the terminal event and the status agree; nobody is stuck |
| Store-backed stream, `harness/stream_store.go` | cursor, done flag, context | Next, Close | polls a SessionStore a remote runner appends to | Close and the parent's cancellation fall anywhere into a polling Next. Every event once and in order, none after a terminal one, io.EOF for a reason |
| Lite agent store, `harness/lite/agent.go` | map of agent definitions with versions | Create, Get, Update, Archive, Clone, List | callers hold definitions between calls | stale read-modify-write; definitions share slices and maps. No lost update, archived means frozen |
| Session log, `sessions/store.go` | one JSONL file per session | CreateSession, AppendMessage, LoadSession, ListSessions, DeleteSession | the file system; no lock | interleaved appends and deletes, writes that stop half way. A torn write costs at most one other message |
| Tool registry, `tools/registry.go`, `composite.go`, `core/core.go` | three maps by name: tool, category, effect | Register, Unregister, EffectsFor, dispatch through composites, core.Register | the agent loop filters tools by effect, then calls them | colliding names within and between tools. The effect shown is that of the tool a call reaches |
| Cost tracker, `cost/tracker.go` | a CSV file | Record, CheckBudget | the embedder checks, chats, records | check and record are separate calls, torn rows. Bounded overspending, no undeserved refusal |
| OpenAI-compatible provider, `providers/openai_compat.go` | none between calls | Chat: POST with retries and backoff | the HTTP client and the service | retries after lost answers, cancellation during backoff. Every call returns |
| Lite skill store, `harness/lite/skill.go` | map of metadata, prompt files | Upload, Resolve, Delete, List | the file system | the lock covers the map, and the files in part. A skill in the map has its files |
| Lite artifact store, `harness/lite/artifact.go` | a file per key | Put, Get, List, Presign | the file system, the caller's reads | Put rewrites in place, Get takes no lock. What a quiet Get returns is the latest Put |
| Lite tool registry, `harness/lite/registry.go` | tools by name, global ones and those of each tenant | AddGlobalTool, RegisterTool, UpdateTool, DeleteTool, Resolve, listings | tenants override globals | maps by name behind calls by id; renaming onto a name that is taken. A tool is resolved under its last name and no other |
| Lite secret store, `harness/lite/secret.go` | a map of maps | StoreCredentials, GetCredentials | callers keep the maps they pass and get; the environment | the copies are made outside the lock. No caller holds a map the store uses |
| Memory and task tools, `tools/core/memory.go`, `tasks.go` | JSON files | store, search, get; create, update, get, list | the file system | read-modify-write of a file rewritten in place; a mutex per instance, while several instances may have one file. What was acknowledged stays |
| File tools, `tools/core/filesystem.go` | the files of a workspace | write_file, edit_file, read_file, list_files | the file system; no lock | an edit is a read, a change and a write that others may come between. Only calls that overlap disturb each other |
| Configuration, `config/` | JSON file, instruction files | Save, Load, discovery | the file system | a crash or a loss of power within Save; two budgets in two loops. Load returns one Save's configuration, whole; instructions fit the budget, near ones first |
| Command tool, `tools/core/exec.go` | none between calls | exec_read, exec_mutate | os/exec: a shell, its children, a timer, a goroutine per pipe | the timeout kills the shell only, Run waits for the pipe. What is returned is all there was; the call ends |
| Anthropic provider, `providers/anthropic.go` | none between calls | Chat, ChatStream | the vendor's SDK, the listener of the chunks | a stream ends anywhere. Listener and answer agree |
| Knowledge graph tool, `tools/core/knowledge_graph.go` | none between calls | search, traverse, page, related | a store others write to | orphans, cycles and any order of blocks. A page is its tree, a hit is shown once |
| Provider registry, `providers/registry.go` | map of providers | Register, Get, Close | providers in use | closing what a caller still uses. Only a replaced provider is closed, and once |
| Pricing, `cost/pricing.go` | overrides | Calculate | the caller of Record | the order of a map decides between partial matches |
| Channel router, runner registry, edition, web, ask-user and subagent tools, filters | maps under one lock, or nothing | | | no invariant between entries |

`PROJECT.json` lists every component with its status, and under `hazards` the
places in the code where these difficulties bite.

## The modules

    LiteRunner ----implements----> RunContract        LiteRunnerProofs
    StoreStream                                       StoreStreamProofs
    AgentStore                                        DefinitionsProofs
    ToolsRegistry <-- MCToolsRegistry                 DefinitionsProofs
    CostTracker (on Pricing), ChatRetry
      <-- MeteredChat <-- MCMeteredChat               MeteredChatProofs
    SkillStore, ArtifactStore, LiteToolRegistry,
      LiteSecretStore (on LiteProcess)  <-- LiteStores    LiteStoresProofs
    TaskCRUD, Memory, ConfigStore, Filesystem,
      SessionLog (on LocalDisk), Discovery
      <-- LocalFiles                                  LocalFilesProofs
    ConfigStore ----implements----> DurableRegister
    Exec, AnthropicStream, KnowledgeGraph,
      ProviderRegistry  <-- OutsideCalls              OutsideCallsProofs

Sums has what the proofs need to know of sums over finite sets.

LiteStores, LocalFiles and OutsideCalls put components side by side that share
a process, its faults and its clients, but no state of their own. What happens
in one of them while another is used makes no difference to either, so each
behaviour is about one, which `store`, `kind` or `call` names.

In each module a definition marked as a *variant* of another is a plausible
mistake in that code (a lock not taken, a test dropped); no action uses it. It
shows which property notices the mistake.

**LiteRunner.** `status`, `ended`, `ctx` are the fields of `runState`; `log`
and `read` are a run's channel (all that was sent, and how much Next has
returned: the buffer lies between); `mu` and `rsmu` are the holders of the two
mutexes. `pc` says where the executor goroutine stands. `executeRun` is
SendStarted, the factory (FactoryEmit, FactorySucceeds, FactoryFails),
RecordCompleted or RecordError (the critical section that sets status and
endedAt), SendTerminal, CloseChannel. `Interrupt` is four steps, because it
looks the run up under `r.mu`, then takes `rs.mu`, reads `rs.status` without
`r.mu`, and sends: another goroutine may change the status between the read and
the send. `Cancel` and `Status` are atomic under `r.mu`. `ParentDone` is the
context given to Dispatch ending, cancelled or past its deadline. `panicked`
is set by a send on a closed channel. `call[c].late` remembers that a call
began after the run had left "running".

**RunContract** is the abstract specification: what one who calls Status and
one who reads the stream learn of a run. It allows Start, Cancel, End, Tell,
Finish, each once; LiteRunner implements it under a refinement mapping that
reads `told` off the events Next has returned.

**StoreStream.** Next is CheckDone (under `mu`), a poll (FetchEvent,
FetchNothing, FetchFails), FinishTerminal (sets done, under `mu`), and the
select (WaitElapsed, WaitCancelled). Close, the parent context and the remote
writer are other actors. The SessionStore is external: an append-only log that
may fail and may or may not heed its context.

**AgentStore.** Every operation holds `s.mu` throughout, so it is one step;
what interleaves is clients that hold definitions (`held`) between calls. The
patchable fields are one number, incremented by an update, so that a lost
update shows as a wrong sum. `content` is what the maps behind a definition's
`mcp_servers` hold: WriteThrough is a holder that writes there.

**SessionLog.** A file is a sequence of pieces (whose bytes, whether the JSON
is whole, whether a newline follows, how long); LoadSession and ListSessions
are operators on it (`Loaded`, `Listed`) with the scanner's limit on lines. A
write may stop half way, in CreateSession too. Opening and writing are two
steps, so that DeleteSession may come between.

**ToolsRegistry.** `registry` is the three maps. Register goes through the
definitions of a tool in order and stops at the first collision, leaving what
it has added; core.Register is a sequence of Registers that stops at the first
error. Dispatch through a composite finds the first part that declares the
name. MCToolsRegistry gives two tools, a composite of both and a plan of two
registrations; the definitions of every tool are chosen freely at the start.

**Pricing, CostTracker, ChatRetry, MeteredChat.** Pricing is the lookup of a
model's price: exact in the overrides, exact in the table, then any key of
either that overlaps with the model's name, whichever the map yields first.
`Overlaps` says which keys do, since names are not strings here. MCMeteredChat
gives a model for every branch of it, one with two keys that overlap and one
that is overridden. CostTracker keeps the rows of the CSV file; `LineAt`,
`ReadFails` and `Records` are what `csv.Reader` and `readRecords` make of them
when a row was cut short and the next one continues its line. ChatRetry is the
retry loop of Chat, each POST one step with its possible outcomes. MeteredChat
composes them the way a loop uses them: check, chat, record.

**SkillStore, ArtifactStore.** The steps are the system calls and
the critical sections. What is on disk of a skill is `disk`: nothing, an empty
directory, a part of the prompt ("torn") or all of it. An artifact is a sequence
of chunks marked with the Put that wrote them, so a mixture of two Puts can be
seen. A crash of the process empties the map of skills, frees the locks and
leaves the files. `orphans` remembers the skills whose upload or removal failed
or was cut off, and those that were in the map when the process ended: what is
on disk of them no call will ever remove.

**LiteToolRegistry.** Each operation holds the mutex throughout and is one
step. `tools` is a tenant's map, of which only the ids matter; UpdateTool and
DeleteTool take any entry with the id they look for, as the iteration over the
map does. `called` is what a client would believe: the name each tool was given
last. Ids may be supplied, so two names may have one: `ambiguous` remembers the
tenants that did that.

**LiteSecretStore.** Go maps are references, so `maps` is the heap, `stored`
and `holds` point into it. StoreCredentials copies, then inserts under the lock;
GetCredentials looks up under the lock, then copies. In between, and afterwards,
callers write to whatever map they hold.

**LocalDisk, TaskCRUD, Memory, ConfigStore.** LocalDisk says what a
file written in place goes through: os.WriteFile truncates (`Empty`), then
writes; a crash in between leaves it empty or `Torn`, and the readers of both
packages take either for no data. TaskCRUD reads, changes and writes back under
the mutex of its instance (TaskLoad, TaskOpen, TaskWrite), and every registry
has an instance of its own; a task is the number of updates it was given, so
that a lost update shows. Memory keeps a map that it read when the instance was
made and writes all of it on each Store. `acked` and `stored` are histories of
what callers were told is saved; `overlapped` and `storing` remember whether
several instances were at work. `taskDisk` and `memDisk` are what the files have
held since the last loss of power, and so what the next one may bring back,
since neither tool syncs them. `lost` are the keys whose entry Memory may have
lost for good: all of them when a process ends on a file that does not parse, or
after several instances stored, or when the power is lost; a key leaves it when
it is stored anew. `cut` remembers that the last save was cut short. ConfigStore
is Save by its system calls: CreateTemp, Write, Sync (with Close and Chmod),
Rename, any of which may fail.

**Filesystem.** write_file and edit_file on one file, without a lock. A text is
a set of passages, each marked with the call that put it there, so that an
edit that was undone, or a mixture, shows. EditReads reads and replaces,
FileOpen truncates, FileWrite writes; `expected` is what the acknowledged calls
add up to, `collided` remembers that calls overlapped or a write was cut short
or undone by a loss of power, which may leave any text the file has held since
the last one (`textDisk`), or a part of it.

**Discovery.** The two loops of DiscoverInstructionFiles; a step is a candidate
that cannot be read, fits or does not. A file is its length. The inner `break`
leaves the directory, not the search.

**DurableRegister** is the abstract specification of the configuration: Saves
begin, then take effect at once or not at all; a loss of power may bring back
what was there before, never a part of a configuration. ConfigStore implements
it with Load as the refinement mapping: `value` is what Load makes of the file,
`settled` what it would make of the one on disk.

**Exec.** One call: Execute starts the shell (or fails, as it must on a context
that is done, which a timeout that overflowed brings about), the shell starts
children and exits or dies of a signal, they write to a pipe that a goroutine
copies; one pipe stands for the two of standard output and standard error. When
the context ends, another goroutine kills the shell. Run returns after the shell was waited for
and the pipe is at its end, for which every child must be gone. os/exec is
external; its rules (a kill after the wait is no error, a successful exit after
a kill is one) are those of the standard library.

**AnthropicStream.** Building the request (system messages ahead, an unknown
role ends the call), then the events of the answer as the SDK accumulates them
in blocks, while text goes to the listener. A piece of text is its number;
`TextParts` is the loop that puts the text of the blocks together.

**KnowledgeGraph.** Execute as a sequence of calls of the store, each of which
may return anything, or fail. The text is a sequence of lines: a header of a
page, or an item with its depth. It is written step by step: `todo` is what the
loops have yet to write, the pages of pageOrder or of the answer, and for
`writeNode`, a recursion, the blocks that the calls on its stack still have to
visit. `InOrder` is the loop that collects pageOrder, the hits of a page, the
roots and the children of a block.

**ProviderRegistry.** Register closes what it replaces; `using` is what callers
have got and keep. Close closes all, and leaves them registered.

## Runs

`pass` runs cover every action and disjunct of the specifications they name.
CHECK_DEADLOCK is FALSE where the bounds let the instance stop, or where
the system may: runs end and nobody need call again.

| run | instance | properties |
|---|---|---|
| lite_runner | 1 run, 2 callers, 3 calls, channel of 2, 1 factory event | TypeOK, NoSendOnClosedChannel, TerminalMatchesStatus, EOFMeansDrained, LateCallsRefused, CallsReturn, CancelledRunsEnd, StreamsEnd, KeepsContract |
| store_stream | 4 events, 1 store fault | InOrderToTheEnd, EOFMeansOver, TerminalReached, CancelReleasesNext |
| agent_store | 2 clients, 2 agents, 4 versions | NoLostUpdate, VersionNamesContent, ArchivedIsFrozen |
| tools_registry | 2 tools of up to 2 definitions, a composite, 2 names, 2 categories, 3 effects | DispatchMatchesEffects, FirstRegistrationStays |
| metered_chat | 2 callers, 3 calls, 1 retry, 4 models, 3 days, months of 2 days, 2 torn rows | OvershootBounded, RefusalIsEarned, EveryCallReturns |
| lite_stores | 2 clients, 2 tenants, 2 faults; 2 skills; 1 key, 3 Puts of 2 chunks; 2 tool names, 3 ids; 2 credentials, one of them in the environment, 4 maps, 3 writes | PromptsAreThere, OrphansOnly, QuietGetsReadTheLatest, ToolsHaveTheirNames, CredentialsArePrivate |
| local_files | 2 clients, 4 calls, 2 faults; 2 instances over the tasks file, 2 over the memory file, 2 keys; 1 session, 4 messages of 2 sizes, 2 torn writes, lines up to 3; 3 directories of 3 candidates of 3 lengths | TasksKept, MemoryKept, EditsKept, OneMessagePerTear, DeletedStaysDeleted, NearestFilesFirst, ConfigIsAtomic, LoadedStays |
| outside_calls | a shell with 2 children and 3 pieces of output, 4 timeouts; 3 messages, 5 events; 4 blocks or pages, 3 pages, 4 values of max_results; 2 names of 2 providers, 2 callers, 2 registrations of each | ResultIsWhole, ChunksAreTheAnswer, PageShowsTree, EveryHitOnce, UsedUntilReplaced, ExecEnds |
| lite_runner_cancelled_stays, store_stream_closed_means_eof, agent_store_clone, tools_registry_rollback | as small as they can be | one each, violated: see [below](#where-code-and-text-disagree) |

Why the bounds are enough:

- *lite_runner*: runs share nothing but `r.mu` and the map, and no step holds
  `r.mu` for long, so one run shows every interleaving of its own goroutines;
  the inductive invariant was also checked with two runs (6.2 million states).
  A channel of 2 with a started, a factory and a terminal event and up to three
  Interrupts is full at every point of a run. Two callers and three calls give
  an Interrupt on either side of a Cancel. The safety properties are proved
  for every size besides.
- *store_stream*: with four events there can be a terminal one followed by those
  of a second run; a fault can fall on any poll.
- *agent_store*: the smallest lost update needs two clients and one agent. A
  second agent is for Clone. Proved for every size.
- *tools_registry*: two definitions are the least for a collision in the middle
  of a Register, a composite of two the least for shared names in it.
- *metered_chat*: the retry count is 1 instead of 3, which leaves a first and a
  last attempt; what is in between is like the first. Three calls are two that
  overlap and the one that sees what they recorded, or two torn rows and the
  row that joins them. The cuts are the columns 1 (the joined row has no time
  of its own), 2 (the shortest cut that leaves a time), 6 (with a row cut in
  column 2 before it, seven columns in all) and 7 (only the newline is
  missing). Three days and months of two reach the day and month boundary,
  apart and together. The prices are 1, 2 and 4, the limits 4 and 5: one call
  may reach a limit, or two, or none, and a cost that is read wrongly shows.
- *lite_stores*: two clients are an operation and the one that overlaps it. One
  key suffices since keys are files of their own, two chunks are the least that
  can be mixed. Two names and three ids let a rename put out a tool and the
  tool come back under another id; two tenants and a global of the same name
  are what an override needs. Four maps are a caller's own, the stored copy,
  and what two Gets return; four make every pair of a copy and a write overlap. Two
faults are a failed upload and the crash after it.
- *local_files*: four calls are two that overlap, the one between them and the
  one that sees the result; two faults are a failed write and the crash after
  it. Two torn writes in one line, and one line beyond the limit, need four
  messages; sizes 1 and 2 with a limit of 3 make joined lines fall on both
  sides of it. Files share nothing, so one of each kind is enough. Lengths 1, 3
  and 5 with limits of 4 and 12 (the code's 4000 and 12000) are a short file, a
  long one and one that is truncated; the mark counts 1.
- *outside_calls*: a timeout is absent, in range, above the cap, or beyond
  the width of a Duration (16 here for 2^64, 2 for the nanoseconds in a
  millisecond). Two children are one that outlives the shell and one that does
  not. Five events are two blocks of text with another kind of block between
  them. Four blocks are a root, an orphan and a cycle of two, in any order; the
  limit of results is below, at and above their number.

What the runs of note show:

- LateCallsRefused: Interrupt's read of the status without `r.mu` is a data
  race, but harmless as far as late calls go: a run never returns to
  "running", so a call made afterwards cannot read it.
- CallsReturn holds without any assumption on readers: a full channel blocks
  the executor only, which holds no lock while it sends.
- InOrderToTheEnd: what Next returns is the log from its start, without a gap
  or a repetition, up to the first terminal event, also when a session goes on
  with another run behind it.
- OneMessagePerTear bounds the damage of a torn write: the message that
  continues its line, which was acknowledged, and no other.
- OvershootBounded: with n callers a daily limit is exceeded by less than n
  times the dearest call, at the highest price a lookup may find. That is the
  whole cost of checking before recording.
- RefusalIsEarned: torn rows make the tracker forget costs, and do not invent
  them, under two premises. The first row has its newline: a first row cut short
  in the provider column sets the column count of the file in a way that lets a
  token count be read as a cost. And torn rows lie apart (`TearsApart`): a row
  cut after two columns, and the next one after six, make a line of seven, the
  sixth of which is the output tokens of the second row, read as a cost. TLC
  did not see this in an instance without cuts in column 6; the attempt to
  prove the invariant did.
- PromptsAreThere holds because Upload writes before it inserts and Delete
  removes the entry before the files, with ids that are never used again.
- OrphansOnly: directories of skills do leak, with the process and with calls
  that fail. The property says which: what is on disk is in the map, in the hands
  of a call, or an orphan of one of these events; and no orphan is ever served.
- TasksKept: within one instance no task and no update that was acknowledged is
  lost, except all of them when a write is cut short, since the next load takes
  the torn file for an empty one, and the latest ones when the power is lost.
  The premise that the calls of two instances do not overlap is needed; nothing
  in the code prevents it.
- MemoryKept: an instance keeps in its map what it failed to save, and writes it
  with the next store that works, so that a failed save loses nothing while the
  process lives. Entries are lost for good when a process ends on a file that
  does not parse: A is stored, the save of B is cut short, the process dies, the
  next one takes the file for empty and stores C, and A is gone. The model has
  this loss (`lost`), and the property says when, and only when, it may strike:
  in the middle of a save, or after one that failed and before the next one that
  works. (And with the power, or after several instances stored: the last one
  to store wins, so the premise is that one stores.)
- ConfigIsAtomic holds through losses of power because Save syncs the file
  before it renames it. An acknowledged Save may still be undone by one: the
  directory is not synced, and DurableRegister says so.
- EditsKept: edits of one file add up as long as no two calls on it overlap and
  the power stays; the first premise is needed, since not even one instance has
  a lock, the second, since nothing is synced.
- NearestFilesFirst: the inner `break` does let a farther file in where a nearer
  one was left out, but only a shorter one; the budget counts the files as they
  are returned, truncation marks included.
- ToolsHaveTheirNames: the map by name and the calls by id agree, through
  renames onto names that are taken (the other tool is gone then, without an
  error) and overrides of globals, provided that no two tools share an id.
- CredentialsArePrivate: the copies may be made outside the lock because no
  caller ever holds a stored map, and a stored map is never written, only
  replaced.
- ExecEnds, ResultIsWhole: the call ends unless a process that the command left
  behind keeps the output open for ever, which the timeout does not change,
  since it kills the shell alone. What is returned is all that was written.
- ChunksAreTheAnswer: also when the stream ends early; without Done there is no
  answer, with it the two texts are equal.
- PageShowsTree: a block whose parent is missing becomes a root; blocks in a
  cycle of parents are not shown, and the walk ends, because it starts at
  roots.
- UsedUntilReplaced: nothing but another registration of its name closes a
  provider that is in use, until Close. It is closed nevertheless: there is no
  count of its users.

## Fairness

- *LiteRunner*, `Scheduling`: weak fairness of each executor's own steps and of
  each call's steps. The Go scheduler runs every goroutine that can run, and
  none of these steps waits for more than a lock that is released without
  waiting. What the code does not promise is a premise of each property that
  needs it: the stream is read (`ReadersRead`), the factory returns
  (`FactoriesReturn`) or obeys its context (`FactoriesObeyCtx`).
- *StoreStream*, `FairSpec`: the goroutine in Next runs, the gateway calls
  Next again, and a select of which both cases stay ready does not choose the
  timer for ever (strong fairness of WaitCancelled: Go's select chooses at
  random).
- *MeteredChat*: a Chat goes on, since timers fire and the client's 120 s
  timeout ends any POST. Nothing is assumed of callers.
- *Exec*: the timer fires, the goroutines that copy and kill run, and Run goes
  on (weak fairness of `ExecGoesOn`). The command's processes owe nothing: they
  may run, or hold the output open, for ever.
- AgentStore, ToolsRegistry, LiteStores, LocalFiles and the rest of
  OutsideCalls: safety only.

## Proofs

Everything in the modules named `...Proofs`, and in Sums, is checked by TLAPS
with no step taken on trust. The theorems hold for every number of clients,
calls, files and faults, every channel size, limit and price; the bounds of the
actions are arbitrary. Each module has an inductive invariant and derives the
properties of the runs from it; TLC finds the invariants to hold on the instances
of the runs too, except for GraphInv, which quantifies over all sequences. Beside the types of the variables the invariants say the following.

**LiteRunner**, from CapacityAssumption (a channel has room for one),
BoundsAssumption and NoOneAssumption (a free mutex has no holder):

    IInv == TypeOK /\ Phases /\ Sent /\ ExecutorOrder /\ Locks
            /\ Drained /\ NoSendOnClosedChannel /\ LateCallsRefused

The safety properties are not inductive alone. `Phases` says what the place of
the executor implies for the status, endedAt, the context and the closing
section; `Sent` what it has sent by then; `Locks` who holds `rs.mu`, which is
what keeps Interrupt's send and the close apart; `Drained` that io.EOF came
after the last event. Proved from IInv: TypeCorrect, NoPanic,
StreamAgreesWithStatus, ExecutorInOrder, NothingAfterEOF, LateCalls, EndsOnce,
and `ImplementsContract`: each step of LiteRunner is a step of RunContract or
a stutter.

**AgentStore**:

    IInv == TypeOK /\ Histories /\ NoLostUpdate /\ VersionNamesContent

NoLostUpdate needs VersionNamesContent: an Update passes if the client's version
is the stored one, and only if equal versions mean equal fields is the client's
value then the one to build on. That in turn needs that held versions never
exceed the stored one, and that Update and nothing else raises it. Proved:
TypeCorrect, UpdatesAreKept, VersionsNameContents, ArchiveIsFinal. It does not
cover what is behind references, where the store makes no promise that holds
(see CloneSharesNothing).

**ToolsRegistry** (in DefinitionsProofs), from ToolBounds. DispatchMatchesEffects
is inductive with the types of what tools declare. The substance is in lemmas:
in a concatenation of lists of definitions the first part that has a name
decides (FirstPartDecides), so that the first definition of a composite is the
one its dispatch reaches; a Register that stops half way, and any sequence of
them in core.Register, adds only names that were free (RegisteredKeeps,
CoreRunKeeps). Proved: EffectsAreDispatched, RegistrationsStay.

**StoreStream**. `Cursor` relates the place in Next to the log: while it polls no
terminal event was returned, and when one was, done is set or about to be. Proved:
EventsInOrder, EOFForAReason.

**LiteStores**. One invariant for each store; the steps of the others, and a crash,
keep it.
- Tools: the map by name and the names that clients believe in are inverse to
  each other, in every tenant whose ids are not ambiguous. NamesResolve.
- Skills: which steps hold the lock, what each of them implies for the entry
  and the files of its skill, and that an orphan is neither in the map nor in the
  hands of a call that could put it there. PromptsAreRead, DiskIsAccountedFor.
- Artifacts: one Put writes at a time, what stands under its key is what it has
  copied so far, and a quiet reader has read a prefix of what stands there. QuietGetsAreExact.
- Credentials: stored maps, the maps that calls copy and the maps that callers
  hold are different ones. CredentialsAreKept.

**LocalFiles**, from DiskBounds, FileStates and NoConfigFile (a file that is
missing, empty or torn is not one that was written), KeyBounds and
DiscoveryBounds (a directory has at least one candidate). One invariant for each kind of file.
- Configuration: the file at the path is whole and synced, and so is what a loss
  of power may bring back; a temporary file belongs to one Save. SavesAreAtomic is
  the refinement: every step of ConfigStore is a step of DurableRegister or a
  stutter.
- Tasks, memories, texts: what each call that is under way has read or is about
  to write, in terms of what was acknowledged, as long as the premise of the
  property (no overlap, one instance) has held; for memories also that the file
  parses, is being written, was cut short, or has nothing to lose. TasksAreKept, MemoriesAreKept, FilesKeepEdits.
- Sessions: every acknowledged message stands in the file whole and with its
  newline, and there are no more pieces without one than writes that stopped;
  hence a message that LoadSession misses has a torn piece of its own before it. A
  session that is gone has no file, and was created once. TearsAreLocal,
  DeletesAreFinal, LoadsOnlyGrow.
- Discovery: the total is the sum of the lengths of what was taken, and what was
  left out did not fit then, hence does not now. NearFilesComeFirst.

**MeteredChat**, from PricingBounds (tables of prices are finite), CostBounds and
CallBounds (finitely many callers). OvershootBounded is not inductive: a caller
that was allowed to chat has not recorded yet. The invariant adds the dearest
price for every caller between its check and its record to what was spent
today (BudgetKept). For RefusalIsEarned it need only say that rows are well formed;
the substance is in lemmas about the reader: every record that is read from a file
whose lines all have seven columns is one whole row (RecordsAreRows), since a
torn row and the next make a line of another length, or one without a time. Proved:
OvershootIsBounded, RefusalsAreEarned.

**OutsideCalls**, from NilIsNoProvider and the bounds (ExecBounds, StreamBounds,
GraphBounds: counts are natural numbers). One invariant for each kind of call.
- Providers: one that was registered once is closed if and only if another has
  its name. ProvidersStayOpen.
- A command: Run returns only when the shell was waited for and no process holds
  the pipe. ResultsAreWhole.
- An answer: the chunks so far are the text of the blocks so far, `TextParts`, of
  which it is proved that it grows with its last block. ChunksMakeTheAnswer.
- A search (`Grouped`): a page that has its header has all of its hits below it,
  in order and with no other header between, and the pages that have not are in
  `todo`, once each. HitsAreShown.
- A page (`Walk`): the way to a block is the sequence of its ancestors from a
  root. There is at most one (OneWay) and no block is twice on it (NoBlockTwice),
  whatever the parents are; hence a block in a cycle has none. What is written
  and what is in `todo` is in document order, and of every block that has a way
  from one of the first roots either the line is there or an ancestor is in
  `todo`. PagesAreTrees. InOrderLists, that the loops list each block of their
  set once and in order, serves both.

**Sums** proves that MapThenSumSet, which is a recursive function on the subsets
of a set, is the sum: it exists, does not depend on the order, and grows by the
element that is added. Inductions, there and for FlattenSeq, TextParts and
InOrder, rule out a smallest counterexample, since the induction theorems of the library
cannot be instantiated.

ExecutorOrder and EndedIsFinal of LiteRunner and TypeOK of AgentStore are
proved but in no run: for a reader of the stream and of Status KeepsContract
implies the first two, and the third is there for the proofs.

Only model-checked: every liveness property, since fairness and ENABLED are
beyond the prover. Every safety property of the passing runs is proved. What the
four runs that end in a counterexample show needs no proof.

## Where code and text disagree

Each is a run that TLC ends with a counterexample.

- `CancelledStays`: the comment of Cancel says that it marks the run as cancelled. If
  the factory returns nil at that moment, or the deadline had passed, the run
  that was cancelled ends as "completed" or "error".
- `ClosedMeansEOF`: a Next that is polling or waiting while Close is called
  may return `context canceled` instead of io.EOF.
- `CloneSharesNothing`: Clone's comment speaks of a deep copy; Args and Env of
  the mcp_servers are shared.
- `FailedRegisterAddsNothing`: Register's comment speaks of a rollback; what was
  added before the collision stays.

The quotations are in `PROJECT.json`.

## Other observations

Seen while modelling, not checked as properties:

- After a torn row CheckBudget allows everything, silently, until the file is
  removed: the comment says that it warns. The test for short rows in
  `readRecords` is never reached, since csv.Reader rejects them first.
- Two torn rows in a row can make CheckBudget count a number of output tokens as
  dollars (see RefusalIsEarned above).
- AppendMessage ignores the error of json.Marshal, CreateSession that of its
  write.
- An Interrupt may follow the terminal event in a stream
  (`LastEventIsTerminal` in LiteRunner states the opposite, which
  `runner_test.go` expects of a run without Interrupts).
- A `timeout_ms` so large that its nanoseconds overflow may become negative, and
  the command then fails at once instead of being given 120 s.
- A command that was killed at its timeout is a result like any other, with exit
  code -1 and without a word about the timeout.
- `lookupPrice` returns whichever partial match the map yields first: for a name
  such as "claude" the price differs from call to call.
- `UpdateTool` with the name of another tool drops that tool without an error.
- The Anthropic provider refuses messages of role "tool", which the results of
  the tool calls it returns would be, and sends an assistant's message without
  its tool calls.
- A stream that ends cleanly before the answer is complete is a success with an
  empty finish reason.
- `Registry.Close` of the providers leaves them registered, and Register of a
  provider that is registered closes it first.

## What is not modelled

- List operations, which change nothing and page through maps in random order.
- Conversions between wire formats (providers), string filters (URL checks,
  shell deny list, scrubbing): all data, no control.
- Components with status not_modelled in `PROJECT.json`, each with the reason.
- Of a request to Anthropic all but its messages: tool definitions, names of
  models, options and usage counts are copied field by field.
- Losses of power, except for tasks, memories, texts and the configuration:
  elsewhere written data stays written. The code syncs nothing but the
  configuration.
- A text that comes with the start of a block of an Anthropic answer: the SDK
  would keep it and ChatStream not pass it on. The service sends none.
- Temporary files that Save leaves behind in a crash: nothing reads them.
- task_get, task_list, memory_search, memory_get, read_file and list_files,
  which only read.
- The embedder's loop, except for the order of calls MeteredChat assumes, and
  the SessionStore, of which the repository has no implementation.

## Plan

- The redirects of web_fetch, if their control turns out to be more than a
  filter on URLs.
- The steps on which the liveness properties rest, as lemmas of safety: that the
  executor, a Next under way or a Chat is never without an enabled step of its
  own, stated without ENABLED.

Where a new property says more than one that is checked now, it takes its
place.
