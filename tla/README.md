# A TLA+ model of MUSE

MUSE (`src/code_muse`) is a terminal coding agent: a REPL hands the user's
prompts to a pydantic-ai agent, whose model requests, tool calls and shell
commands run on one asyncio event loop and on a number of threads beside it.
This directory models the parts whose correctness depends on order: what is
kept of a conversation, what reaches the disk, what reaches the screen, who
owns an interpreter, what becomes of a command that the user interrupts, which
tool calls pass the hooks, how often a prompt asks the model, whose session a
subagent works in, and which callbacks a dispatch sees while plugins load.

Paths below are relative to `src/code_muse/`.

## 1. The system

### Components and their state

| component | state it keeps | operations | what is hard |
|---|---|---|---|
| message history (`agents/_history.py`, `agents/_compaction.py`) | `_message_history`, `_compacted_message_hashes` of each agent | merge, compact (truncate or summarize), prune, gate, emergency cut | several cuts follow one another, each may undo what another guarantees; messages are identified by a hash of their content, and a plugin's hook deletes some in place |
| session persistence (`session_storage.py`, `config/session.py`) | three files per session, the autosave id, a throttle counter, a cache of hashes | save, load, cleanup, autosave, rotate, `/clear`, `/dump_context`, `/load_context`, `/session new` | crash between files, a failed write, several processes in one directory, ids that are seconds |
| message bus (`messaging/bus.py`, `messaging/rich_renderer.py`) | bounded queue, startup buffer, flag and loop of the active renderer; the consumer thread | emit from any thread, start, stop, poll | a put is two steps, it may be a callback on another thread's loop, the renderer comes and goes |
| shell commands (`tools/command_runner.py`, `agents/_run_signals.py`) | confirmation lock, keyboard reference count, registry of processes, set of killed pids | ask, run, time out, Ctrl-X, Ctrl-C, cancel the agent | three kinds of threads and a signal handler that interrupts them |
| sub-interpreter pool (`interpreter_pool.py`) | deque of idle interpreters, `_closed` | acquire, run with a watcher timer, release, shutdown | the watcher closes what another call may own; shutdown does not wait |
| agent run (`agents/_runtime.py`, `_streaming_retry.py`, `plugins/universal_critic/`) | two retry budgets, the attempt and try of a call, the critic's iteration tracker | run, try the stream again, compact, fall back, retry for a hook, continue for a review, cancel | retries of three kinds nest, and one counter outlives the prompt |
| tool calls (`pydantic_patches.py`, `agents/_tool_circuit_breaker.py`, `plugins/plan_mode/`, `plugins/debate/`) | error counters of a run, the mode, review counters | hooks before a call, the call, hooks after it, mode and debate commands | calls run side by side, and every hook may suspend between a test and what depends on it |
| subagents (`tools/agent_tools.py`, `tools/subagent_context.py`) | session context, cache of built agents, session files | invoke, nest, run side by side, fail, cancel | parallel save and restore of one shared variable; a cached agent is bound to an earlier call |
| callbacks and plugin loading (`callbacks.py`, `plugins/__init__.py`) | list per phase, cache of the sorted list, buffer of deferred registrations | register, unregister, dispatch, load, commit, roll back | threads import plugins while other code registers and dispatches |
| hook engine, blackboard, policy engine, critic fabric, task context and others (`hook_engine/`, `plugins/`) | rules, artifacts, routes | hooks and tools | they meet only through the callbacks |
| user interaction, REPL, configuration, provider clients, file tools, rendering | little beyond a dialog or a file | dialogs, dispatch, translation | mostly input and output |

### How they interact

The REPL calls an agent run and autosaves after every turn. The run submits
requests through the history processor, which rewrites the history it shares
with the agent. Tools run inside the request: shell commands in a thread pool,
generated tools in the sub-interpreter pool, subagents as nested runs. All of
them emit on the bus. Key listeners and signal handlers act on the shell
registry and, when that is empty, cancel the run. Commands of the REPL rotate,
load or clear the session.

### What makes each part correct

- history: a request is well paired (no tool call without its result, nor the
  reverse), begins as the conversation began unless that message was huge or deleted by
  the plugin, fits the model, and loses nothing but the text of long documents
  while there is room;
- persistence: a save that reports success is on disk; a crash loses less than
  the throttle and the turns that ended without an autosave; no conversation is
  written over another; cleanup removes the oldest;
- bus: what is shown is shown in order and once, what is lost is lost because
  something was full, and then the oldest goes; everything is handled in the end;
- shell: the registry and the reference count agree with what runs; no process
  outlives its command; commands return whatever the user presses when;
- pool: one owner per interpreter, bounded, none forgotten, closed at shutdown;
  only a watcher destroys an interpreter under a call;
- agent run: a prompt costs a bounded number of requests and ends, with one
  outcome; the critic sends an agent back a bounded number of times;
- tool calls: limits hold up to the calls side by side; no tool runs that the
  mode forbids, unless the mode changed meanwhile;
- subagents: the session context is that of the agent at work, session files
  keep to themselves, and a failed call keeps its turns as far as compaction left
  them;
- callbacks: no dispatch sees a stale order, a callback twice, or half of what
  the plugins registered.

## 2. The modules

| module | lines of the program | depends on |
|---|---|---|
| `MessageHistory` | the list functions of `_history.py` and `_compaction.py` | – |
| `HistoryProcessor` | `history_processor`, `compact`, the turns around it | `MessageHistory` |
| `SessionStore` | `save_session`, `load_session`, `cleanup_sessions`, autosave and the commands | – |
| `MessageChannel` | abstract: an in-order channel that may lose | – |
| `MessageBus` | the outgoing bus and the consumer thread | implements `MessageChannel` |
| `InterpreterPool` | `SubInterpreterExecutor` | – |
| `ShellCommands` | foreground commands and what stops them | – |
| `ToolCalls` | the wrapper of every tool call, with circuit breaker, plan mode and debate mode | – |
| `PromptService` | abstract: a prompt costs at most so many requests and ends | – |
| `AgentRun` | `run` and `_do_run`, streaming retries, the universal critic's count, cancellation | implements `PromptService` |
| `SubAgents` | `invoke_agent` | – |
| `PluginCallbacks` | the callback registry and the loader of plugins | – |
| `MCHistoryProcessor`, `MCSessionStore`, `MCInterpreterPool`, `MCToolCalls`, `MCSubAgents`, `MCPluginCallbacks` | values and symmetry for the checks | the above |
| `HistoryProcessorProofs`, `SessionStoreProofs`, `MessageBusProofs`, `ToolCallsProofs`, `AgentRunProofs`, `SubAgentsProofs`, `PluginCallbacksProofs` | theorems | the module they are named for |
| `ExecutionProofs` | theorems | `ShellCommands` and `InterpreterPool` |

An operator commented *faulty* is a variant of the definition after it, with
an error of the kind the code could have had. No specification uses it; it is
there to show, by taking its neighbour's place, that a property can fail.

### HistoryProcessor

A message is a record with the tool calls it opens and answers, an estimated
size and whether it thinks; two equal records have equal hashes, as
`hash_message` leaves time out. `Submit` is one call of `history_processor`:
`Merge` (the loop over the new messages), `Compact` under the strategy of the
moment, `PopResponses`, `Prune`, then the four passes of `Gate`. Around it
stand the events that lead to a request: `Prompt`, `UseTools`, `EmptyAnswer`,
`Retry`, `Overflow` (with `_emergency_compact`), and those that end a run,
`Reply` and `Cancel`. Summarization is one step that may fail, which the code
answers with truncation. Before the merge, the hook
`on_message_history_processor_start` has the list itself in its hands:
task_context deletes messages from it (`Deletions`), and as pydantic-ai's own list still
has them, the merge puts those that are not in `compacted` back, at the end. Which
messages the plugin finds irrelevant is left open. What is rewritten in place
changes neither hash nor size, which are remembered from the first look at an
object; `stubs` and `noted` record which messages had a long document replaced
and which got the protected facts appended. So a size stands for what was
estimated first, a long text for its stub unless it was estimated before. The truncation of old
tool results (`compact_with_tool_truncation`) has no step: `_truncate_message`
copies parts with `model_copy`, which the dataclass parts of
pydantic-ai do not have, and so returns the message as it is. The two loops that the proofs need, the sum of the
tokens (`Total`) and the selection of messages (`Chosen`), are recursive functions.

### SessionStore

A history is the number of a conversation and its length; a session name is
the second its id was drawn. A save is the steps of `save_session`, in its
order: comparing and recording the hash, the canonical file, the compatible
file, the metadata. After an autosave `CleanupScan` chooses the
sessions, and each `CleanupUnlink` removes one file or fails to. `Turn` is a turn with its
autosave, `QuietTurn` one without: the initial command, and a run that was
cancelled or met its usage limit, after which the loop starts over. `skipped` counts the
quiet turns since the last autosave that was due. `Crash` may come between any two steps, and loses everything in
memory. Modification times are known only by their order: `older` relates the
files of which one was certainly written before the other, and `Replace` and
`Unlink` keep it up to date. `Procs` share the directory. `Commands` chooses what a run explores
besides turns and `/clear`.

### MessageBus

Messages are numbered in the order of emission. `EmitBuffered`,
`EmitScheduled` and `EmitDirect` are the three ways through `emit`; a put into
a full queue is noticed in `TryPut` and answered in `Evict`, and the consumer
may empty the queue between the two. The renderer thread is
`CopyBuffer`, `Replay`, `ClearBuffer`, then `Poll`, `GetNowait` and
`ShowMessage` in turn. `MessageChannel` is what the user is promised, and
`Channel` the refinement mapping: `emitted` is what was sent.

### InterpreterPool

A call is one thread through `run_module_function`; its timer is a second one.
What the pool's lock makes atomic is one action; `_closed`, read outside the
lock, has actions of its own, so that shutdown can come between the test and
the append. The generated tool is one step that may never be taken. `Fail` is the
clause that catches whatever is raised: preparing or running the tool may fail
on an interpreter in good health, and always does on a destroyed one. The names
of its specification begin with `Pool`, because `ExecutionProofs` extends it together
with `ShellCommands`.

### ShellCommands

Four kinds of actors: the coroutine of each command (on the loop), the thread that runs
it, the process, and the calls of `kill_all_running_shell_processes`, from the
Ctrl-X listener's thread or from a signal handler. Handlers nest: a second
Ctrl-C interrupts the first handler, and `LoopFree` says that the loop stands
still meanwhile. `InterruptInside` is the second Ctrl-C at the moment the
first handler is inside `_RUNNING_PROCESSES_LOCK`. `RegisterFails` and
`WatchFails` are exceptions in the command's thread, which leave a process to itself. `RequestCancel` tests the
registry from the listener's thread, `Cancel` takes effect later, on the loop.

### ToolCalls

An element of `Calls` is a slot for one call in flight. `left` is the set of
hooks that have yet to see it; they run in any order, since that is the order
in which plugins happened to be imported, and others may come between two of
them. The tracker is that of the main run: subagents inherit it with the context, so
their calls are further slots. `SetMode` ends the steadiness of the calls
that began under another mode; that is the only history variable. A blocked
call leaves no trace, a cancelled one counts as a success, as in the code. One
handler is left out: when reporting a block raises (`pydantic_patches.py:278`), the call
runs. The report raises only on a reason that is not text, or not
well-formed text, and every hook in the repository composes its reason as text;
a plugin of the user that returned another type would defeat the hooks after it,
the breaker and plan mode included.

### AgentRun

`pc` is the place of the run; a request is one run of the pydantic agent and
has any of the outcomes the code tells apart: an answer, or an exception of a
kind in `Kinds`. `tries` counts within `streaming_retry`, `attempt` within
`_call_with_exception_recovery`, `hookUsed` and `criticUsed` within the
continuation loop. A continuation is a `_retry_call`, which has no recovery
(`again`). `iteration` is the critic's tracker, which outlives the prompt.
`PromptService` has two variables of its own meaning: how many requests the
prompt has cost, and how it ended; `working` is mapped to the place of the run.

### SubAgents

An invocation goes from `loaded` (its hooks may suspend it) to `running` to
`done`; `parent` makes a tree of them. The bus's session context is one
variable, saved on entry and restored on leaving. The agents in the cache are
known by the invocation that built them, because the history processor of a
built agent is a closure over that invocation's configuration: a `Turn` merges
into the history of the builder. Histories are sets of messages, each of which names
the invocation that made it. The processor may drop any messages of the history
it merges into (compaction, the gate, pruning; how it decides is the subject of
`HistoryProcessor`); `shed` remembers them, since the merge skips what it dropped
once, unless the hash was not recorded (`back`). The prompt of a session that is continued may bring
nothing, when its hash is in the history already. `overlapped` and `mixed` record that two calls of
one agent were at work together, and that an agent was used for another session than
that of its builder.

### PluginCallbacks

One phase of the registry, its cached order, the buffer of deferred mode, and
the loader with the import of each plugin: `StartImport`, `RegisterNext` per
callback, `ImportReturns` or `ImportRaises` at any point, then `Commit`, or
`Rollback` when a directory cannot be listed or a callback in the buffer has no
`__name__` (`Nameless`), which the validation of the batch takes for granted. Every registry
operation is one critical section. A dispatch is `Trigger`, which takes a copy of the list,
and `CallNext` over it, during which anything may happen to the registry.

## 3. What is checked

Passing runs:

| run | question | instance |
|---|---|---|
| `history_safety` | Do pairs, order, the first message and the rest of the conversation survive every sequence of cuts and deletions? | three prompts, one of them a long document and one as large as is filtered; four requests, four tool calls, both strategies at will, one deletion by the hook per request; a window of 20 tokens with results of 9, 13 and 16, so that deletion, truncation, filtering, the gate and the emergency cut all happen |
| `session_store` | Does one process with crashes, reloads, dumps and new ids keep its files in order and lose less than the throttle and the quiet turns? | two seconds of clock, three conversations of two turns, throttle 2, one session kept |
| `session_pair` | Do two processes with failing writes overwrite each other's conversations? | two processes, two conversations of one turn, two ids |
| `bus_safety` | Is the display an in-order channel, does overflow drop the oldest, is everything handled? | queue and buffer of two, six messages, one start: either can overflow while the other is in use |
| `pool_safety` | Is ownership exclusive, the pool bounded and complete, and does every call return? | two calls, two interpreters, a pool of one: reuse, surplus, failures and shutdown all occur |
| `shell_safety` | Do registry, context and processes agree, and do commands return? | two commands, one thread, two presses of any of the three keys, failures of the thread anywhere |
| `tools_safety` | Do the limits of breaker and debate mode and the mode's restrictions hold with calls side by side? | two calls, four tools (one that each mode treats differently, two that set the mode, the review), limits of one to three |
| `run_budgets` | What may one prompt cost, and does it end? | every counter's limit two to four, with streaming; all mixtures of failures, retries, reviews and cancellation |
| `subagents_isolation` | Do context, cache and session files stay the call's own? | three calls, nested or side by side, two agents, a cache of one, two turns each, one message dropped by the processor |
| `plugins_safety` | Does a dispatch see a fresh order and whole plugins? | two built-in plugins on parallel threads, one of which registers twice, one of the user, a core callback, three priorities, one callback without a name, five buffered registrations |

Runs that find what the source says and the code does not do:

| run | what it shows |
|---|---|
| `session_retry_after_failure` | a save that failed is taken for done when it is retried: the hash is recorded before the files are written |
| `subagents_partial` | a failing call that used an agent built earlier saves none of its turns: they went into the history of the call that built the agent |

**Bounds.** Every counter has a named bound in a guard or in the code:
`MaxTurns`, `MaxCalls`, `MaxClock`, `MaxConvs`, `MaxEmits`, `MaxStarts`,
`MaxPresses`, `MaxBuffered`, `MaxPruned`, `MaxDropped`. Two of each
actor are enough for the races, which are all between two steps: two calls for
one interpreter, two processes for one file, two handlers for one lock, two
tool calls past one test. Subagents take three: two that overlap and one that
finds what they left, or a chain. The
history needs four requests: a tool call, its result, a cut, and a turn after
it; one deletion by the hook is enough to sever a pair or to take the first message. One message dropped by a
subagent's processor is enough for the history to be no longer than what was loaded. The
sizes of messages and budgets in `HistoryProcessor.cfg` are scaled down
together; 80 % and the floor keep the proportions of the code. The throttle is 2 where
the code has 4; only crossing it matters. In `AgentRun`
`MaxLoop` is below the sum of the budgets, so that the safety cap of the loop
ends some runs and a spent budget others; with the defaults (10, 10 and 50) both
budgets are spent first, which the theorems cover. Deadlock is
not checked where the system really stops: a run whose bounds are used up, a
program that ended. It is checked in `tools_safety`, `run_budgets` and `plugins_safety`.

`CallSymmetry` of `MCToolCalls` and `MCSubAgents` permutes calls (and agents) that
no property and no initial state tells apart; those runs check no liveness.

**Fairness.** `bus_safety`, `pool_safety`, `shell_safety` and `run_budgets` check liveness.
In the bus, the consumer thread and the loop's callbacks are weakly fair: both
are loops that run for as long as the renderer is up. In the pool, threads and
timers are fair, and `ToolsReturn` assumes that tools return, since the
code has no way to make them. In the shell, the loop, the threads and the kill
calls are fair; the user is assumed to answer a question that is asked;
no fairness is given to processes, which may run until a timeout. In the agent
run, `Progress` is weakly fair: a request ends, if need be by the overall
timeout (600 s unless the user sets `overall_run_timeout` to 0); sleeps return, and so do hooks. That an answer comes is not assumed:
every outcome of a request is in `Progress`. No key press
is fair anywhere.

### Divergences that no run shows

Met while translating the code; where a property comes close to one, it
excepts exactly that case. Each is quoted from the source.

History and sessions:

- `plugins/task_context/register_callbacks.py:77`: the hook deletes messages from the
  history, pairs and the first message not excepted. The next lines of the
  processor merge pydantic-ai's own list, so a deleted message that was not
  compacted earlier is appended again, behind newer ones: what was to be pruned is moved.
- `agents/_history.py:478`: `filter_huge_messages` makes no exception for the
  first message: one of more than the threshold is dropped with the first compaction.
- `agents/_compaction.py:640`: `compact_with_tool_truncation` shortens no
  message, since the parts of pydantic-ai are dataclasses without `model_copy`.
- `cli_runner/loop.py:402`: a cancelled or limited run is not followed by an
  autosave and does not count for the throttle, nor does the initial command
  (line 82), though the history has grown: a crash may lose any number of such turns.

- `agents/_compaction.py:720`: the gate gives back the whole oversized history
  when its cut leaves one message, and sends it.
- `agents/_compaction.py:631`: a newest prompt whose twin is still in the
  history is taken for that twin (this test comes first), although the comment
  says the last message is always kept.
- `agents/_compaction.py:705`: the gate prunes after `PopResponses`, so a
  response may be last, which line 652 excludes.
- `agents/_compaction.py:455`: the cap on messages (line 444) forces a
  compaction that drops nothing as long as the tokens fit.
- `agents/_compaction.py:230`: a second message that both thinks and calls a
  tool is protected twice, and appears twice.
- `agents/_compaction.py:146`: messages between the adjusted split and the
  original one are neither kept nor summarized.
- `config/session.py:167`: finalizing "persists" the session through the
  throttled autosave; `/clear` then drops what the throttle skipped.
- `config/session.py:32`: two rotations in a second give the same id, where
  line 30 says a new one is forced.

Bus and pool:

- `messaging/rich_renderer.py:216`: a renderer that stops while its thread replays
  the startup buffer clears messages buffered since.
- `messaging/bus.py:176`: callbacks of `on_message` run inside a lock that is
  not reentrant: one that emits would block for ever; none does today.
- `messaging/bus.py:141`: callbacks on a loop that is blocked are not bounded
  by `maxsize`; line 304: a request that is evicted is never answered (nothing
  calls the request half).
- `interpreter_pool.py:106`: a release between the test of `_closed` and the
  append puts an interpreter in a pool that nobody drains any more.
- `interpreter_pool.py:363`: when the watcher closes an interpreter in use,
  `exec` raises and the call reports "execution failed"; the comment at line
  306 promises the timeout shape. The same report stands for an exception that the
  bootstrap does not catch (line 272), an argument that `json.dumps` refuses, and an
  interpreter that an earlier call's watcher destroyed.
- `interpreter_pool.py:309`: the "hard wall-clock limit" of line 163 is none
  for a tool that never returns.

Shell:

- `tools/command_runner.py:129`: the context "stays active while ANY command
  is running", but a cancellation requested before the process was registered
  releases it while the process runs, unwatched until it ends or times out.
- `tools/command_runner.py:255`: a killed pid is recorded after sleeps of a
  second and more, the watch loop looks within a tenth, so `user_interrupted`
  is nearly always false. Line 941: recorded pids are never forgotten, so a
  later process with the same number counts as interrupted.
- `tools/command_runner.py:144`: a second Ctrl-C inside the registry lock
  blocks the main thread for good. `CommandsReturn` excepts this state.
- `tools/command_runner.py:954`: an exception in the watch loop (line 881 emits, so does
  line 925) unregisters the process through the `finally` of line 1298 without
  killing it; one between `Popen` and line 1293 never registers it. `NoneOutlives`
  does not speak of commands that report such an error.
- `tools/command_runner.py:1078`: an agent that is cancelled while it asks for
  confirmation leaves the lock taken: later commands are refused. The flag
  that the user is being asked (`tools/user_interaction.py:479`) is left set likewise.

Agent run, tools and subagents:

- `agents/_runtime.py:370`: only the first hook that wants a retry is looked at; when its
  budget is spent the run ends, even if the critic still wants one:
  `config/parser.py:593` says that budgets are apart lest one starve the other.
- `agents/_runtime.py:313`: the comment has the "new exception" handled when the
  request without streaming fails; the bare `raise` of line 316 raises the
  first one, so a spent usage limit is reported as a failure. Line 288 says
  "for this turn": the next attempt streams again and may fall back again.
- `pydantic_patches.py:293`: a cancelled call is reported to the hooks as one
  that succeeded, and clears its tool's errors.
- `plugins/plan_mode/plan_hooks.py:45`: the mode may change between the hook's
  test and the tool, by a tool beside it. `ModeHonoured` excepts these calls.
- `plugins/debate/state.py:68`: revisions "at the current checkpoint" are
  counted over all checkpoints; `register_callbacks.py:254` tells the agent to
  revise its approach, but the block lifts only by `/debate reset`.
- `tools/agent_tools.py:666`: after two subagents have overlapped, the session
  context may stay that of one that is gone, and artifacts go to its scope.
  Two calls that continue one session side by side both save it: the last one wins.
- `tools/agent_tools.py:642`: the partial save compares lengths, and the
  history processor may have dropped as many messages of a continued session as the
  call has added: then nothing is saved although the agent was the call's own.
  `PartialKept` excepts this case.

Callbacks and plugins:

- `plugins/__init__.py:319`: "either every registration succeeds, or the
  entire batch is rolled back", but a plugin whose import raises is logged
  (line 100), and what it had registered until then is committed.
- `callbacks.py:123`: the validation asks each callback for its `__name__`. One without
  (a `functools.partial`) is buffered before the log line of `register_callback` raises, so the
  failing plugin's entry makes the commit raise, and with it the program's start.
- `plugins/__init__.py:129`: the order among equal priorities is the order in
  which threads happened to import the plugins.
- `callbacks.py:336`: an asynchronous hook that times out after 30 s keeps its
  worker and may still take effect; one that hangs blocks the shutdown (line 189).
- `plugins/blackboard/config.py:23`: persistence starts off, so that the load at
  startup (`register_callbacks.py:314`) never happens. `durable.py:106` drops
  artifacts posted after their scope was cleared, although records are said to be
  processed "in file order" (line 55); the rewrite at line 133 is not atomic.

## 4. What is proved

Every safety and action property of a passing run is a theorem, for any values
of the constants, from the named assumptions of its module and from the
hypotheses the theorem states. Each proof module states an inductive invariant,
proves that it holds initially and that every action keeps it, and derives the
results from it.

| proof module | results | what the invariant adds |
|---|---|---|
| `HistoryProcessorProofs` | `HistoryTypeCorrect`, `SentIsPaired`, `TruncationIsSound`, `SystemPromptSurvives`, `SmallConversationIsSentWhole` | messages that share a tool call id carry the same ids (`Together`); the ids of a new answer are fresh, even among those forgotten (`IdsOpened`); what is asked is a prompt |
| `SessionStoreProofs` | `TypeCorrect`, `NothingClobbered`, `CanonicalFileIsNewest`, `LossIsBounded` | files and processes of an id hold one conversation (`OneConv`); the compatible file is written when the canonical one holds the same (`JsonFirst`); for the loss, what a process knows by hash, what cleanup may take and how many sessions are left (`Lasting`) |
| `MessageBusProofs` | `TypeCorrect`, `ShowsInOrder` (a refinement), `NothingVanishesWhileUp`, `OverflowDropsOldest` | where messages stand: buffer, queue, put in progress, callbacks, batch, the message held, each in ascending order and below the next; `Lifecycle` ties the thread's place to the renderer's; `Placed` says that each message is in one of them or recorded as dropped |
| `ExecutionProofs`, shell | `TypeCorrect`, `ContextIsCounted`, `RegistryIsTrusted`, `NoProcessOutlives` | no process before a thread takes the command (`WorkInv`); what a killer has dealt with is dead or was signalled in vain (`KillInv`) |
| `ExecutionProofs`, pool | `PoolTypeCorrect`, `ExclusiveUse`, `PoolKeepsAccount`, `DestroyedByWatchers`, `ShutdownLeavesOnlyLate` | what is held is not pooled and is known (`Known`); whatever is destroyed early has a watcher to blame (`DeadByTimeout`); every append still to come after shutdown is late (`LateOnly`) |
| `ToolCallsProofs` | `TypeCorrect`, `ErrorsStayBounded`, `ReviewsStayBounded`, `ModeIsHonoured` | a call is charged as soon as it has passed its test: counter plus calls past the test stay below limit plus calls (`ErrorInv`, `ReviewInv`) |
| `AgentRunProofs` | `TypeCorrect`, `RewritesStayBounded`, `KeepsToBudget` (a refinement) | where the run is bounds what it has cost: by attempts and tries in the first call, by budgets used afterwards (`RequestInv`); a rewrite asked for is already an iteration |
| `SubAgentsProofs` | `TypeCorrect`, `ScopesStayRight`, `FilesStayOwn`, `FailureKeepsTurns` | calls at work form a tree, without overlaps a path with one end (`PathInv`); histories are finite, begun and within their session (`HistoryInv`, `OwnInv`) |
| `PluginCallbacksProofs` | `TypeCorrect`, `CacheStaysFresh`, `DispatchesSeeWhole` | what the plugins made is in the buffer while they load and in the registry afterwards, unless removed |

Some arguments deserve a word.

- History: `PairedWhenSent` by itself is not inductive, since an answer severed
  by truncation is in the history until the next pruning. What survives every
  cut is `Together`: a call and its result carry the same ids, so pruning takes
  both, in one pass, and a pruned history has no mismatch. `TruncationIsSound`
  rests on what `TailStart` and `SafeSplit` return (`RecentIs`): a tail that fits
  the room left by the head; the result is a head and a tail that may overlap
  and still never swap two messages (`JoinedIs`). `SystemPromptSurvives` is for any
  prompts: its only premises are in the property, a first message below the threshold of
  `filter_huge_messages` that the hook did not delete. Both are necessary, and both cases
  are among the divergences above. For `SmallConversationIsSentWhole` the merge must return what it was
  given (nothing new is held already), truncation in the emergency cut must shorten nothing
  that fits, and `stubs` must hold long texts only, which is the part of the invariant
  that says so.
- Recursive functions: that `Total` adds up over a concatenation and that
  `Chosen` keeps the chosen messages in place is shown by minimal
  counterexample: of the positions where two functions differ there is a least one,
  and its predecessor agrees (`HasLeast`). That such a function exists at
  all is proved the same way (`Recursion`), for the step as a function, not as an operator.
- Sessions: `NothingClobbered` holds for any number of processes.
  `CanonicalFileIsNewest` and `LossIsBounded` are stated for one (`Alone`), as
  the run checks them: with two, each may write between the files of the other.
  For the loss, the autosave counter alone is not enough. A save must not be
  skipped because of a stale hash: the cached hash is that of the file, except of
  sessions that cleanup removed, and those are not used again (`HashTrue`). The
  session in use must not be cleaned up (`StaleRight`), which needs that ages are a
  strict order (`Ordered`), that a session not yet on disk is the youngest
  (`NewIsYoungest`), and that at most `MaxSessions` are left by each cleanup
  (`Limited`), since the kept ones have distinct ranks. Files are removed one by one and
  an unlink may fail, so what is being removed is tracked per file.
- Bus: `TypeCorrect` is for any number of renderers; order and accounting are for
  the single start the command line makes (`MaxStarts = 1`, stated in the
  theorems). The premise is necessary: with `MaxStarts = 2` TLC finds a stopped
  thread that still replays its copy of the buffer while the next one replays it again.
- Agent run: `Budget` is (hook retries + 1) times (tries + 1) for the
  first call, whose attempts may each end in a request without streaming,
  plus tries for each continuation. With the program's defaults of 3 tries, 10 and 10
  retries that is 11 · 4 + 20 · 3 = 104 requests for one prompt, a number written nowhere in
  the code. Products of two constants are kept in operators of one argument
  (`Attempts`, `Retries`) whose growth is a lemma.
- Callbacks: that sorting keeps every callback is a counting argument. `Rank`
  is injective on the positions, and an injection of a finite set into one of
  the same size is onto (`InjectionOnto`), so each place of `ByPriority` is
  filled by a position (`SortKeepsAll`). The commit is the same argument over the
  buffered callbacks that are new (`CommitParts`).
- Subagents: `FailureKeepsTurns` has no history of the call's own shrink
  unnoticed: what was loaded is in the history or was dropped from it, and so is what
  the call has said. If fewer messages were dropped than said, the history is
  longer than what was loaded by counting the two finite sets, and the code's test
  of lengths saves it.

Only model-checked: liveness (`CallsReturn`, `CommandsReturn`,
`EventuallyHandled`, `PromptsEnd`), which the prover does not reach, and what the
variants marked *faulty* break. No module uses a RECURSIVE operator.

## 5. What is not modelled

`PROJECT.json` lists every part with its reason. In short:

- left out for good: terminal menus, rendering, text heuristics of plugins,
  file tools, provider clients (input and output, or translation of wire
  formats). They are most of the program's 82 000 lines, so the share of lines
  that the modules stand for stays small by nature: what has state that several
  actors change is a few thousand;
- parts with state, but no interleaving worth a module: the hook engine (scripts
  one after the other; what a blocking one does is `OtherHookBlocks`), the
  critic fabric, the blackboard (a dictionary changed in single steps), background
  jobs, the round-robin model, the reopenable HTTP client;
- abstracted inside modelled parts: token estimates and caches, the plugin's
  score of relevance (history); pickle formats (sessions); session tags and observation hooks
  (bus); output readers, Windows, recycled pids (shell); the text of
  goals, reviews and prompts, and the handler for a block that cannot be reported
  (tool calls, agent run); the executor of synchronous dispatch (callbacks).

## 6. Plan

1. Done: the nine components of section 2 with their runs; every safety and
   action property of a passing run proved; refinements of `MessageChannel` and
   `PromptService`.
2. Theorems worth proving next: what `SafeSplit` and `Split` promise each
   other, namely which messages between the two splits are lost; a bound on
   what the history can grow to between two compactions; that a summarized
   history starts with the summary of what it dropped.
3. Composition: `ShellCommands` with `AgentRun` (a cancel key that waits for
   the registry), and `SessionStore` with `HistoryProcessor` (what a reload
   restores of a compacted history).
4. Abstract specifications worth stating: a write-through store of
   conversations above `SessionStore`, with loss bounded by throttle and quiet turns, whose
   refinement would follow from `LossInv`.
