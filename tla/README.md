# AlayaCore: specifications, model checking and proofs

This directory specifies AlayaCore in TLA+: the session and the words a user
submits to it, the conversation and its tool calls, the streams and requests of
the model APIs, MCP servers, the terminal, the tools and the files. TLC checks
the specifications on small instances; TLAPS proves the safety of the session, of
the conversation, of the tool calls of a step, of the input, of the adapters without
a screen, of the terminal's dialogs, of the settings and of the MCP side for every value
of their constants. All paths below are under `src/internal/` unless they start with
`docs/`, which is under `src/`.

## The system

An *adapter* (terminal, plain, terse or raw) talks to one *session* over a frame
protocol. The session is three goroutines:

- the **input pump** (`agent/session_io.go`) parses frames into messages;
- **run()** (`agent/session_loop.go`) owns the state and handles one message,
  task event, task result, MCP event or cancel request at a time;
- at most one **task** (`agent/session_task.go`) runs a prompt, `:continue` or
  `:summarize`: it calls the agent loop (`llm/agent.go`), which sends a request
  per step, streams the answer, and runs the tools the model calls
  (`llm/agent_execution.go`), each in a goroutine or one after another.

| component | state | operations | what is hard | what makes it correct |
|---|---|---|---|---|
| session loop (`session_loop.go`, `session_io.go`) | lifecycle, task slot, slot of a prompt held for MCP, quit and end of input | submit, continue, summarize, quit, end of input, cancel, MCP event, task result, exit | exits with work pending, a held prompt against quit, cancel and MCP failure | one task; no prompt silently lost; closes when it should, not before |
| steering queue (`session_steering.go`) | queue, drained flag, under a mutex | queue, take at a step boundary, discard, settle on cancel, deliver leftovers | two goroutines settle it in any order; frames are written after the unlock | every queued word gets one end; stop means stop |
| task and step record (`session_task.go`, `session_step.go`, `session_event.go`) | its own history, published length, injected batch | open, splice, compact, land, fail, resume, return | several rewrites of a history whose length is cached | what run() holds is what the task works on |
| tool calls of a step (`llm/agent_execution.go`, `assemble.go`) | goroutine per call, result channel, confirmations | open, complete, confirm, run, send, collect, pair | cancel and failure against everything | what ran is recorded, what did not is not |
| providers (`llm/providers/`, `retry.go`) | stream parser, assembler, attempt | send, retry, read an event, end | streams that stop anywhere, ids and names in pieces | the record is what the server said; one attempt shows |
| requests (`llm/media_*.go`, `providers/`) | none | fit media, group, encode | histories no test wrote | no history makes a request its API refuses |
| input and wire (`wire/`, `lines/`, adapters) | pipe, staged parts, channel; buffer of a splitter | write, read, stage, send, end | frames of several goroutines; lines cut by reads | no part lost without an error |
| adapters without a screen (`adapters/terseio/`, `plainio/`) | the text being said; the last tag printed and the parts seen | buffer, flush, discard, separate, exit | errors, user words and interrupts around the answer; deltas and the frames that complete them | the answer printed is the answer; the exit code says so; a text is printed once |
| authorization (`mcpauth/`, `platform/oauth.go`) | a goroutine per server, a callback server, its one result | start, callback, confirm, decline, stop, time out | stray callbacks, browsers that fail, answers typed by hand | a server asked about is answered once |
| settings (`model_manager.go`, `runtime_manager.go`, `model_service.go`) | models, active model, provider in use, two files | switch, reload, sync, save | ids dealt anew, other instances | the model shown is the model used |
| session file (`persistence.go`, `serialization.go`, `sessionmigrate/`) | file, temp file, contents | save, load, fork, upgrade | a crash inside any of them | the session opened is the session saved |
| MCP initialization (`mcp/initializer.go`, `agent/mcp_service.go`) | goroutine per server, results, events, authorization channels | connect, ask, answer, skip, collect, deliver, close | cancellation against answers, full channel | no send on a closed channel; "done" last; it settles |
| MCP client (`mcp/client.go`, `stdio_transport.go`) | client state, pending table, child and its pipes | connect, call, cancel, read, close | answers late or twice, exit against reading | every call ends; the table and the callers agree |
| MCP over HTTP (`mcp/http_transport.go`) | pending table, a goroutine per event stream, the GET stream | post, answer, stream, cancel, close | an answer on any stream, ends and closes that race it | nobody waits for a word no goroutine will say; a channel is closed once |
| MCP tokens (`mcp/auth/token_refresh.go`, `token_store.go`) | token in memory, on disk, and the one the program started with | start, use, refresh, save, fall back | concurrent requests, rotation, a stop before the save | the refresh token the server still takes is kept |
| tools (`tools/`) | one read-write lock over the working tree; a capture per stream | read, write, edit, execute, search | parallel calls, children that do not stop | answers are true, changes exact |
| terminal (`adapters/terminal/`) | windows and caches, glass, key parser, prompt, dialogs, selectors | frames, keys, ticks, resizes, handoffs | caches, bytes cut anywhere, dialogs over each other | glass and caches agree; a key is heard once; no word lost |

What is left is data without interleaving: MCP protocol versions, schemas, themes,
skills, flags, the discovery of an authorization server. `PROJECT.json` lists every component with its status, and
the hazards at the line where each bites.

## Modules

A definition called `X_Y` is a mutant of `X`: the form `X` would have with a
plausible bug. No specification uses it.

### The session

**`Session`** is run(), the task goroutine and the queue between them. `runPc`
and `taskPc` say where the two are. A handler of run() is one action, except where
the task can move in the middle of it: a submission changes the queue under the
mutex and writes its frame after the unlock (`SubmitPrompt`, then `TellQueued`), a
cancel ends the task's context and then settles the queue (`CancelTask`,
`CancelSteering`, `TellCanceled`). The task goes `TaskStart`, an optional opening
`SummarizeCall`, then per step `Boundary`, `Splice` and `TellDelivered`, `Send`,
`Stream`, and on its way out `Unwind` (the deferred discard) and its result.
`HandleTaskDone` is run()'s half of that end: it delivers what is left of the
queue as the next prompt, with every call this makes, in the same action.
`fate[p]` says what became of prompt `p` and is the only history variable. The
contents of prompts and answers are not here; a queue entry is one part, so
`MaxSteering` bounds prompts.

**`PromptFate`** is the promise without the machinery: a prompt runs, is refused or
waits; what waits is settled together; a task does not end, and the session does
not close in order, with words still waiting. `Session!Refines` maps the session
to it through `Place(fate[p])`, the task slot and the lifecycle state.

**`LiveEdge`** is the terminal's fold of one steering frame (`updateSteering`), and
**`Readout`** composes it with `Session`: an action that writes a frame folds it.

### The conversation

**`Turn`**: a part is an id and a role. The task's history, the caller's fallback
(`caller`), the last finished history (`full`), the step record (`rec`), the event
channel and run()'s `contents`. A step lands, lands with a tool call and goes on,
fails with or without salvage, is cut and resumed; a boundary may compact, append
steering or a synthetic "Continue". `Known` is what run() holds once it has
handled the events under way. Whether words wait at a boundary is left open.

**`ToolCalls`** is one step: `streamEvents`, the parallel or serial driver, the
goroutine of each call, confirmations registered and answered by the session, the
bounded result channel, collection, cancellation and the pairing of results with
calls, strict for a landed step and forgiving for one that failed. `ran` and
`denied` remember what happened outside.

**`Provider`** is the stream of one step: `sendWithRetry`, the state either
provider keeps while it reads (`parser`), and the assembler (`blocks`). A server's
event is one SSE event, a body is the number of its fragments, and the stream may
end, well or badly, after any event. Premises on the server: blocks start in the
order of their indices; a call is named once, before its arguments, and gets its
id by then unless `LateIds`.

**`Request`** has no steps of its own: a history grows as sessions let it, and the
operators say what `media_fit.go`, `media_modality.go` and the two encoders make of
it. A medium is its kind, where it is, and whether it can be brought to a size.

### Input, settings, files

**`InputPump`** has a goroutine for each command or submit of the terminal, the
reading goroutine of the plain adapter and its authorization answers, or a raw
client whose frames may be wrong; the pipe, the pump's staged parts, its channel
and run() as its reader. **`Lines`** is below it: bytes, a `Splitter` with its limit,
and the frames on top, pushed or pulled.

**`Answer`** is terseio: the parts a session says and the errors it reports, the
buffer of the text being said, and Start, which waits for stdin, an error or the end
and makes the exit code. **`PlainOutput`** is plainio: parts that overlap, the deltas
remembered as printed (`seenDelta`, which forgets the oldest), and when a separator is
due; of what is printed it keeps how many chunks of each part were and what the
cursor's line holds. **`AuthFlow`** is the authorization either runs: `Flow`'s goroutine
for each server, the callback server, the policy when no browser opens (`manual`).
**`Headless`** puts the three side by side.

**`Settings`** is the model table, `model.conf` and `runtime.conf`, the agent's
provider, and what the session last told the adapter; another instance rewrites
`runtime.conf` in two steps.

**`SessionFile`** is the contents and their file: a save as temp file, rename and
the crashes between; a load with its rejections; a fork; and the upgrade of older
generations, one version at a time.

**`Commands`** is one call of `execute_command` or `search_content`: child, heirs,
pipes, signals, captures with their spool, preview, answer. **`Files`** is two
calls on one file: the edit through a window into a temp file, the write, the read
by pages, the lock they share.

### MCP

**`MCPInit`**: each server's goroutine, the collecting `run()`, the mutex, the event
channel and its close, the authorization channels, and the session's main loop
reduced to what meets them. **`MCPClient`**: the goroutine that connects, callers,
the read loop, the two watchers, `Close`, and a child with perhaps an heir that
holds the same pipes. A stream of lines is a bounded pipe; a line is the request
it answers or what it announces. **`MCPHttp`** is the other transport: a call posts
and is answered in the body, or by an event stream whose goroutine reads answers to
anybody; the adapter's GET stream; cancellation, `OnClose` and the transport's
`Close`. **`MCPTokens`** is one server's tokens: the file, the provider's memory,
the requests that read, refresh, remember and write with no lock around the four,
the authorization server's rotation, and starts of the program.

### The terminal

**`Screen`** paints: last frame, diff, cursor, widths as `Program` and the model
know them, handoffs. The glass is a grid of cells. **`Transcript`** is the chain
from a frame to the rows drawn: windows, cached heights, index and total, cursor,
viewport, the redraw flag and the tick. A frame raises the flag before it changes
the buffer, and a tick may come between (`WriteBegin`, `WriteApply`). **`KeyInput`**
is the parser, byte by byte, over reads cut anywhere, and the parking of the read
loop. Two of its variables are history that no action reads: `chordCut` and `lateAck`
say that one of the two cases has happened in which it does not keep its promise. **`InputField`** is the prompt's editor, one action per key. **`Modals`** is
who has the keyboard: focus, overlays, dialogs, and the ticks that open them.
**`Selectors`** is the list under a filter, with themes previewed after a delay;
**`Popups`** puts the two side by side and says what both promise.

### Instances

`MCAgent`, `MCInit`, `MCTerminal` and `MCHost` give constants to several modules
at once, as independent systems in one run: `part` is chosen in `Init` and says
which of them a behaviour is of; the variables of the others stay at `"-"`, or as they
start. A module with theorems is EXTENDed by its instance (`MCAgent` extends
`ToolCalls` and `Turn`, `MCInit` extends `MCPInit` and `MCPHttp`, `MCTerminal` extends
`Popups`, `MCHost` extends `Settings`, `MCPTokens`, `InputPump` and `Headless`), so that what a run checks is what
is proved; the others are instantiated, and `InputPump` a second time for the plain
adapter, `Modals` for the dialogs of servers and for those of a quit. `DialogsAgree`
speaks of the variables only and holds in every instance; the variables of dialogs and
selectors start in every part and stay.
Nothing interacts across parts; where modules do interact (`Session` with
`LiveEdge`, `Provider`'s two halves, the adapters with the pump) one module
composes them. A property of such a run is a conjunction with one conjunct per
part it is about. `MCSession` is `Session` with the terminal that
reads out its queue (`Readout`), up to a renaming of the prompts.

## Runs

| run | properties | shows |
|---|---|---|
| `session_safety` | `TypeOK`, `WordsInPlace`, `OneWordReadout`, `StopsAreKept`, `QueueSharesFate`, `Refines` | slots and queue stay consistent in every order of submissions, cancels, quit, end of input, MCP events and a broken output; the session implements `PromptFate`; the terminal's count of a queue of one word is right at rest |
| `session_live` | `CancelEnds`, `Closes`, `WordsSettle` | a canceled task ends whatever the provider does; quit and end of input close; words do not wait for ever |
| `agent` | `TypeOK`, `HistoriesAgree`, `RequestsAreDue`, `RecordIsWhatRan`, `ToolsRunInTurn`, `TasksEnd` | what run() was told adds up to the task's history; records tell the truth about side effects; steps return |
| `mcpinit` | `TypeOK`, `ToldIsSo`, `NobodyForgotten`, `InitEnds` | no send on the closed channel; "done" is last and survives a full channel; a skip ends it; it settles. Over HTTP nobody waits for ever, whichever stream ends first |
| `mcp_client` | `TypeOK`, `TableAgrees`, `StaleSticks`, `CallsEnd` | a call and its entry agree; a stale client stays stale; a canceled call returns; Close leaves nothing |
| `terminal` | `PaintIsTrue`, `TranscriptHolds`, `KeysAreRead`, `DialogsAgree`, `ShowsChange`, `NoTraceStays`, `QuitEnds` | glass and caches agree with a rebuild, but for a resize that is not painted; keys are heard once, wherever the reads cut them but in an Alt chord's character; a child reads alone, but after a late acknowledgement; dialogs lose neither a question nor words; a quit ends |
| `host` | `InputAccounted`, `AdaptersAreTrue`, `WireIsTrue`, `SettingsHeld`, `TokenKept`, `ToolAnswersAreTrue`, `ForkIsPaired`, `ChangesAreExact`, `LoadIsWhatWasSaved`, `CallsReturn` | what a session stands on: input, streams, requests, settings, tokens, tools and its file; and what the adapters without a screen print, exit with and answer |
| `turn_once`, `token_refresh`, `mcpinit_deliver`, `id_lost`, `submit_pieces` | one each | violated, see below |

### Bounds, and why they are enough

They are chosen for the cases, not for the size.

- `session_safety`: 3 prompts (symmetric), queue of 2, 2 steps. Two words tell
  "all" from "one", a third overflows the queue or comes after a cancel; two steps
  have one boundary between them. `session_live` has 2 prompts.
- `agent`: `Turn` with 3 steps, 1 resume, 8 parts, 2 events: the longest sequence
  the step record has rules for is cut, continued, failed. `ToolCalls` with 2
  calls and 1 result slot: a goroutine waits for room while its step is canceled
  (the build has 16).
- `mcpinit`: "tight" is 2 servers, 1 with OAuth, 2 events, 2 answers: every
  progress event may be dropped (the build has 64). "roomy" is 1 server, 12
  events, 1 answer: everything fits, so settling is the code's own doing. The HTTP
  part is 1 call beside the GET stream, two readers of one table; the theorem is
  about any number.
- `mcp_client`: 1 call beside the handshake, pipes of 1 line, 1 line said unasked:
  a full pipe, a late answer and an answer for somebody else all happen.
- `terminal`: `Screen` 2 widths, 7 views, queue of 2, 2 resizes, 2 views on their
  way; `Transcript` 3 frames, 4 windows, bodies of 2 rows, 2 acts of the user, 3
  events in all; `KeyInput` 3 tokens of 22 kinds, and 5 of plain keys and pastes
  about a handoff, with reads of 4 bytes; `InputField` 4 clusters in boxes of 1 or
  3 cells; `Modals` 2 tools, or 2 servers, or one of each with a quit; `Selectors`
  3 themes, 2 filters, 3 lists, 6 keys, and a start with a theme chosen before or none.
- `host`: `Answer` 2 parts of 1 chunk: words that are replaced, cut, or followed by a
  tool result or an error. `PlainOutput` 3 parts, 2 open at once and 2 remembered (512
  in the build), so that the third makes it forget one. `AuthFlow` 1 server, either
  policy; servers share only the end. `Lines` limit 4, reads of 3, 6 bytes: a line ends in the second read, is
  as long as the limit, or longer. `InputPump` 3 writers over a channel of 1 (100
  in the build). `Provider` 4 events and 1 retry. `Request` 6 parts: two steps with
  results and media after each other. `Settings` 3 changes. `Commands` 3 bytes
  against a memory of 2. `Files` 8 first contents, reads of 2 bytes, pages of 3:
  matches across chunks. `SessionFile` 5 parts, 2 runs, files of 4 generations.
  `MCPTokens` 2 requests, 2 tokens, 2 starts, followed for as long as no refresh is
  disturbed (`TokenKept` promises nothing after); `token_refresh` has 3 tokens, since
  its counterexample takes a refresh after a refresh.

`MaxId`, `MaxAnswers`, `MaxActs`, `MaxKeys` and their like only bound the model:
users and servers go on. Deadlock is checked in the session runs, `agent` and
`mcp_client`, where a finished system stutters by an action of its own
(`Finished`, `Rests`, `Terminated`). In `mcpinit` something really can stop
everything (below); in `terminal` and `host` a behaviour ends where its bounds do.

### Fairness

Liveness separates the code's own scheduling from the world.

- `Session!CodeFairness`, `MCInit!CodeFairness`: goroutines that can run do, a
  `select` that is ready again and again takes each ready case in the end (Go
  chooses among ready cases at random: strong fairness), a waiter gets Go's mutex
  in the end, and a request whose context is done returns.
- `WorldFairness` (session, MCP): the provider answers or fails, networks answer or
  time out, asked users answer. It is a premise of the properties that need it.
- `MCAgent`: `TurnFairness` is for the task that outlives run() only;
  `ToolsFairness` is for the goroutines of a step, tools that return, and a stream
  whose context is done. That the model stops talking and the user answers is the
  premise `StepIsAnswered` of the last conjunct of `TasksEnd`.
- `MCPClient!CodeFairness`: the client's goroutines, not the server's. That
  `cmd.Wait` returns is a premise in `CallsEnd`, since it waits for any heir that
  holds stderr.
- `MCPHttp!HttpFairness`: the transport's goroutines go on, and a stream or a wait whose
  context is done comes back; the server owes nothing. `CallsComeBack` is its conjunct
  of `InitEnds`.
- `MCTerminal!ModalsFairness`: ticks repeat, goroutines write, a session that was
  told to quit ends, and a user answers an open dialog and at some tick has none
  open. The strong fairness says that a user does not hold a dialog open for ever.
- `MCHost!PumpFairness`: writers, pump and run() go on, and the adapter closes the
  pipe once run() returned. `CommandsFairness`: the exec package lets pipes go
  after WaitDelay and Wait returns; a child need not stop.

## What the docs say and the code does not

Five disagreements have a run that ends in the behaviour:

- **A steering batch enters the history twice** (`turn_once`). A step that carried
  injected words is cut with nothing to salvage, so it does not land and
  `rec.injected` stays; the continuation's boundary takes the batch into the base;
  when that step fails too, `salvaged()` adds the batch again.
- **After one refresh and a restart nothing says where to refresh** (`token_refresh`):
  the refreshed token is saved without its endpoint, so once it expires requests go
  out with it until the server refuses, where `docs/oauth.md:281` says it is
  refreshed automatically.
- **Delivering "done" can hang the main loop** (`mcpinit_deliver`). `deliverEvent`
  waits for room with the mutex held, and the main loop waits for that mutex in
  `SendAuthCodeResult` instead of reading events.
- **An id that comes after the name is lost** (`id_lost`): the call is recorded and
  run with an empty id, which the comment at `openai.go:710` says was mended.
- **Two submits interleave** (`submit_pieces`): each Cmd is a goroutine that writes
  its frames one at a time into one pipe.

Others were met while modelling. They are in the behaviours of the modules. Three
contradict a promise the terminal's properties are about; the promise is stated in
full beside the property that is checked, which names the one case it leaves out:

- **A resize that brings back the view on screen is not painted.** `Screen.Resize`
  empties the screen's cache to "force a full redraw" (`screen.go:946-950`), but
  `Program.render` returns before it when the view is the one in `lastView`
  (`program.go:618-625`), as after two resizes, out and back, that one signal
  reports; the glass keeps what the terminal's reflow left until the view changes.
  `Screen!ResizeRedraws` is the promise. TLC finds it violated with 2 widths, 2
  resizes and 1 view. `GlassShowsFrame` names the exception and says what is left:
  the view is the one the model shows, and the next other one clears the screen.
- **A read that cuts an Alt chord's character shows.** `consumeEscape` waits for the
  rest of every other sequence, but takes ESC and the first byte of a character of
  several for the whole chord (`key_parser.go:562-564`), and the other bytes come as
  replacement characters; `key_parser.go:18-20` and `program_keys.go:58-63` say that
  a cut is completed by the next read. `KeyInput!CutsAreInvisible` is the promise,
  violated by "alt+han" with 2 tokens; `SaysWhatWasPressed` leaves out only what
  follows such a cut.
- **A late acknowledgement hands the terminal over to two readers.** A loop that has
  seen the flag of one pause sends its acknowledgement after `resumeKeys` cleared the
  flag; the next `pauseKeys` has emptied the channel already, takes it for its own
  answer, and a token lets the loop read (`program_keys.go:133-146, 205-214`, against
  181-185: "belongs to an earlier pause"). `KeyInput!NoReadInFlight` is the promise,
  violated by the burst Ctrl-Z, a, a, Ctrl-Z, Ctrl-Z over a queue of 1;
  `TerminalIsTheChilds` leaves out only a handoff that such an answer granted.

No property forbids the others:

- `:cancel keep_steering` cancels the context before it settles the queue; a task
  that unwinds in between discards the words to be kept (`session_io.go:976-999`,
  against `docs/commands.md:134`).
- A failed `:summarize` leaves the queue, and the queued words start a task, where
  `session_steering.go` says they go with the summarize.
- Words queued after a cancel are spliced into the canceled task when it is between
  a step and the next boundary (against `docs/commands.md:130`).
- A held prompt is refused when the agent cannot be built, in the branch
  `session_io.go:531` calls unreachable.
- The steering segment shows for a moment when nothing waits, and the reverse. With two
  words it may stay wrong: when the second is queued and told between the taking of the
  first and the frame that says so, that frame clears both, the second's own end finds
  nothing counted and is remembered as early, and from then on the next word queued is
  not shown (`session_state.go:186`, against `docs/tui.md:609`). `OneWordReadout` is
  therefore about sessions that have queued one word.
- `runToolCall` may choose the answer when the cancellation is ready too, and
  `write_file` does not look at its context (`docs/tool-execution.md:225`).
- A second authorization answer is sent outside the mutex to a channel whose reader
  has left, and blocks the main loop (`initializer.go:251-259`). `InitCanceled` is
  dropped when the channel is full; the session then calls the user's own skip
  unexpected (`session_loop.go:109`).
- A list_changed notification during the handshake is overwritten by its end. A
  read loop that ends while the process lives on leaves later requests waiting for
  their own timeout; `Send` holds the mutex while it writes, whatever its context.
- A failed refresh, even one that timed out, falls back to the token the program
  started with and writes it over a newer one in memory and on disk; two requests
  that refresh at once do the same. `docs/oauth.md:260` has the flow restart at the
  authorization when the refresh token is refused, but a stored refresh token keeps
  it from starting (`needsPersistedAuth`).
- The comment at `http_transport.go:357` clears a cached token and retries; nothing is
  cleared. The goroutine that watches `done` for an event stream lives until the
  transport closes. `Close` does not interrupt a POST that waits for its headers or
  reads a JSON body, `Client.Close` waits for a GET that waits for its headers, and a
  GET stream started between `OnClose` and `Close` is not closed by it.
- A call whose body read fails before its cancellation is seen returns "stream ended"
  and sends no notification.
- A fork extends its end "until every tool call inside the prefix also has its
  result inside it" (`forkEndIndex`), which fails when a server reuses an id across
  steps, as `docs/internal/data-mapping.md:452` says some do.
- A CI frame written while parts are staged is refused, and the staged parts with it
  (`session_io.go:150-160`).
- A user's medium with a URI OpenAI could not fetch becomes a bare label
  (`openai.go:1055-1057`), which reads as if it came, as `docs/providers.md:116` warns
  for results. A clean end without a terminator closes and runs even a half-streamed
  call.
- Two instances can undo each other's `runtime.conf` between the reading and the
  writing; nothing locks the file (`runtime_manager.go`, against
  `docs/configuration.md:341`).
- `read_file` drops the CR at the end of a line (`read_file.go:383-393`), so text
  copied from its answer is not found by `edit_file`, which asks for just that
  (`edit_file.go:355-356`).
- A command whose child left a heir with its pipes is answered as an error; with
  output, the reason is not said. A large answer whose spool fails says "only its
  first 64KB" even where both streams' 64 KB are shown.
- terseio prints the last text part of the last message, and takes a message to begin
  only at a UF frame: text that was cut and continued after a synthetic "Continue", or
  a text before a mid-task compaction, is printed when the last message has none
  (`terseio/output.go:268`, against `docs/terseio.md`). Its MCP section has a declined
  server's error set exit code 1, where the code takes errors before a task for
  diagnostics; an error of `:mcp_confirm` can end a run with code 1 and the answer
  printed.
- A silent command result makes plainio forget what it printed last, in the middle of
  a line too (`hushed`), and the text that follows runs on after it.
- After a timeout an authorization left to the user has no callback server any more,
  whatever URL the user was shown (`mcpauth.go`).
- The input loop's exit depends on the flag `stopKeys` sets, which its comment
  calls unnecessary (`program_keys.go:223-226`).
- A dialog that a tick opens takes keys typed for the prompt; confirmations of a
  canceled task still pop up; an authorization dialog open when the session becomes
  ready stays. Text from the editor replaces what was typed meanwhile.
- Where `runtime.conf` names no theme, as on the first start, or one that is gone, a
  theme selector that previewed something and is canceled leaves the preview on screen:
  `handleThemeSelectorKeys` looks for a theme of the name in use and finds none
  (`keybinds.go:98-110`, whose comment has the original restored). `NoPreviewStays` is
  about a selector opened while the session's theme is on screen.
- Enter from a selector's filter picks the first row, not the highlighted one;
  `docs/getting-started.md:27` names a key `e` the model selector does not have.
- A resize out and back between two ticks is missed on platforms without a signal;
  a line exactly as wide as the box draws the caret one cell past the text.

## Proofs

Every proof below holds for all values of the module's constants under its one named
assumption, which says no more than that sizes are numbers, the prompts are finitely
many, names stand for different things, and a theme has a name. None of the properties is inductive;
each module conjoins to them what a step relies on, as `IInv` (`HttpInv`, `PumpInv`,
`DialogInv` and the like), and has one step per action.

**`SessionProofs`**: every property of `session_safety`, about `Session` and, for
`OneWordReadout`, its composition with the terminal. `IInv` adds `LoopAgrees`
(run() has stopped exactly when the session is closed, with its context done; an
orderly close leaves no task and no held prompt; run() settles a cancel only while
there is a task) and `CancelClaims` (once a cancel has left its window, `runPc =
"settle"`, the queue is drained; words are `fresh` only in a drained queue; words
found by a cancel do not outlive the handler). The action properties use `NextFate`,
which lists what one step can do to a fate; `QueueEndsTogether` goes through every
action that takes from the queue. `Implements` is the refinement: `NextPromise` maps
each action to a step of `PromptFate` or to a stutter. It needs `IInv`: a submission
is `Begin` only because nothing waits when no task runs. `OneWordIsRead` rests on
`ViewTells`: of one word the terminal's count is what the frames written so far make of
it, which depends on whether run() is about to write "queued" and on which goroutine,
if any, owes the word's end.

**`TurnProofs`**: `HistoriesAgree` and `RequestsAreDue`. They speak of the moments a
task asks, or ends; the proof needs what the task has noted on the way there.
`ToldSoFar`: within the loop the record counts as published all of the history.
`FailureCovers`: at every point where the task could fail, what it would return then
covers its history, saying a part twice at most. Between a mid-task summary and the
words that follow it this is false, and the invariant says why it does no harm: the
task cannot fail there. `AskedSoFar`: where a summary may come, the model was asked
all that the user said. What run() knows once the channel is empty is the value of a
recursive function over the events; `HearsLast` and `HearsFirst` (one event more at
either end) are argued on a least place where two runs differ
(`WellFoundedInduction`'s `WFMin`), which needs no induction principle with an
operator parameter.

**`ToolCallsProofs`**: `RecordIsWhatRan` and `ToolsRunInTurn`, for any calls, any
capacity of the result channel and both drivers. `Places` says where each call is
(queued, run, waiting for room, in the channel, collected) and what that says of
`ran` and `denied`, and that a goroutine waits for room only in a parallel step with
more calls than the channel holds; `Distinct` that no result is there twice, by
counting; `Asked` that a registered confirmation has no answer; `OneByOne` is the order
of the serial driver.

**`DialogProofs`**: `DialogsAgree` and `NoTraceStays` of `Popups`, for any number of
tools, servers and tasks, any themes, filters and model lists, and whatever keys are
pressed. For `Modals` the invariant is `DialogInv`. A handler takes the
terminal and returns it, several calls deep, so the proof is one lemma per handler about
what it returns. `Poised` is what all of them leave: with nothing open the lit pane is
the focused one; the box that waits for a quit is open only in a terminal that quits;
and a dialog counts as opened by a command only while it is open and that command, not
words, is in the prompt. `Ledger`: in each of the two queues of questions the entries
are different, and a question waits there, is in the dialog or was answered (`Shared`);
that is what adds up to one in `AskedOnce`. `Boxed`: once MCP has settled its status does
not say "connecting", so no tick reopens the box after the ready flag closed it.

For `Selectors` it is `SelectorsInv`. `ListsHold`: the highlight is on a row, or on the
first place of a list that shows none; each function that takes a list keeps that, which
is one lemma each, and for `Matching`, a recursive function, the argument is that no
number of rows is the least to leave something that is no list of rows.
`PreviewsHold`: a tick that will still be drawn is of a selector that is open; and while
one opened while the session's theme was on screen is open, the session, the terminal and
the theme to go back to are that theme, and the screen shows it whenever nothing else is
previewed.

**`HostProofs`**: first `SettingsHeld`, for every `model.conf` and any number of
changes. The status bar and the agent agree on name and level (`Agreed`), and both
follow the active model except between saving a switch and making it (`Followed`); a
session with a file keeps the name it was switched to (`MetaIsChosen`), and finds it
again by `FoundIsNamed`, an argument on the least place in the list.

Then `TokenKept`, for any number of requests, tokens and starts. The
strengthening is `Good`: nothing the server takes is lost when every token but this one
is. While nothing is disturbed, the token on disk, in memory and in the hands of each
request is good, or one request alone (`Pending`) carries the newest.

And `InputAccounted`, for any adapter, any number of messages and any
capacity of the channel. `PumpInv` adds `TakenOnce` (the pump reads a frame once, after
those of its entry before it) and `AnswersAsked` (only a command that was read is
answered, and until run() has taken the answer its name is in the table). A part is
found through its box, a message or what is staged; `BoxesMove` says that the order of
the parts survives a step that moves the staged ones as a whole and puts the boxes it
adds empty, which is what every frame but a UX does (`FrameMakes`).

**`AdapterProofs`**: `AdaptersAreTrue`, for any number of parts, chunks and servers.
`AnswerInv` says what the buffer holds at every moment: the text with the ID in
`finalTextID`, as far as it was said, which is the last text unless an error came, and
what Start knows when it took a code. `PlainInv`: how much of each part is printed,
that every part whose deltas are is remembered until it is complete (`AtOnce <= MaxSeen`
is needed here: the oldest of too many is one that is complete, because blocks open
together began together), and that the line holds the part the printer believes it
holds unless it was hushed. `FlowInv` says what each goroutine owes its server.

**`MCPInitProofs`**: `ToldIsSo`, for any configuration and capacity. `Talk` says what
is in the channel ("done" only when every result is in, and nothing but "canceled"
behind it), `Progress` what `run()` has left to do, `Registered` that a server that
asked keeps its channel until it has its answer.

Also `NobodyForgotten`, for any number of HTTP calls. `OneHand`: an entry is
in the table, in one reader's hands, or its channel was closed, and never two of
these. `Told`: who waits is in one of the first two, or told.

**`MCPClientProofs`**: `TableAgrees` and `StaleSticks`, for any callers and any pipe.
`Stages` says that a request not entered has neither channel nor result.

Model-checked only:

- liveness (`session_live`, `TasksEnd`, `InitEnds`, `CallsEnd`, `QuitEnds`,
  `CallsReturn`): liveness under fairness and ENABLED are beyond the prover;
- what recursive definitions compute for every input (`Provider`, `Request`,
  `Commands`, `Files`, `SessionFile`, `KeyInput`, `Lines`): `WireIsTrue`,
  `ToolAnswersAreTrue`, `ForkIsPaired`, `ChangesAreExact`, `LoadIsWhatWasSaved`,
  `KeysAreRead`. Induction over data is beyond it, and `SessionFile` promises what it
  does of the files in `Olds`, which an instance lists. The argument by least
  counterexample that `TurnProofs` and `DialogProofs` use, each for one function, could
  reach the smaller ones; it has not been carried out for them;
- the rest of `terminal`: `PaintIsTrue`, `TranscriptHolds` and `KeysAreRead`, whose
  modules use recursive definitions and folds.

## What is left out of the modules

- `Turn`: token counts (whether to compact is open), the trimming of `:continue`,
  delta frames. `ToolCalls`: duplicate call ids, which `confirmChs` would overwrite.
- `Provider`, `Request`: words, sizes in bytes, the classification of errors.
- `Settings`: the fields of a model beside its name. `SessionFile`: ids are unique in
  a session; nothing interleaves with a save but a crash, since both are run()'s;
  the save in place where a directory takes no temp file.
- `Files`: media, symbolic links; overlapping occurrences of a match. `Commands`:
  Windows, the choice of a shell.
- `Transcript`: words (rows of a window are alike, which is the worst case for the
  comparison of clips); a flush and its flag are one step; a draw reads the buffer
  at once. `InputField`: appearance. `KeyInput`: the table of single keys; bytes that
  wait in the terminal at a handoff stay the program's, where a child could read them;
  `readLoopTimeout` passes only for a loop stuck at a full queue.
- `Modals`: a tick is one step; commands that ask nothing of the session are not in
  the pipe; the error page of the loading screen; the attachment overlay.
- `MCPInit`, `MCPClient`: contents of messages; more than one call beside the
  handshake. `AuthFlow`: a submit reaches the session; a failed one is only printed
  (`mcpauth.go:229-235`).

## Not modelled, and why

The translations of MCP versions, the discovery of an authorization server and the
exchange of its code (`mcp/auth`: one sequence, no shared state), reflection and JSON repair, the
drawing of single windows, styles, Markdown, flags, tables of commands, skills and
themes: data, parsing or pure I/O. `PROJECT.json` has the reason at each component.

## Where to go on

Theorems: `LoadIsWhatWasSaved` of `SessionFile`, whose quoting needs a round-trip lemma by least counterexample. Models: an abstract
transport that `MCPClient` and `MCPHttp` both implement (every request gets its own
answer or an error, once); token calls and transport calls in one module, for the
retry after a 401.
