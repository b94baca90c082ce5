# A verification project for llmconduit

llmconduit is a gateway between LLM clients (OpenAI Responses, Chat
Completions, Anthropic Messages) and a chain of OpenAI-compatible providers. It
translates between the protocols, fails over between providers, runs two tools
itself (web search and image analysis), and records every request for a
dashboard and, if asked to, in a durable capture. The TLA+ modules here model
the stateful core of the gateway. TLC checks them on small instances, and TLAPS
proves the most important results for all values of the constants.

Paths below are relative to the repository's `src/` crate sources
(`engine.rs` is `src/src/engine.rs` in PROJECT.json).

## 1. The system

### Components, their state and their operations

| Component | Source | State | Operations |
|---|---|---|---|
| Failover client | `upstream.rs`, `error.rs` | per provider: cooldown deadline, last error, served and failover counts, failure streak, all shared by every request; per turn: the `ServingInfo` token (provider, model, header stamp, staged error body, attempt trace) | one dispatch round of a chat turn; a raw `/v1/completions` request; mark success, mark failure; `list_models`, `tokenize`, `embeddings` walks |
| Leaf HTTP client | `upstream.rs` | none that is shared | send, shrink and retry on a context overflow, parse the event stream |
| Routing client, model catalog | `upstream.rs`, `engine.rs` | cached catalog behind an async mutex; the engine's cached list of model ids | refresh, name the model of a turn, plan its candidates, resolve a dispatch |
| Provider health and its publisher | `upstream.rs`, `engine.rs` | the published vector | copy the states, read the streaks, publish |
| Flow store | `dashboard_flow.rs` | records, arrival order, response-id index, byte total, watermarks | create, link, stamp, bodies, attempts, finalize, prune, evict |
| Flow lifecycle | `http.rs`, `engine.rs`, `dashboard_flow.rs` | two guards (L0 of the middleware, L1 of the engine), the record's claim, the `AbortHub`, the terminal metrics | open, claim, spawn, end, finalize, count, kill |
| Turn loop | `engine.rs` | messages, round counters, pending repair, tool choice, histories, outcome counters | request, answer, repair, hand off, search, analyse an image, store for replay, complete |
| Tool stream | `adapters/chat_to_responses.rs`, `tool_delta_gate.rs` | the calls collected so far, the gate's buffers and byte counters | delta, end of the stream, flush |
| Turn capture | `turn_capture.rs`, `http.rs`, `upstream.rs` | barrier, per-section sinks and writers, work directory, artifact, registry | open, append, replace, close, reset per attempt, both reports, assembly |
| Replay store | `replay.rs` | bounded map in insertion order | insert, longest matching prefix |
| Monitor hub and debug page | `monitor.rs`, `debug_ui.rs`, `debug_app.js` | bounded transcripts, sequence, broadcast channel; the page's cards | apply an event, trim, expire, broadcast, replay |
| Dashboard socket and page, REST | `dashboard_ws.rs`, `dashboard_api.rs`, `ws.ts` | a cursor per domain on both sides | subscribe, snapshot, forward, tick, lag, close; list, kill |
| Metrics | `metrics.rs` | two windows of recent terminals, each a ring of one-second slots; a ring of snapshots with a byte quota | record a terminal, cut a snapshot through both locks, look a time up |
| Vision | `vision/`, `engine.rs` | per-session image cache with cap and expiry | strip and number, look up and analyse, degrade what is left |
| SSE frame guard | `sse_guard/` | the bytes charged to the open frame, a held-back tail | judge a chunk, judge the end |
| Protocol adapters | `adapters/` | the Anthropic block machine, the chat converter's call indices, the messages a turn sends | convert and lower a history, shape and merge by role, inject, translate events |
| Log rotation | `log_rotation.rs` | the files of earlier processes | sweep at the start of a process |
| Configuration, logs, auth, UI, CLI, wire models, search client | the rest | none, or files | parsing and formatting |

`PROJECT.json` lists every component with what is and what is not modelled.

### How they interact

A request enters `log_api_call` (`http.rs`), which opens a flow record and a
capture and keeps a guard on each. The handler prepares the turn, the engine
takes both over with guards of its own, and a spawned task runs `run_turn`.
Before the spawn the engine names the model from the catalog, asks the routing
client who may serve it, replaces images those backends cannot see, and resumes
the conversation from the replay store; what is new of the history is lowered to
chat messages behind it. Each round of the turn asks the failover client for a
stream; the failover client writes the turn's `ServingInfo` token and the shared
provider states; the leaf writes the capture's upstream sections. Events go to
the client, through the converter of its protocol, over a bounded channel whose
closing is how the turn learns that the client left, while a dashboard kill
arrives through a cancellation token. The response body is teed
into the capture on its way out. When the turn ends, the engine's guard
finalizes the flow, the metrics count it, and the capture is assembled after
both the engine's side and the body's side have reported; what a process that stops leaves
of it on disk, a later one sweeps. Every event of the turn
also goes to the monitor hub, which keeps a transcript and broadcasts it to the
debug page and the dashboard; the dashboard's socket adds two tickers that read
the flow store, the metrics and the published health.

### What is hard here

- *Concurrency over shared provider states*: a failure noticed late meets a
  success that was marked first; a chain is snapshotted and then walked while
  windows open and expire.
- *Ownership handed over by guards*: middleware, engine and task end in any
  order, by return, by `Drop` on a hang-up, or by unwinding.
- *Retries over recorded state*: every retry has to undo what the attempt it
  supersedes has written into the token and the capture.
- *Two kinds of cancellation* at every wait of a turn, racing its normal end.
- *Bounded structures*: record cap, byte quota, expiry, buffers, channels.
- *Caches that are read twice*: the catalog by the image gate and by the
  dispatch, the replay store before and after the model's name is resolved.
- *Views built from parts*: a page is a snapshot and the frames after it, each
  read under another lock and numbered by another counter.
- *Long protocols*: tool rounds of three kinds in one turn, each with its own
  ceiling, and a history that must stay well-formed throughout.
- *Clocks*: a wall clock that may be stepped, cooldowns that expire in silence.

The `hazards` of `PROJECT.json` list each of these at the line where it bites,
with the properties that would notice it going wrong.

## 2. The modules

| Module | Models | Role |
|---|---|---|
| `Failover` | failover client, leaf outcomes | detailed specification |
| `TurnService` | what the failover client promises a turn | abstract specification of `Failover` |
| `ModelRouting` | routing client, catalog, the engine's naming and image gate | detailed specification |
| `ProviderHealth` | health snapshot and publisher | extends `Failover` |
| `FlowStore` | flow store | operations as functions of a store; `StoreSpec` runs them in any order |
| `FlowLifecycle` | guards, kill, task, metrics | composes concurrent flows over `FlowStore` |
| `MetricsLayer` | the metrics' windows, the snapshot task and its ring | extends `FlowStore` |
| `FlowLedger` | what the dashboard and metrics are promised | abstract specification of `FlowLifecycle` |
| `MonitorHub`, `DebugFeed` | the hub; its debug socket and page | `DebugFeed` composes the two |
| `DashboardFeed` | dashboard socket and page over hub, store, metrics, topology | detailed specification |
| `TurnCapture` | turn capture | detailed specification |
| `CaptureFiles` | the captures' files over several processes, the sweep of `log_rotation.rs` | detailed specification |
| `Conversation` | replay store, image agent and image cache, over the turns of several clients | detailed specification |
| `TurnLoop` | `run_turn` and its tools | detailed specification |
| `ToolStream` | tool-call deltas and the gate | detailed specification of one answer |
| `Lowering` | the histories of the three routes on their way to the upstream, role policies, injected rounds | detailed specification |
| `SseGuard` | the limit on the frames of an upstream's answer | detailed specification of one answer |
| `Egress` | the events of a turn and the two streaming converters | detailed specification |
| `Picks` | filters of a sequence by the places that are kept | used by `FlowStore`, `ModelRouting`, `TurnLoop`, `Conversation`, `Egress` |
| `DispatchProofs` | theorems about `Failover`, `ProviderHealth`, `ModelRouting` | |
| `FlowProofs` | theorems about `FlowStore` and `FlowLifecycle` | |
| `MetricsProofs` | theorems about `MetricsLayer` | |
| `TurnProofs` | theorems about `TurnLoop` and `ToolStream` | |
| `CaptureProofs` | theorems about `TurnCapture` and `CaptureFiles` | |
| `ConversationProofs` | theorems about `Conversation` and `Egress` | |
| `DashboardFeedProofs` | theorems about `DashboardFeed` | |
| `PicksProofs` | lemmas about `Picks` and about sequences, cited by the others | |
| `MC*` | | instances for TLC |

### Failover and TurnService

A chat turn is a sequence of dispatch rounds over one token, because the engine
dispatches again after each batch of server tools. `BeginRound` takes the
snapshot of available providers (`plan`), `TakeNext` and `Send` are one
iteration of the loop, and the outcomes of the leaf are actions: `SendFails`,
`HttpFails`, `ContextOverflow` (the shrunk retry inside the same attempt),
`OverflowPersists`, `HeadersSucceed`, `PrefetchFails`, `FirstChunk`,
`StreamEnds`, `StreamFails`. `pc` values are the suspension points at which
another task can run. Computing a cooldown deadline (`Fail`) and marking it
under the lock (`Mark`) are two steps, as in the code. `ProxyStep` is the
raw-completions walk, which has no token.

Time is a count of remaining ticks: a deadline is in the future iff its window
is positive, and `Tick` lowers all pending ones together, including the deadline
that a task has computed and not yet stored.

`TurnService` knows rounds, who serves them and to whom the turn is attributed,
and nothing of failures or cooldowns. `ImplementsService` maps a turn's `pc` to
its phase.

### ModelRouting

Names are classes of spelling: `Key` is `canonical_model_key`, `Remap` what a
profile makes of a name. `RoutingModelCatalog` is computed from the vector of the
upstreams' answers (`CatalogOf` and the operators before it), so that one list
may fail while the others hold. Three ladders resolve a name, as in the code:
`Normalize` for the engine, `PlanFor` for the image gate, `Resolve` for the
dispatch. `refresh` is the routing client's async mutex together with the
answers its holder has got so far; the others wait. The engine's cache of ids is
filled from the first and ages on its own, so the two lifetimes stack: a model
may be named by a list that is up to twice the lifetime old. An upstream that
failed while others answered stays missing for the whole lifetime; a refresh in
which all failed is not cached, so the requests that waited for it retry one
after another.

Who may serve is computed twice, as in the code: `ChainPlan` and `PlanFor` are the
two `backend_candidate_plan`s, `Tried`, `SentTo` and `Servers` what a dispatch
walks and sends. Between the two the routing lock is free: the catalog expires,
another request loads it again, hangs up in the middle or fails at it, and each
round of a turn resolves anew. `ServerWasJudged` says that none of this makes an
unjudged backend serve; only an upstream that changes what it lists after the
plan's catalog was asked for can, and `image_gate` shows that it does. To say so
the model keeps, beside a refresh, a catalog and a plan, how many such changes
there had been when the refresh began (`since`); no guard reads it.

### ProviderHealth

`CopyStates` and `Publish` are the two lock holds of
`provider_health_with_route`: deadlines and errors are copied under the lock,
the streaks are read later. The copy runs down with the clock (`HTick`). The
publisher is the task that wakes each second or at the next deadline.

### FlowStore, FlowLifecycle and FlowLedger

A store is a record (`recs`, `order`, `links`, `bytes`, `seq`). Each operation
of `DashboardFlowStore` is an operator from store to store that prunes, changes
one record and evicts, in the order of the code. In `FlowLifecycle` every lock
hold is one action, so that claim, link, registration of the token, finalization,
removal of the token and the metrics can be interleaved with other flows, a kill,
an eviction and a client that leaves. `ending.explicit` tells an explicit
`finalize` from a `Drop`.

`StoreNext` calls the operations in any order, but the phases of one flow are
stamped in the order in which the engine reaches them (`InOrder`): which phase a
turn is in is not the store's doing.

`FlowLedger` says what an observer sees: a flow is open, then has one terminal
status, then may be evicted for good, and is counted once.

### MetricsLayer

A slot of a window stands for one second and is reused after a whole lap of its
ring. Everything it adds up is written in one lock hold, so a slot is the set of
the turns counted in it: two counts agree iff the sets do. `FinalizeTurn`,
`SampleSecond` and `RecordTerminal` are the path of a terminal from the flow
store to the metrics: the store's lock, the second read before the other lock,
the metrics' lock. `ListFlows` to `PushCut` are the snapshot task, which takes
the metrics' lock inside the store's, releases the store's after it has read the
clock, and computes the windows under the metrics' lock. `SnapshotAt` is the
binary search of the time query, `Pushed` the eviction by count and by bytes;
`moments` observes the stamps of all cuts, those already evicted included.

Three things bound this part: its clock only goes forward (the store alone is
also run with a clock that is stepped back), no turn waits for the metrics' lock
while a whole ring goes round, and two cuts are never taken at the same moment.
Without the first, the binary search meets stamps out of order (see section 5).

### MonitorHub and DebugFeed

`Emit` in `MonitorHub` is `emit_with` under its lock: expire old records, find or
start the record, append text, events and payload previews (`Apply`), trim, and
number the update. The broadcast is a step of its own, and redacts URIs message by
message before it sends (`RedactAll`, `redact_ws_message_image_uris`). Text is a
sequence of character classes, because the hub turns an escaped newline into a
newline across chunk borders (a backslash is held back until the next chunk), and
because a URI is found by its prefix, which a delta may cut. `DebugFeed` adds the
socket (subscribe, replay, forward what is above the snapshot's number, start
over after a lag) and the page's folding of messages into cards.

A live update redacts one delta, a snapshot the joined text of a segment. A URI
that goes on in the next delta therefore comes out differently on a page that
followed the updates, as the comment at `monitor.rs` 510-514 says: "only partially
matched in the per-chunk live message". The same holds of a text that was trimmed,
since the page trims what was redacted and the hub what was not. `RedactedAlike`
says that neither has happened, and `PageShowsRecords` compares texts under it
alone; events, status, usage and the presence of a record are compared always.
URIs have one prefix of two characters and one delimiter, the newline; the words
that replace one may be longer or shorter than it. Summaries, previews, model
names and errors are redacted too, but told whole in one message both ways, and
are not in the model. `EveryCharacterIsTold` is about the messages before they are
redacted, and leaves out newlines, of which the hub adds some of its own.

### DashboardFeed

The turn's side is reduced to what the stores and the hub see, in the order of
`engine.rs`: for instance `TellCompleted` before the record is finalized and
`TellFailed` after. The socket subscribes first, then reads each store under a
lock of its own, then sends one snapshot; afterwards it forwards the hub's
updates and two tickers. The page keeps a cursor per domain and drops what is not
above it. `heard` observes the page, `overtaken` that the hub has
broadcast against its numbers (see `dropped_update`).

### TurnCapture

Three sections stream to disk: the request (replaced by each send), the
response (begun anew by each dispatch attempt) and the served body. Each has a
sink, a bounded queue, a replace slot and a writer with its own steps. The
engine's side and the served side report to the barrier; the assembly closes the
request, resolves the response, waits for the writers, evicts, removes the work
directory and publishes, each as a step of its own. `last` is an observer
variable: what the last attempt received, as seen from outside the capture.
Turns share only the registry, which is keyed by turn, so one turn is modelled.

Left out: the inbound section (written and closed before the handler runs), the
detached writers of superseded sections (nothing reads them), a redaction task
that fails to join at shutdown, and the escaping of contents.

### CaptureFiles

The same assembly again, with less of what is in it and more of what can go
wrong around it: several turns, processes that stop between any two steps
(`Stop`), calls to the file system that fail, and the sweep that a later process
starts if it is configured to. A file is the time of its last change: 0 is no
file, and a work directory is as young as the youngest file in it
(`newest_mtime`). `sweep.stuck` observes what the sweep could not remove.
`CaptureFilesSound` has three parts: an artifact that is visible is complete
wherever a process stopped, a sweep takes nothing of a living turn, and after a
sweep nothing past the age is left that could be removed. The second rests on
when sweeps run, at the start of a process only, and on a clock that is not set
back by more than the age while a turn lives; the model's clock never is, and a
sweep reads it in the hour of the start. Left out: a machine that stops with
unsynced writes, request-log dumps (aged like artifacts), and section writers
that still hold a file of a removed directory, which they cannot make anew.

### Conversation

Clients resend their whole history with each request. `PassThrough`,
`WithoutAgent` and `ActivateImageAgent` are the three ways a request's images
go; the residual pass (`Swept`) ends the last two in the same step, since there
is no wait between. `LookUp` is the longest-prefix lookup, `Analyze` one round
of `analyzeImage` against the turn's session, `Answer` the end of `run_turn`
where the record is inserted, `TellAnswer` the client's receipt of it, `GiveUp`
every end without one. A record's key is the tuple that is hashed. `told` is
what the upstream is sent: the visible history with the analyses the client
never sees (`Look`) in between, and `base` how much of it was resumed.

A finished turn's session stays in memory until a later call sweeps it after its
lifetime; nothing can ask for it, so the model drops it with the turn. An image
shown in an earlier message and asked about in a later one without an image is
degraded, not analysed, and such a turn is neither resumed nor recorded: that is
the code's rule (only the newest message activates the agent), and it is in the
model.

### Lowering

One client's history is kept as it sees it (`transcript`, messages of numbered
pieces), and `messages` is what the engine's `current_messages` holds for it.
`Converted` is `convert_message` of the request's route: a chat message becomes
reasoning, one message and calls, in that order; an Anthropic message keeps the
order of its blocks and holds text until another block comes; a Responses client
sends items. `LowerItem` folds the items behind the baseline as
`lower_request_with_image_agent_and_roles` does: reasoning waits for the
assistant's next message or call and becomes a message of its own before anyone
else speaks, and calls join the assistant's last message unless reasoning came in
between. Then either the leading system messages become one, or the role policy
shapes what is new (`Assigned`: first rule that fits, failing closed) and merges
it (`Merged`). `AddRepair`, `AddHiddenTool` and `AddSearch` are the messages a
round pushes, each through `push_shaped`, with the merge before the next send.
`AnswerTurn` keeps the record of a stored turn; only Responses requests are
stored, so only they resume, and since a record may have been evicted a request
resumes or not as it happens.

`HistoryArrives` holds for every client the module has. `AnswersFollowCalls` is
said of clients that put their calls last and return no image but as the last
result of a batch (`Orderly`), because the gateway keeps the client's order:
thinking between calls parts them over two messages of the assistant, and an
image in a result, which becomes a message of the user, stands before the next
result. Tags are markers before a text; what they say is not modelled, nor are
errors of malformed items.

### TurnLoop

`messages` is the history the upstream is sent: an assistant message names the
calls it makes, a tool message the call it answers. `public`, `output` and
`wire` are the three places that must agree: `public_history`,
`response_output` and the `output_item.done` events. Calls are of four kinds:
the client's tools, search, image analysis, and names nobody offered. `Again`
is the repair round of a tainted batch, `Exhaust` its end; `HandOff`,
`RunSearch` and `RunImage` are the branches of `handle_tool_calls`;
`ServerToolsRan` bumps the independent counters and tests the ceilings.
`Cancel` is enabled at every wait, for a hang-up as for a kill.

Left out: the role policy of a profile, under which `push_shaped` may rewrite or
drop an injected message and adjacent messages may be merged; usage sums;
reasoning items, which travel with the message.

### ToolStream

The upstream may send a call's arguments before its name. `Arguments` is
`apply_tool_call_delta` with the gate's decision in one step (no wait lies
between): hold, overflow, drop or forward. `Nameless`, `Malformed`, `Tainted`
and `Clean` are the ways `finalize` and `run_turn` treat the finished answer,
`Flush` is `flush_pending_client_tool`. A fragment is known by its call and
place, so loss, duplication and reordering show. Assumed of the upstream: two
calls of an answer have different ids, and a call has one name, perhaps
repeated. Sizes count bytes, so the two caps can be reached with small numbers.

### SseGuard

`Scan` is `scan_frames_since_boundary`: it charges the bytes between two blank
lines to a frame, and holds back a tail that may become part of a blank line
with the next chunk. A byte is a CR, an LF or another. The reference is stated of the
whole answer at once (`Blank`, `TooLong`): the verdict at the end is the
reference's, and an answer is given up before its end iff nothing that may
follow could save it. The floor under the configured cap is left out, so that
small answers exceed it.

### Egress

`run_turn`'s events of several rounds drive both converters. `Convert` is one
step of `AnthropicStreamConverter`: the open block, the calls whose blocks were
closed, the buffered reasoning and its signature. `ConvertChat` is
`ChatCompletionStreamConverter` with its map from call to index. The loop of
`http.rs` over the events of one step is the function `After`; the calls of an
answer are numbered by their index, from 1. `told` observes
what the engine has said; a delta is known by its number, so loss, duplication
and reordering show. Two facts of the code that the properties are worded
around: a content block is never opened again, so for an Anthropic client a call
that streams among others keeps the fragments that came before its block was
closed and loses the rest (`CallsArriveWhole`, the second half of
`NothingSaidIsLost`, exempts the calls that `crossed`);
and a turn that vanishes without a terminal event (the task panics) is finished
by `finalize` as a clean end. Refusal deltas change nothing in either converter
and are left out.

## 3. The runs

Components that share no state are checked in one run: a variable of the MC
module (`part`, `view`, `stage`) picks at the start which of them the
behaviour is one of, and the others stand still in one of their initial states.
The states of such a run are the sum of the parts', not their product.

| Run | Asks | Bounds and why they are enough |
|---|---|---|
| `dispatch` | Is the upstream told the whole history once and in order, in messages its template takes; do cooldowns, trace, attribution and staged body agree, do turns implement `TurnService`; do the three ladders agree, is whoever serves, in any round, one of those the images were judged by? | Chain: a chat turn and a proxy request, two providers, two rounds, a window of one tick. Messages: five pieces, which hold a batch of two calls with its results or a call, its result and a second turn; one injected round; the three routes; the policies of the repository's README for GLM, Qwen and Gemma, the merging one of its tests and one that drops a role. Two providers have a first and a last of the chain; a second round shows what a round inherits; the proxy is the concurrent writer. Routing: two inbound requests, so that one waits for the other's refresh or finds its result stale; two upstreams that list, fail or list something else; an alias that differs by case; an exact and a spelling-tolerant route. |
| `operator_view` | Is what is published as unhealthy explained, does an idle cooldown get published as over; does the dashboard's page hear everything, are failures shown, does it catch up? | Two chat turns at one provider, threshold 2: cooling and down are both reached. Two flows, two events, a channel of one update (every lag), two sockets (a reconnection), one change of the topology. |
| `flows` | Does exactly one guard finalize, does the hub hold exactly the live tokens, and is `FlowLedger` implemented? | Two flows in a store of two records and three bytes: either can push out the other. |
| `turn_ends` | Do killed turns end; is the artifact honest, final, published last, and always evicted? | One flow of two rounds. Two sends, two chunks, one frame, channels of one: a retry, a partial stream, a full channel. |
| `stores` | Is the flow store sound whatever the calls; is a snapshot one instant of store and metrics, do the windows tell the last seconds, does a time query find its cut; does a debug page show what the hub holds, and is every character of the deltas told; do the captures' files survive crashes whole, and residues not survive a sweep? | Three names for two records and three bytes, so the cap and the quota are both exceeded by single calls; six changes; a clock that is stepped among three values, records that expire. Windows of two and three seconds over a clock of four values, so that both rings are lapped; two turns, four cuts of which three fit. Two responses, one record, five characters, a channel of two, four events: trimming, eviction, expiry, a lag and a replay; deltas that hold a whole prefix of a URI, end or begin with half of one, or end the URI. Two turns, an age of one hour over three hours, so that a residue of the first hour is past it in the third; three processes, so that one sweeps what another's sweep failed to remove. |
| `turn` | Do images stay away from text-only backends, are analyses of the right image, is a resumed history told once; do all mixtures of tool rounds end with a well-formed history and nothing internal shown; is an answer given up iff one of its frames is too long; do hidden calls stay hidden; is what the client hears well formed and complete? | Two clients, one of two turns and one of one; two images, two ways to send them; a session of one image and a store of one record, so that both evict. Two calls in an answer, one repair, ceilings of two for both server tools. Answers of seven bytes in chunks of up to four with a cap of three: a frame over the cap, with every way to cut a blank line. Three calls of two fragments of size 1 or 2, caps 2 and 3. A turn of two rounds, two calls, two deltas of each kind, on both surfaces. |

Six runs show where the code does something else than the repository says:

| Run | What is said | What happens |
|---|---|---|
| `envelope_cools` | `error.rs` 23-24: a `FailoverNoCooldown` provider "must not enter cooldown" | An error envelope inside the event stream takes an arm that penalizes without reading the disposition. |
| `image_gate` | `engine.rs` 1296-1297: the gate is "the TRUE choke point" for raw images; `upstream.rs` 450-451: the plan "can never disagree with the provider that serves" | Plan and dispatch each load the catalog. It may expire between them, the owner's list may fail, and the fallback that then serves was never judged. |
| `dropped_update` | `dashboard_ws.rs` 513-521: "the monitor broadcast is strictly ordered" | Updates are numbered under the hub's lock and sent after it; two turns' updates can pass each other, and the page drops the smaller number. |
| `discarded_surfaced` | `tests/gateway.rs` 12018: neither tool of a tainted batch is "handed off / surfaced"; `engine.rs` 2670-2672: "The whole batch is discarded" | A valid call that names its tool first is forwarded as it streams, before a later call taints the batch. The test covers the order in which the name comes last. |
| `leaked_search` | `responses_to_anthropic/mod.rs` 328-332: a web search's block "would leak it, flip the turn to `tool_use`" | Fragments held until the name came are flushed without a name, and the converter swallows by the name in the event: the search opens a `tool_use` block. |
| `alias_forgotten` | `tests/gateway.rs` 1375, 1465: a continued conversation is resumed with the hidden tool result | The record is stored under the resolved model and looked up under the client's name for it: whoever asks by an alias, a profile, a route or another case never resumes. The test asks by the served name. |

Three more divergences were seen while modelling and have no run of their own.
The repository's README.md 327-329 says that under its policy for Qwen3.5 "the
index-0 message stays system, so Qwen never sees a non-first system", but
`assign_roles` counts from the first new message: in a resumed turn a system or
developer message that begins what is new is the "leading" one and stays a
system message in the middle of the history. `SystemLeads` therefore speaks of
turns that tell their history afresh.
`upstream.rs` 1766-1767 says that deadline and streak of the health snapshot
"both come from this single consistent read", but the streak is read (1784)
after the lock was released, and a success in between publishes a cooling
provider without failures; `ProviderHealth` has the two reads, and
`UnhealthyHasError` is about what does come from one lock hold. `engine.rs`
797-800 says terminal metrics fire "exactly once per flow", but a guard that is
dropped (client gone before the spawn, panic) finalizes the record without them
(`dashboard_flow.rs` 1994-2004); `FlowLifecycle` has both ends, and
`CountedOnce` claims at most once for a drop.

Each property of the passing runs has a mutant in `PROJECT.json`: a plausible
mistake in the modelled code that the run notices. The mutated operators stand
beside the originals in the modules (for instance `RepairAnswersRejected` beside
`Repair`) and are used by no specification.

**Symmetry and view.** Flows (`flows`, `stores`), response ids and captured turns
(`stores`, where a behaviour is one part and the names of all parts are exchanged
at once), inbound requests (`dispatch`) and images (`turn`) are interchangeable: no definition compares them, and these
runs check no liveness. `flows` is explored under a view without record sequence
numbers: nothing in `FlowLifecycle` or its properties reads one.

**Deadlock** is off where requests come to an end and the instance stops
(`dispatch`, `operator_view`, `flows`, `turn_ends`) or a bound stops the calls
(`stores`). The five parts of `turn` have an explicit last step that stutters
(`Over`, `ReadingIsOver`, `AnswerOver`, `Told`, `TalkIsOver`), so that run checks that nothing
gets stuck before its end.

### Liveness and fairness

- `IdleTurnsHealthy` (`operator_view`): weak fairness of the clock and of the
  publisher's two steps. Time passes, and the publisher is a loop in a task of
  its own with no wait but its timer and short locks. Requests get no fairness.
- `PageCatchesUp` (`operator_view`): weak fairness of the broadcast that follows
  an emitted event and of the second half of a tick; strong fairness of
  receiving, of noticing a lag and of the two tickers, since the socket's
  `select!` is biased to its channel and comes to each branch again and again
  without any being enabled throughout. The property is about a page that stays
  connected; whether a page reconnects is the browser's business.
- `KilledEnds` (`turn_ends`): weak fairness of `TaskStep`, the steps of a
  spawned task. The runtime schedules spawned tasks, and all their waits select
  on the kill token or are short locks. The claim is limited to spawned turns:
  before the spawn, some waits of the handler ignore the token.
- `CaptureIsEvicted` (`turn_ends`): weak fairness of writers, middleware, body,
  engine and assembly. `Engine` includes "the upstream answers or the client
  leaves": no deadline in the code covers the wait for response headers, so an
  upstream that is silent for ever under a client that waits for ever keeps the
  turn open, by design.

In the combined runs each part's fairness is stated of the behaviours of that
part (`HealthRuns`, `FeedRuns`, `FlowRuns`, `CaptureRuns`).

No liveness is claimed of the catalog's refresh: its list requests have a connect
timeout and no other, so one silent upstream holds the mutex for as long as it
is silent.

## 4. The theorems

All theorems hold for every value of the constants that satisfies the named
assumptions of the modules: any number of requests, providers, flows and
clients, any ceilings, caps, quotas and batch sizes. The assumptions
(`FailoverAssumption`, `HealthAssumption`, `RoutingAssumption`,
`StoreAssumption`, `LifecycleAssumption`, `MetricsAssumption`,
`CaptureAssumption`, `CaptureFilesAssumption`, `ConversationAssumption`,
`TurnLoopAssumption`, `ToolStreamAssumption`, `SseAssumption`,
`DashboardFeedAssumption`, `EgressAssumption`) are
typing, plus what the code's constants or its configuration guarantee (a cap is
positive, a set of flows is finite); TLC evaluates each of them in a run.

An invariant that a run checks is seldom inductive; each theorem below names the
strengthening it rests on.

### Failover, health, routing (`DispatchProofs`)

| Theorem | Says | Argument |
|---|---|---|
| `TypesCorrect` | `Failover`'s types, and a suspended request stands at a provider of the chain | `TypeInv`: `TypeOK` alone is not inductive, since indexing the chain by `cur` needs that an attempting request has a current provider |
| `CoolingExplained` | a window has a streak, a streak has an error | `CoolingHasCause` itself, with `TypeInv`; the stale deadline of `Mark` is why the streak must be bumped in the same lock hold |
| `RejectionsAreFree` | turning a request down costs no provider anything | by the action that writes the trace |
| `BodyCommitted` | the staged body belongs to the last attempt | `BodyInv`: says for every suspension point whether a body may be staged, because `CommittedBodyIsFinal` speaks of finished turns only |
| `TracesOrdered` | the attempt trace walks the chain forwards | `WalkInv`: relates the last entry to the providers still planned, so that the next entry is later in the chain |
| `FailoverImplementsService` | `Failover` implements `TurnService` | one lemma per group of actions: a service step or a stutter |
| `HealthExplained` | who is published as unhealthy has an error to show | the copy is taken in one lock hold from a pool that satisfies `CoolingHasCause`, and what is published was copied |
| `LaddersMatch` | the three ladders agree on one catalog | `CatalogInv`: every catalog in use was computed by `CatalogOf`, so its candidates are a sequence of targets and its first match is the head of its plan |
| `ServersAreJudged` | whoever serves any round was judged by the image gate, unless an upstream changed what it lists after the plan's catalog was asked for | `TurnsInv`: a plan no change came after is that of what the upstreams offer now. It needs `SinceInv`: a catalog that is fresh, and the answers a refresh has so far, are at least as new as every plan, and are what is offered if nothing changed since. That a dispatch walks none but the planned is `ServersPlanned` |

### Flow store and lifecycle (`FlowProofs`)

| Theorem | Says | Argument |
|---|---|---|
| `StoreKept` | order, index, byte total, cap and quota of the store hold after every call | `Sound`. Inside an operation only a weaker agreement of records and order holds, the byte total may be stale and the limits exceeded; each operation ends by restoring them. The eviction takes the least number of records that brings the store under its quota, which exists because an empty store is under it; that the order counts each record once is a bijection between its places and the records |
| `FlowKept` | the lifecycle's inductive invariant | `FlowInv`: of each flow, `Owned` (at most one of the two guards may still finalize, and which), `Told` (what its record says at each place), `Counts` (what the metrics have got) |
| `RecordsClose` | no record is left open by a flow that is over | `Told` of `FlowInv` |
| `TokensAreLive` | the hub holds exactly the tokens of live guards | part of `FlowInv` |
| `TurnsCountOnce` | a finalized flow is counted once, a dropped one at most once | `Counts` of `FlowInv` |
| `LedgerIsKept` | `FlowLifecycle` implements `FlowLedger` | under `FlowInv`, every action is a step of the ledger for one flow or a stutter, and an eviction a step of those evicted |

### Metrics (`MetricsProofs`)

| Theorem | Says | Argument |
|---|---|---|
| `WindowsRight` | each window tells the turns counted in its last seconds | `Rings` (with `Times`): a slot holds all turns counted in its second, and a turn no longer in its slot was pushed out by a later lap; two seconds of one slot are at least a lap apart |
| `CutsRight` | a snapshot is one instant of store and metrics | `Cuts` (with `Records`): what each stage of the snapshot has established under the locks it holds; an open record belongs to a turn under way, so no turn of an open row is counted. The operations of the flow store are shown to change only the status they are told to |
| `TimesAreAnswered` | the cuts fit the ring's limits, and a time query finds the newest of all cuts not later than the time, or says that none is kept from that early | `History`: the ring holds the newest of all cuts, their stamps increase, and the cut under way will be later than them. The binary search is a recursive function: that it is defined (`SearchExists`) and what it finds (`SearchFinds`) go by induction on the width of the interval |

### Capture (`CaptureProofs`)

| Theorem | Says | Argument |
|---|---|---|
| `ArtifactIsTheLastAttempts` | a published artifact tells the last attempt, or says that it is partial | `CaptureInv`. `ResponseInv`: what is written and what waits in the queue are together what the attempt has received; `RequestInv` and `ServedInv` say the same of the other two sections; `AttemptInv` ties the engine's flags to the attempt; `SidesInv` orders the two reports and the assembly |
| `ArtifactIsFinal` | a served section not marked partial is the whole body, and an artifact is visible only when both sides have reported, no dispatch is under way and the registry has forgotten the turn | `EndInv` of `CaptureInv`: the sections are closed before the build, and the registry forgets the turn before the artifact is visible |
| `FilesAreSound` | a visible artifact is complete wherever a process stopped, a sweep takes nothing that is alive and leaves nothing that is old | `FilesInv`. `Kept`: the files of a living capture were touched since this process, and so its sweep, began; hence nothing living is past the age. `Swept`: what the sweep has visited and left is stuck |

### Conversations and converters (`ConversationProofs`)

| Theorem | Says | Argument |
|---|---|---|
| `TextReadersSeeText` | no raw image is sent to a backend without vision | `TalkInv`: the input of such a turn has none once prepared, and what it is told, less the analyses, is that input |
| `LooksStayAtHome` | an analysis is of the image that bears the number in the same request | `TurnHolds`: the session of a turn holds under each number the image of the request that bears it |
| `HistoryToldWhole` | a resumed turn tells its history once, whole and in order | `RecordHolds`: a record's telling, less the analyses, is the history it is found by; what follows the resumed part is the rest of the input. A filter of a concatenation, by induction on the length (`TailIsTold`) |
| `EgressInvariant` | the inductive invariant of a turn's events and both converters | `EgressInv`, in three parts. `CallsKnown`: what `run_turn` has made of its calls at each of its places; no fragment of a call is sent before its round, and a call is handed off only once the answer is over. `AnthropicKnows`: only the last block may be open, the texts shown are the texts told, the thoughts shown with those in the buffer are the thoughts told early, and a call has at most one block, which holds all that was sent while it is open and a beginning of it once another block closed it. `ChatKnows`: a call has one entry, with all that was sent. An event changes what is told and what is shown together, so each is followed through both |
| `StreamConformsHolds` | blocks open and close in turn, a stream ends once, with a stop reason that fits what was shown | the shape of a message in `AnthropicKnows` and `ChatKnows`; that a client call was handed off is remembered by a block of that kind |
| `NothingSaidIsLostHolds` | texts and early thoughts arrive whole and in order, a call handed off is one call with its arguments | `EgressInv`. The loop over the events of a step and what the blocks show together are recursive functions, defined by induction on the length (`TakesExists`, `ShowsExists`) |

### Turns (`TurnProofs`)

| Theorem | Says | Argument |
|---|---|---|
| `TurnIsBounded` | a turn sends at most `RepairCeiling + SearchLimit + ImageCeiling - 1` requests | `RequestsPaid`: every request but the first is paid by a counted round; a clean batch without client tools contains a search or an image call |
| `ForcedChoiceOnce` | a forced tool choice is sent once | once a request was sent, every way back to sending relaxes the choice |
| `RepairCountsHold` | outcome counters tell how the turn went | a repair round is either pending or counted, and none is pending past a clean answer |
| `InternalsStayInside` | nothing of a discarded batch, and no image call, is shown as an item | `SurfaceInv`: where an item may come from at each place of the loop; client items are shown only where the loop can no longer go on |
| `CallsAreAnswered` | in the history that is sent, every call has one answer and every answer a call before it | `AnswersInv`: while a batch runs, the calls without an answer are those still to be handled; what each kind of round appends is shown to answer what it asks |
| `ReplayIsWhatWasSeen` | the replayed history, the response's output and the stream tell the same | `ReplayInv`: the three are always equal. `Settled`: when the loop is over, the calls asked and not answered are those shown and not answered; before that, they are what the batch under way has still to answer |
| `HiddenNeverSent` | the gate leaks no hidden fragment | `GateInv`: when the flush begins no call of the answer is unoffered |
| `VisibleIsWhole` | a visible call's fragments arrive whole, once and in order | `WholeInv`: what was sent of a call, with what the gate still holds of it, are its fragments so far, as a filter of all fragments by their places |
| `VerdictHolds` | the guard gives an answer up iff a frame of it is, or must become, too long; however it is cut into chunks | `SseInv`: a guard that has not given up knows where the frame it is in begins, and holds back what may yet be blank (`Kept`); one that has saw bytes that no continuation can mend (`Doomed`). Whether a byte belongs to a blank line is seen from its neighbours (`BlankIs`). The loop over the frames of a chunk is a recursive function: `FramesExist` and `FramesJudged` go by induction on the bytes that are left |

### Dashboard (`DashboardFeedProofs`)

| Theorem | Says | Argument |
|---|---|---|
| `PageMissesNothing` | unless two updates overtook each other, the page hears every update that its snapshot does not cover | `FeedInv`: updates are numbered once, the queue holds them in turn, the page's cursors are behind what is yet to come, and an update that is not covered was heard, waits, or is yet to be sent |
| `FailuresReachThePage` | a turn that failed is shown as failed or an update that says so is to come | `Told` of `FeedInv` |

### What is only model-checked

- All liveness (`IdleTurnsHealthy`, `PageCatchesUp`, `KilledEnds`,
  `CaptureIsEvicted`) and `ENABLED`: out of the prover's reach.
- The debug page, and the lowering. The latter is written with `FoldLeft`, and
  the module that defines it states no facts a proof could cite. Induction itself
  is not the obstacle: stated of a set of numbers (`NatSets` in `PicksProofs`) it is
  within reach, only the library's induction theorems, which take an operator,
  are not; the loops of `Egress` are therefore recursive functions.
- The attributions of `Failover` that are not listed above.

Two remarks for whoever continues. `tlapm` 1.4.5 expands an `@` wrongly when it
stands inside an `EXCEPT` whose base is itself an `@`
(`[f EXCEPT ![c] = [@ EXCEPT !.n = @ + 1]]`); no module has that form. Filters are
written with `Picked` where a proof speaks of them, because `SelectSeq` is
defined by a recursion that the provers do not unfold.

## 5. What is not modelled

Tools, sampling parameters, prompt templates, configuration and formatting are
data transformations without shared state; of payloads only the histories are
modelled. Durations are not modelled, only the order
of deadlines. Left out, with the reason:

- The walks of `tokenize` and `embeddings`, and the attempt record of a gateway
  with one provider and no failover layer (`upstream.rs` 1236-1293): the chat
  walk without a token. Those of `list_models` and `count_tokens` change nothing.
- How long a request may take: its deadline covers each dispatch anew
  (`upstream.rs` 1357), and one provider's headers have none of their own.
- What a slot of the metrics adds up (tokens, histograms, tallies per provider),
  and `record_response` and `record_usage`, which only tests call. Seen there:
  cuts are said to be "pushed in monotonic `taken_at_ms` order" (911-914), which
  a wall clock that is stepped back breaks, and with it the binary search.
- The analysis of a request log (`request_log.rs`), which reads a file once and
  prints.
- Authentication, embedded assets, the search client, the frontend but for the
  folding of messages and frames: stateless.
- Two conversations whose texts and answers agree but whose images differ share
  a replay record, because numbered placeholders are the same text for any
  image. The behaviour is in `Conversation`; no property rules it out, since no
  statement of the repository does (it avoids the like for degraded images,
  `engine.rs` 1330-1334).

## 6. The plan

Done, in this order: failover and health (shared state under concurrency), the
flow store and lifecycle (ownership), the capture (retries over recorded state),
the turn loop and tool stream (long protocols), the hub and the two feeds
(views), the converters, routing, conversations, the metrics and their cut
against the flow store, the frame guard, the messages a turn sends, the captures'
files over crashes.

Proved: the safety invariants and action properties of failover, health,
routing, the flow store, the lifecycle with its refinement of `FlowLedger`, the
metrics, the capture and its files, conversations, the turn loop, the tool
stream, the frame guard, the two converters and the dashboard's feed (section 4).

To prove next, each into the proof module of the run it is checked with: the
debug page (`PageShowsRecords`), along the lines of `PageMissesNothing`; then the
lowering, once its folds are recursive functions as the loops of `Egress` are.

## 7. Running it

    tlc -workers 2 -config MCTurn.cfg MCTurn
    tlapm TurnProofs.tla

`PROJECT.json` pairs every run with its module and configuration. The passing
runs take between half a minute and three minutes each, the proofs about 40 minutes
together.
