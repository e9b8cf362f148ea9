# airgate-sdk in TLA+

A verification project for the Go SDK through which AirGate's Core runs its
plugins: TLA+ modules translated from the source, TLC configurations that check
them on small instances, and TLAPS proofs that hold for every value of the
constants. Paths below are relative to the repository root, `src/`.

## 1. Inventory

Core and a plugin are two processes connected by gRPC (hashicorp/go-plugin).
`runtimego/grpc` holds both ends: `*_client.go` runs in Core, `*_server.go` in
the plugin. `sdkgo` is what plugin authors use, `devkit` a small stand-in for
Core.

| Component | State | Operations | What is hard | What makes it correct |
|---|---|---|---|---|
| streaming Forward (`gateway_server.go`, `gateway_client.go`) | the `streamWriter` (header, completion tail, sticky error), messages in flight, the downstream response | Write, WriteHeader, BeginStreamCompletion, Send, Recv, downstream Write, return | chunk boundaries in the held back tail, failing Sends, short writes, a client that leaves on the terminal event | ordered delivery; success means complete; the outcome reaches Core no later than the last terminal byte; both sides end |
| unary Forward (same files) | `bufferWriter` with a budget | Write, Forward | the budget cancels the call from inside a write | the error wins over the verdict |
| WebSocket bridge (`gateway_client.go`, `ws_server.go`) | two goroutines, an AfterFunc callback, one connection, two stream directions | connect, read, write, close, cancel, join | three closers, a join on a possibly blocked goroutine, cancellation by four parties | closed once, with the right code; reader joined; cleanup ends |
| runtime state (`sdkgo/runtime_state.go`; Host: `devkit/testhost/state.go`) | versioned entry; each call's last read | Get, CompareAndSwap, Update, Store, Take, Delete | races between processes, lost replies, versions that return to 0 | no lost or doubled update; one-shot values taken once |
| development proxy (`devkit/devserver/{proxy,scheduler,accounts}.go`) | accounts and their file, round robin counter, cooldowns, one record per request | handleHTTP's loop, WebSocket sessions, Select, ReportResult, account and policy API, restart | stale selections, failover of a response that has begun, read-modify-write of an account | no account twice, one response, distinct IDs, fair shares |
| request trace (`sdkgo/requesttrace`) | captures, exchanges, bounded bodies, SSE observer | Start, Exchange, record, Finish, Snapshot, Write of the observer | records race Finish and eviction; fields split across reads | bounded, nothing kept after Finish, an honest snapshot, the last event found |
| client caches (`gateway_client.go`, `common.go`) | cached metadata of a plugin | Info, Platform, Models, Routes, InvalidateCache | a fetch that started before an invalidation | no answer older than the last invalidation is cached |
| plugin lifecycle and calls (`common.go`, `plugin_server.go`, `context.go`, `runtime.go`, `go_plugin.go`) | contexts and their lazily dialled Host, the calls in flight on both sides | Init, Start, Stop, UpdateConfig, HealthCheck, GetSchema, runtime operations, Host, launch and crash of the process | a plugin that hangs, a call that times out while its handler goes on, optional interfaces, refusals inside a successful RPC | success is reported only for work that was done; one dial per context; calls with a deadline return |
| extension server (`extension_server.go`, `extension_router.go`) | `streamResponseWriter`, route map, table of background tasks | Handle, Group, match, HandleRequest, HandleStreamRequest, GetBackgroundTasks, RunBackgroundTask, ProcessTask | mid-stream failure; a map walked in random order; a table read and replaced in separate critical sections, empty after a restart | the most specific route runs; headers once and first, a final chunk exactly on success; a declared task is found |
| messages (conversions in `runtimego/grpc`, types in `sdkgo`): plugin info, models, routes, dispatch, outcomes, usage, events, middleware, schema, Host calls, tasks, configuration, request ID | none | one conversion per message and direction | some 200 fields copied by hand; unset against zero; milliseconds; JSON numbers; defaults | the receiver has what the sender set, but for what the format cannot hold |
| declarations (`sdkgo/account_plan.go`, `capability.go`) | none | NormalizeAccountPlans, ValidateCapabilities | keys that differ only in underscores, matches that normalise to nothing, two credential keys, capabilities unknown or closed to a type | what Core keeps is unambiguous and complete, normalising it again changes nothing, and each capability is in the list that fits |
| development server shell, log formatting, theme, go-plugin handshake | none the others read | flags, wiring, static files, formatting | - | not modelled, see section 7 |

Interactions: Core calls the plugin with Forward, HandleWebSocket, HandleRequest;
the plugin calls Core back through the Host (runtime state, events). A Forward or
HandleWebSocket ends by a verdict (`sdkgo/outcome.go`) on which Core, or the
development proxy in its place, decides billing and failover.

`PROJECT.json` lists every hazard at its line, with the properties that watch it
or the reason none does.

## 2. Modules and plan

Written:

1. `ForwardStream` with its abstract specification `ResponseContract`, and
   `ForwardStreamProofs`.
2. `WebSocketBridge` and `WebSocketBridgeProofs`.
3. `RuntimeState` with its abstract specification `AtomicState`, and
   `RuntimeStateProofs`.
4. `DevProxy`, which composes AccountStore, Scheduler and ProxyHandler, and
   `DevProxyProofs`.
5. `RequestTrace`, the captures with their exchanges; `EventObserver`, the SSE line
   parser inside an exchange, checked against a reference definition;
   `RequestTraceProofs`, which extends both.
6. `ClientCache`: metadata fetches racing InvalidateCache.
7. `ExtensionRouter`, the routes of an extension plugin, and `PluginResponses`, which
   composes it with unary Forward and the extension server's two response paths;
   `PluginResponsesProofs`.
8. `PluginProcess`: Core's unary calls into a plugin process that may hang, crash and
   be launched again; the contexts of Init with their Host; background tasks;
   `PluginProcessProofs`.
9. `Values`, pointers, lists and structs; `WireFormat`, the conversions of every message;
   `Declarations`, what Core makes of account plans and capabilities; `PluginBoundary`,
   which composes them: a value is sent, received and then used;
   `PluginBoundaryProofs`.

Each `MC*` module instantiates the module it is named after; `ClientCache`
has plain constants and needs none. Next:

10. Type invariants as theorems where the present theorems need none; what `ClientCache`
    does guarantee of a call that begins after the cache has been dropped.

## 3. How the modules correspond to the code

`PROJECT.json` maps every definition to its lines; this is the outline.

**ForwardStream.** `code, wroteHeader, sent, completing, completionTail, swErr` are
the fields of `streamWriter`, `data` and `sendBytes` the locals of a Write in
progress, `pc` the place of the `ForwardStream` handler; `wire` and `broken` are
the RPC; `cpc, chunk, responseStarted, status, delivered, result` belong to
`forwardStream` and the downstream response. An action is one call of the plugin,
one Send, one Recv or one downstream write. Bytes are named by their position, so
that loss, repetition and reordering show; payload, headers and the outcome's
wording are abstracted, its kind, usage, scope, reason and whether it fits a
message are kept. Send blocks when `Window` messages are in flight; a failed Send
may or may not have arrived. `ResponseContract` knows only an ordered stream and a
verdict.

**WebSocketBridge.** `mpc` is HandleWebSocket's own goroutine (the receiver), `rpc`
the reader, `afterFunc` the callback, `ppc` the plugin's handler. `stopReader`'s
four statements are four steps, because the others run between them. `cancelledBy`
records who ended the context; `closedWith` and `closes` what happened to the
connection.

**RuntimeState.** One key. A value is the sequence of the updates applied to it. A
request is executed atomically by the Host and its reply may be lost (`Fails`).
`changes`, `since`, `applied` and `taken` are history variables. The store is the
repository's own stand-in for the Host, `testhost.State`; expiry is external.

**DevProxy.** `accounts, nextID, file` are the AccountStore, `policy, pinnedID,
counter, cooldown` the Scheduler, `req` the requests inside `handleHTTP`. An action
is one critical section or one Forward. Time is abstract: a cooldown lasts until
`CooldownExpires`. `HandleWebSocket` is a session: it selects one account and neither
reports a verdict nor fails over. `Slots` are the entries of the expanded
list and `Nth` its order; the round robin's uint64 counter is a number without a width,
since 2^64 selections are out of reach.

**RequestTrace.** Each call of the plugin to its upstream is an actor with a program
counter; `Finish` and the `Snapshot` inside it are another. A step is one critical
section of the capture's, the exchange's, a body's or the observer's lock. A body is
the bytes kept and the bytes seen. The list of exchanges is `MaxRequests` long and
evicts the second oldest, as `record` does; the observer of an exchange is reduced to
the length of what it holds, `EventObserver` says what that is. A call that evicts an
exchange during a snapshot blanks it there as well; `HonestSnapshot` exempts it.

**EventObserver.** The response is a sequence of tokens (`CR`, `LF`, the field name
`data:`, a space, `[DONE]`, anything else) that count as one byte each, so that every
division into reads is tried and the limits are reached with short inputs. `Read` hands
bytes to `write`, which keeps its lock until `rest` is empty; a step is one round of its
loop: `SwallowLF` is the `continue`, `KeepChunk` the early return without a line end,
`CompleteLine` the rest. `input` is the history of all bytes consumed. The reference looks
at the whole of it at once and says by positions, without a parser, which bytes end a
line, which lines are blank, which bytes are data and which event is the last to be kept.

**ClientCache.** An answer is the number of updates the plugin had seen when it gave
it. Lookup, fetch and store are three steps, since no lock is held between them;
`InvalidateCache` is two, since the info has a lock of its own.

**ExtensionRouter.** `handlers` is the map, `registered` the calls of `Handle` in order. A
path is a sequence of characters. `Match` tries the exact key; each `Visit` is one pass
of the loop over the map, in any order, and `best` its two locals.

**PluginResponses.** One call in one of three modes; a request is matched first. `BufferWrite` is
`bufferWriter.Write`, `StreamWrite` and `SendChunk` the beginning and one pass of
`streamResponseWriter.Write`. Bytes are named by position, as in `ForwardStream`. A
plugin may ignore every error Write returns. Headers either fit the message or do
not.

**PluginProcess.** Each goroutine of Core has a client side (`client`, `method`, the
answer on its way in `reply`) and a handler in the plugin (`server`, `done`). They are
separate because a deadline ends the first and not the second. `Interface`,
`WithoutInterface`, `OnFailure` and `Result` are the tables the handlers and clients
implement: which optional interface a handler asks for, what it answers without it or
after an error, and what the client makes of that answer. `Registered` and `Offered`
are the services of a plugin as its process and as Core see them; a gateway that
processes tasks is served by `gatewayTaskAdapter`. `once`, `dials` and `host` are
`hostOnce` and the connection of each context. `taskMap` is the table of background
tasks, which `ReadTasks` reads from the plugin and `StoreTasks` replaces under the lock.

**WireFormat.** A struct is a function from its field names; a pointer is a sequence, nil
or with the one element it points at (`Values`), so that a list and a pointer are
converted alike. In the run the opaque values are the field's name or `Zero`; a field
that is not opaque (headers, durations, status codes, JSON payloads, optional amounts)
has values the conversion can tell apart. Each
conversion is a definition named after the Go function. A duration is a number of
which `PerMs` make a millisecond, `int32` has `2 * Half` values, and a JSON payload
maps its keys to types, so that an integer comes back as a float and a function cannot
be encoded.

**PluginBoundary.** `IsValue` says which values the SDK's types let a kind of message
have: the fields of each struct, which are lists, maps or pointers, and that a status
code is HTTP's or zero. `Send` encodes a value of some kind, `Receive` decodes it; `Report`
passes a received verdict's usage on to a middleware plugin, `Admit` validates what the
plugin declared. `Expected` says what may change on the way without using the
conversions.

**Declarations.** `NormalizeAccountPlans` over texts given with their trimmed and
squashed forms; `ValidateCapabilities` over the table of capabilities and plugin types.

## 4. Runs

| Run | Instance | What it shows |
|---|---|---|
| `forward_stream` | chunk of 2 bytes, window 2, 3 writes, 5 bytes, 5 plugin verdicts | ordered, complete, bounded delivery; terminal bytes carry the outcome; silence after a failed Send; both sides end; refinement of `ResponseContract` |
| `websocket_bridge` | 2 messages each way, window 1, close codes 0 and 1011 | one close, close code kept, reader joined, verdict after delivery, cleanup always completes |
| `runtime_state` | 2 clients, 2 calls each, budget 2 | atomic updates, effect once, honest contention, exclusive Take, refinement of `AtomicState` |
| `dev_proxy` | 2 requests, accounts of weight 2 and 0, 2 management calls or restarts | no account twice, one response, distinct IDs, deletions final, fair shares |
| `request_trace` | 3 calls of different kinds, 2 kept exchanges, bodies of 2 bytes of which 1 is kept | nothing kept after Finish, first and latest exchanges kept, snapshot within budget and honest, Finish returns |
| `event_observer` | 7 bytes, reads of up to 2, events of up to 4 | the observer has the last event of the response, within its limits |
| `plugin_responses` | budget 3, chunks of 2, 4 calls of the writer, 6 bytes; 3 routes out of 6, 2 requests | a request runs the handler of the most specific route; a buffered answer is whole or an error; a stream is an ordered prefix, whole when marked done, silent after an error |
| `plugin_process` | 2 goroutines of Core, 4 plugins (two gateways, an extension, a middleware), 2 contexts, 1 crash, lists of one and of two tasks | success means done, one dial per context, declared tasks found, calls with a deadline return |
| `wire_format` | 24 kinds of message; every struct with no field, all, one, or all but one field set | messages arrive unchanged but for what the format cannot hold; the account plans Core keeps are unambiguous and can match; each capability is in the list that fits |
| `websocket_outcome` | 1 message each way | violated, see section 6 |
| `replay` | 1 request | violated, see section 6 |
| `stale_cache` | 2 callers, 1 update | violated, see section 6 |

Why the bounds are enough. In `forward_stream` five bytes over chunks of two give
Writes shorter than, equal to and longer than a chunk, tails that are empty, partial
and full, and a tail that mixes old and new bytes; the proofs remove the bound. In
`websocket_bridge` a window of one makes every Send block sooner or later, and two
messages show order. In `runtime_state` two clients with two calls can exhaust a
budget of two against each other and let the version return to 0 between a read
and a swap; the proofs remove the bounds. In `dev_proxy` the third account ID is
the one a creation or a restart gives out; `MaxOps` of two, which WebSocket sessions
share, allows a delete inside a setWeight. Requests are interchangeable there and the properties treat them alike,
hence the symmetry set. In `request_trace` three calls overfill a list of two, so an
exchange is evicted while another records and a third still reads. In
`event_observer` seven tokens hold an event of two data lines that just fits, each
with its line end split by some division into reads, a line that is too long, and an event
after a terminator; that an event cut by its limit leaves the next one whole takes more
bytes, and is proved. In
`plugin_responses` six bytes in four writes pass both the budget and a chunk, with a
short write after a refused one; two requests and a group give nested patterns, an
exact route beside a pattern, another method, and a key registered twice. In `plugin_process` two contexts let a second Init run
beside one that timed out, two goroutines race for one Host and one table, and the
four plugins between them implement and leave out every optional interface. In
`wire_format` a conversion that forgets or swaps a field is seen by the struct that
sets only it or all others; ten ticks to the millisecond give remainders on both sides
of zero; three capabilities out of five, among them the bare prefix `host.invoke.` and a
misspelt name, are declared by each type of plugin and by one without a type.

`CHECK_DEADLOCK FALSE` is used where the system may stop: all calls made
(`runtime_state`), all requests answered (`dev_proxy`), Finish returned and every call
over (`request_trace`, `event_observer`), the call answered (`plugin_responses`). In
`plugin_process` and `wire_format` deadlock is checked: there is always another call.

Fairness. `FairSpec` of `ForwardStream` and `WebSocketBridge` gives weak fairness to
the steps a goroutine takes by itself, since Go's scheduler runs every runnable
goroutine, and to a blocked Send, Recv or Read returning once its context is done
or the connection closed, which gRPC and the connection interface guarantee. In
`ForwardStream` the plugin is assumed to return from Forward in the end. Nothing
makes a client send, read or disconnect, and no failure is ever forced.
`CleanupCompletes` therefore starts from a cancelled context or a receiver that has
begun to stop. In `RequestTrace` the step that takes an observer's lock during
release has strong fairness: readers take and give back the same lock all the time,
and `sync.Mutex` hands it to a waiter after a millisecond (its starvation mode). In
`PluginProcess` only the deadline of a call with one of its own is certain to pass
(`withTimeout`); no method of a plugin is assumed to return.

## 5. Proofs

`ForwardStreamProofs` proves every invariant of `forward_stream` and the action
property, for all chunk sizes, windows, byte counts, writes and verdicts, from
`StreamAssumption` alone. None of them is inductive. The invariant `IInv` says where
every byte is: the client has a prefix (`ClientInv`), the messages on the wire
continue it without a gap (`WireInv`), a healthy writer goes on where the wire ends
(`JoinInv`), and tail and data continue the writer (`WriterInv`). `FinalInv` says
that a message with a verdict ends the response, `TailInv` that after the
announcement no other message carries the last byte. `TerminalBytesCarryOutcome`
follows from `TailInv`, `CompleteOnSuccess` from `FinalInv` with `WireInv`.

`RuntimeStateProofs` proves every property of `runtime_state`, the refinement
included, from `RuntimeStateAssumption`. `Fresh` says that no version lies ahead of
the Host's sequence; `SameVersion` that a client whose version is the entry's also
holds its value, which survives a removal because version 0 always stands for the
absent value. `ChangesSeen` counts one change of the entry for each failed attempt.
The refinement maps an accepted cas to `Update` or `Store`, a removal to `Remove`,
everything else to a stutter.

That `ForwardStream` implements `ResponseContract` rests on `IInv` as well: `Write`
offers bytes, a downstream write delivers, concludes or aborts, and every other step,
the plugin's announcement included, leaves the contract's variables alone. That a
conclusion comes with every byte is `CompleteOnSuccess` in the state after it.

`WebSocketBridgeProofs` (from `BridgeAssumption`) has an invariant of three parts:
`CloseInv` says who can have closed the connection, by who cancelled the context, which
is what `ClosedOnce` lacks; `ReaderInv` where the reader is while the receiver runs;
`DownInv` that the messages on their way to Core continue what the client has, without
a gap, up to the plugin's CLOSE frame.

`PluginProcessProofs` (from `ProcessAssumption`): `CallInv` follows an answer from its
handler to the client that reads it, also when the client has gone and the next call of
the same goroutine has begun; `HostInv` says that one handler at a time is inside
`initHost` of a context and nothing is known of the Host before it ends; `TaskInv` that
the table is empty or a list the plugin gave.

`PluginResponsesProofs` (from `ResponsesAssumption` and `RouterAssumption`): `MatchInv`
says that `match` holds the best of the keys it has passed, in any order of the map;
`BufferInv` that a `bufferWriter` without an error holds all that was written;
`StreamInv` that what Core has, with what the current Write still has to send, is.

`DevProxyProofs` (from `DevProxyAssumption`) keeps the store and the requests apart:
`StoreInv` says that all IDs, those of deleted accounts included, lie below the next
one, and that the file is the store, so that a restart changes neither; `RequestInv` is
about one request and assumes nothing of the accounts it is given. `WeightedShare` needs
only distinct IDs and a counter that is not negative: ordering the slots numbers them
without a gap (`NthBijection`), a turn of the counter meets every number once
(`TurnBijection`), so the values that select an account correspond to its slots.

`RequestTraceProofs` (from `TraceAssumption`) has three independent parts. `KeepInv`
compares the exchanges index by index with all that were published. `HoldInv` says
where every byte can be: an open exchange is in the capture, or some goroutine still
has to release it, and it refers to every buffer that holds something or may come to; a
buffer of a released one is closed, about to be, or empty and out of reach. Without the
references, a call that sends while its exchange is evicted could leave bytes behind.
`SnapInv` says that before Finish releases the capture only evicted calls are closed, and
that the copy Snapshot works on refers to the body that is being sent.

The same module proves what the SSE observer does, from `ObserverAssumption` (the limit is
a positive number). `Bounded` needs only `KeptInv`: a line and data that would pass the
limit are dropped, and the data kept are whole lines, so an event is shorter than they are.
`EventIsLast` needs the meaning of every field. `Leaves` gives it: the line under way is what
follows the last line end, the data are those after the last blank line, and they are
skipped exactly when a line since then, or their sum, is too long. That one further byte
keeps this is an argument about positions. Bytes that come later change nothing before
them (`PrefixLines`, `DataPrefix`, `EventPrefix`); a line end adds one position to the
breaks (`AppendPrefix`), the value of its line to the data (`DataOfLine`, on `DataGrows`:
counting a larger set goes on where the smaller one ends), and, on a blank line, one
candidate for the last event (`LastEventNew`). `FinishIs` shows that the end of the body
leaves the event that two more line ends would. No induction is needed, since the reference
is not recursive.

`PluginBoundaryProofs` (from `WireAssumption`, `DeclarationsAssumption` and
`BoundaryAssumption`) has a lemma for each pair of conversions: what `fromProto` makes of
`toProto` of a value of the type is the value, without the remainder of a duration, with
JSON's one kind of number, without the fields the protocol leaves out. They compose as the
structs do, up to `RoundTrip`, which holds for every kind and takes the place of induction:
values nest to a fixed depth. The invariant adds the history: `Crossing` says that the
message is the encoding of a value of its kind, and that it failed exactly when there is no
message; `Carried` that what is passed on to a middleware plugin has the usage of the verdict
it comes from; `Admission` that Core judges the declarations as they were sent, which
needs `RoundTrip` for the plugin's information. `AdmissionIsSound` states what each list
holds against what the plugin sent. A plan that is kept (`KeptPlan`) has a well-formed key
that no reserved word can be confused with, a known mode, the declared matches, and in mode
`normalized_contains` only matches with a letter or a digit; a capability is effective,
unknown or denied by its name and the plugin's type, written out and not looked up in the
tables the code uses (`CapabilitiesAreSound`). The proof rests on lemmas about lists: `Pick`
keeps the order, `Distinct` the first of each element and loses none (`FirstOccurrence`), a
sorted list of a set has each member once. `PlanFinished` shows that completing a completed
plan changes nothing, hence that normalising again does not.

The assumptions on text say what Go's `strings` and `regexp` guarantee: trimming twice is
trimming once, the blank text and the plan type the code fills in are trimmed, a blank key
is not well formed, the order of capabilities has no ties, and
`middleware.read_body` does not begin with `host.invoke.`.

Only model-checked, and why:

- Liveness (`CallEnds`, `CleanupCompletes`, `FinishEnds`, `TimedCallsEnd`) is outside
  the prover's reach.
- `ClientCache` and the three refuted properties of section 6.

## 6. Findings

Three runs state what the repository says of the code and TLC refutes it.

- `OutcomeReturned`: `sdkgo/gateway.go:54` says HandleWebSocket returns the outcome
  after the connection has ended. When the client disconnects, the reader's deferred
  `cancel()` (`gateway_client.go:266`) ends the RPC before the plugin can send its
  RESULT, so Core gets an error and no verdict.
- `ReplayForbidden`: `sdkgo/outcome.go:39` says an aborted stream cannot be failed
  over and `sdkgo/outcome.go:115` that the terminal scope forbids replay.
  `IsRetryable` (`scheduler.go:140`) returns true for every error, and without an
  error asks only the kind; `forwardStream` returns an aborted, terminal verdict with an
  error when a write to the client fails.
- `NextCallFetchesAgain`: `gateway_client.go:26` says that after InvalidateCache the
  next call fetches again. A fetch that began before it stores its answer after it
  (`gateway_client.go:73`), and the next call gets that.

Smaller disagreements met while modelling, which need no run to see:

- `proxy.go:136` reports that all accounts failed; the loop stops at the first account
  the round robin repeats (`proxy.go:69`), so others may not have been tried.
- `extension_client.go:69` says that the first chunk has status and headers. Only
  `Write` sends them, so a response without a body has one chunk with neither
  (`extension_server.go:255`).
- `sdkgo/task.go:57` calls HostTask the complete information about a task; ProcessTask
  fills in four of its fields (`extension_server.go:282`).
- The comment of `middleware_server.go` says that the client turns errors of the RPC
  into a warning; `middleware_client.go:17` says, and the code shows, that it does not.
- `logging_interceptor.go:92` says that the derived logger carries the request's ID;
  `WithRequestID` (`sdkgo/log.go`) stores the ID in the context and leaves the logger.

## 7. Not modelled

- The development server's shell (`server.go`: flags, wiring, static files), the
  format and output of log records, the theme and the development pages have no state
  that another part reads.
- The go-plugin handshake and broker, and protobuf's encoding to bytes, are libraries.
  Of the generated code only the services' methods are modelled.
- Routes registered while the plugin serves: a Group shares the map of its parent with
  a mutex of its own (`extension_router.go:31`), which is safe because RegisterRoutes
  runs before the plugin serves.
- `save` of the development accounts is one step, so a crash inside `os.WriteFile` is
  not covered. A call that has timed out before its handler began is taken as never
  handled.
- Of the development proxy, the 400 answer when the client's body cannot be read
  (`proxy.go:41`): it ends the request before an account is tried. The policy is read in
  the same step as the accounts the scheduler chooses among. Of the extension router,
  handlers that are nil (`extension_router.go:44`), and of the catalog calls that they
  too refill the client's caches (`catalog.go:13`), one more way to the stale read that
  is found without them.
- Calls that only their caller's context bounds, such as `MigrateContext`: they add no
  deadline, so nothing bounds them but that caller.
- In the modelled parts the contents of headers and bodies, prices, log lines and
  wall-clock time are abstracted.
