# Formal models of providerapi

providerapi is a local gateway: it accepts OpenAI-style chat requests over HTTP,
hands them to plugin processes over JSON-RPC on Unix sockets, and relays their
streams as server-sent events, while it records every request in SQLite. This
directory holds TLA+ models of its concurrent core and of its life across
restarts, the TLC instances that check them and the theorems TLAPS proves about
them. Paths below are relative to
`src/`; `PROJECT.json` gives the lines every definition stands for.

## 1. The system

| Component | State | Operations | What makes it correct |
|---|---|---|---|
| Plugin instance, streams (`internal/plugin/runtime.go`) | `in.streams`, `in.pending`, `in.conn`, `in.stopped` under `in.mu`; one channel per stream | `Stream`, the handle's `Cancel`, `onNotify`, `closeStream`, `failActiveStreams`, the reset in `Start` | events arrive in order and once; a channel is closed once; a stream ends, and ends as a success only after a terminal event; nothing is left in the maps |
| Plugin instance, processes (same file) | `in.cmd`, `in.conn`, `in.Healthy`, `in.lastError`, the socket file | `Start`, `watch`, `healthLoop`, `Stop`, `kill` | one process at a time, always supervised; none after `Stop`; a crashed plugin comes back; health does not lie for ever |
| Plugin manager (same file) | map of instances | `StartAll`, `StopAll`, `Get`, `List` | a serving gateway has an instance for every model it routes; instances are independent |
| JSON-RPC connection (`internal/jsonrpc`) | `nextID`, `pending`, `closed`, `closeCh`, `mu` | `Call`, `Serve`, `dispatch`, `Notify`, `Close` | a reply reaches its own call; every abandoned call returns; no entry is left; one close |
| Plugin SDK (`sdk/plugin/server.go`) | `s.streams` with cancel functions, the audit emitter | `handle`, `forwardStream`, `notify`, `ListenAndServe`, `WaitSocket` | one answer, events of accepted streams only, none after the end; a cancel finds its stream; audits come before what they document |
| Chat completions (`internal/api/openai.go`) | locals of a handler: `streamErr`, `usage`, what it wrote | `chatCompletions`, `handleStream` | a well-formed answer; row, counter and client agree |
| Trace session and service (`internal/trace`) | `sess.seq`, the request row, events, trace files | `Start`, `event`, `ProviderAudit`, `StreamMeta`, `Finish`, `RetentionLoop`, `LoadFull` | an outcome once stored stays; events are numbered apart and in order; a stored success has its whole trace; what is old vanishes, also after a crash |
| SQLite store (`internal/store`) | tables `requests`, `request_events`, `plugins` | `Open` with its migration, `UpsertRequest`, `InsertEvent`, `DeleteExpired`, `GetRequest`, `ListEvents`, `Close` | no event outlives its request; a row says what became of it |
| Application (`internal/app`) | the server, the manager, the store | `Serve`, `New`, `Run`, `Shutdown`, `Close` | it serves only when complete; the store closes after the last `Finish` |
| Configuration, model routing, reasoning (`internal/config`, `internal/model`, `internal/protocol/reasoning.go`) | none (pure) | defaults, validation, `Resolve`, level priority | no accepted file leads to a request without an instance; documented priorities |
| Redaction, summaries (`internal/redact`, `internal/trace/summary.go`) | none (pure) | tree walks | no secret survives |
| OpenAI-compatible plugin (`plugins/openai-compat`) | one upstream response per stream | `Complete`, `Stream`: SSE lines to events, audits | a body that was cut is never told as a finished answer; a stream ends |
| Admin API (`internal/api/admin.go`) | none | `getRequest`: the row, its events, its trace file | an answer about a successful request is whole |
| Mock plugin, health and models, other admin reads and the console, metrics, ids, file permissions, command line | little or none | reads, formatting, one-shot I/O | |

**Interactions.** A chat handler opens a trace session (row `started`), routes
the model, and calls `Complete` or `Stream` on an instance. Those are JSON-RPC
calls on the instance's current connection. The plugin answers and then, or even
before, notifies events. The connection's reader (`Conn.Serve`) starts a
goroutine per reply but runs notifications inline, so `onNotify` can block the
reader on one stream's full channel. Two more goroutines touch the same maps:
the crash watcher (`watch` → `failActiveStreams` → `Start`) and `Stop`. The
handler ranges over the channel, writes SSE, finishes the row and counts. Beside
the handlers the retention loop deletes what is old from the same store and
directory, and the administrator reads both. On a signal `App.Run` calls
`Shutdown` with a deadline, closes the store, and stops the plugins; when the
process dies, the next one starts on whatever the store and the directory hold.

**What is hard.** Events that overtake the reply; a reader shared by all streams
that blocks on one; a channel that four parties may close (terminal event,
cancel, watcher, Stop); a restart that replaces the maps while a `Stream` call is
between its reply and its critical section; a cancel that waits for an answer
behind a blocked reader; abandoned calls and late replies; health written from
an answer that predates the crash; Stop racing a restart; error events that are
not the last; a shutdown that does not wait; a death between two statements; a
sweep between a request's writes. `PROJECT.json` lists each hazard with its line.

## 2. Modules

`StreamDelivery` is the abstract specification everything meets at: what the
runtime promises an HTTP handler about one stream. `InstanceStreams` is checked,
and proved, to implement it (property `Promised`), and `ChatRequest` uses it as the
environment of its handlers: each of its steps on a stream is one of
`StreamDelivery`'s. The two large modules are thus joined without ever being
multiplied. `PluginPromise` is the same kind of joint on the plugin's side: what
the gateway relies on in a plugin process, the plugin's steps of `InstanceStreams`
without their bounds; `PluginStream` is checked, and proved, to implement it
(`KeepsPromise`). `AuditTrail` takes the order in which a plugin says things from
`PluginStream` and follows it into the store. `Gateway` sees the same requests
from the store's side over several lives of the process: a handler there is its
writes only, which `ChatRequest` and `AuditTrail` detail, and it routes with the
operators of `ModelRouting`. The other two are self-contained: `JsonRpc`
justifies what `InstanceStreams` takes for granted about its calls (a reply
reaches its call, an abandoned call returns), `PluginLifecycle` what it takes for
granted about processes. That is `Supervision`: calls go to one process at a
time, the next is connected only after the one before has died, its watcher has
noticed and nobody has called Stop, each death is answered by at most one restart,
and only a restart that Stop met may keep a process. `PluginLifecycle` is checked,
and proved, to implement it (`Supervises`), and the process steps of
`InstanceStreams` are proved to be steps of it (`ProcessesSupervised`).

| Module | Models | Abstracted away |
|---|---|---|
| `StreamDelivery` | the promise: order, no loss without a fault, one end, after a terminal event unless a fault or the client cut it short | how it is kept |
| `InstanceStreams` | streams of one instance, its reader, canceller, watcher and Stop, with the plugin's end of the socket | payloads (an event is its position), process details (`PluginLifecycle`), the request/reply protocol (`JsonRpc`), audit notifications |
| `InstanceStreams_proofs` | theorems | |
| `Supervision` | how the processes of an instance follow one another, as its streams see it: crash, watcher, restart, Stop | the steps of Start and of kill, the socket file, health |
| `JsonRpc` | one connection, bounded sockets both ways, both ends | method names, JSON |
| `JsonRpc_proofs` | theorems | |
| `PluginLifecycle` | processes, socket file, Start, watch, healthLoop, Stop, kill of one instance | the streams (`InstanceStreams`) |
| `PluginLifecycle_proofs` | theorems | |
| `PluginPromise` | what the gateway may assume of a plugin process | how it is kept |
| `PluginStream` | the SDK server and the openai-compat producer for each stream: request, producer, `forwardStream`, cancel, and the upstream's body | the contents of chunks (their kinds), `Conn.mu` (`JsonRpc`) |
| `PluginStream_proofs` | theorems | |
| `AuditTrail` | trace sessions, the audit handlers of `onNotify`, events, rows and trace files | what is in a payload (which provider parts it has), crashes (`InstanceStreams`), shutdown (`ChatRequest`) |
| `AuditTrail_proofs`, `AuditTrace_proofs` | theorems; the second is about order and completeness | |
| `ChatRequest` | the HTTP handlers, their rows and counters, the shutdown | the plugin's side (`StreamDelivery`), events and trace files (`AuditTrail`) |
| `ChatRequest_proofs` | theorems | |
| `ModelRouting` | defaults and check of the configuration, the level of traces, a request's model and reasoning level, as operators | paths, addresses, durations other than as numbers |
| `Gateway` | the process over its lives: load, migrate, start, serve, close, end or die; each request's row, events and file; the retention loop; the administrator's lookup | the stream of a request (`ChatRequest`), the numbers of events (`AuditTrail`), how an instance starts (`PluginLifecycle`) |
| `Gateway_proofs` | theorems | |
| `MC*` | constants of the TLC instances | |

### State and steps

A step is what one goroutine does within one critical section, or between two
points where it can block. That is the finest grain other goroutines can
observe, because all shared state is behind `in.mu` or `Conn.mu`, or is a channel.

*InstanceStreams.* `streams` is the domain of `in.streams` and `chan`, `buf` the
channels, which outlive their map entry; this difference is where the hard cases
are. `at[g]` is the reader of connection `g`: `onNotify` looks the channel up
under the lock (`LookupHit`, `LookupMiss`), sends outside it (`SendEvent`, which
waits while the channel is full and is silently dropped by a closed one, as the
`recover` does), and closes after a terminal event (`CloseTerminal`). `Stream` is
`CallStream`, the reply, then `OpenStream` — one critical section that drains
`pending` — or `DrainBlocks` when `pending` exceeds the capacity.
`failActiveStreams` is one `Snapshot` under the lock and, per stream, `FailSend`
and `FailClose` outside. `gen` numbers the processes, so that a reader of an old
connection coexists with the new one.

*JsonRpc.* The host's `mu` is held across steps only by a call that writes (the
write may block on a full socket); every other critical section is one step.
`closeWith` is split at its compare-and-swap. `ReadNote`/`NoteDone` bracket an
`onNotify` that may not return.

*PluginLifecycle.* The bind of the socket file and the listen are two steps of
the plugin, because `net.Listen` creates the file before it listens and
`WaitSocket` looks for the file only. `kill` reads `in.cmd` at three different
moments, and so does the model. `racing` is a history variable: somebody was in
`Start` when `Stop` began.

`Used`, `Up`, `Phase` and `Stopping` are `Supervision`'s variables in terms of these:
`conn` rather than `cmd` counts, because the streams follow `in.conn`, and a
process is in `in.cmd` before it is in `in.conn`. It begins when the Manager has the
instance.

*PluginStream.* `serve[s]`, `prod[s]`, `fwd[s]` and `cancel[s]` are the four
goroutines of a stream, `streams` the map of cancel functions, `ch` and `open` the
producer's channel, `said[s]` all that was written about the stream, `sent[s]` its
events as the host sees them. The producer's writes and sends of one chunk are
queued in `todo` and performed one at a time, each when the socket or the channel
has room. `ScanCut` is a read error (the time limit, a broken body, a cancelled
context); `CutSeen` looks at the error first and at the context after it, as
`sc.Err()` and `ctx.Err()` do.

*AuditTrail.* `event` is split where its lock is released: `TakeSeq` numbers,
`InsertEvent` inserts, succeeds or fails, and until then the event is in the
actor's `slot`. `ProviderAudit` is three steps of the reader, because `onNotify`
has released `in.mu` (`FetchHandler`) before it calls the handler it found.
`Finish` copies the session and stores the row (`FinishRow`); the trace file is
written after it (`WriteFull`). The events of a request before its handler is
registered are one, since nobody else knows the session yet.

*ChatRequest.* `wire` is the sequence of kinds written to the client, `row` the
row in the store, `total` the counter labels. `TakeData` … `TakeBareError` are
the cases of the loop; `ConcludeLeft`, `ConcludeError`, `ConcludeOk`/`RecordOk`
what follows it. `unsaid` and `late` are history variables that name the two
legal exceptions (an error event without an error object; a shutdown that did
not wait).

*ModelRouting.* A configuration is a record of its fields; `Valid` is `validate`,
`ApplyDefaults` the defaults `Load` fills in, `Route` all of `chatCompletions` up
to the instance it asks for. The two comparisons of the level are both there:
`validate` ignores case and `TraceLevel` does not, so "OFF" and "Full" are accepted
and recorded as metadata. A reasoning level of an alias that is none is found
only when the alias is asked for, as in the code.

*Gateway.* `stage` is where the process is: `Load` reads a file, which is good or
bad, and a bad one ends the attempt; `CreateTables` and `EnsureColumn` are the two
halves of `migrate`, between which a death leaves an old schema; `StartOne` starts
one instance; `Listen` begins to serve and starts the retention loop; `Close` is
the end of `Shutdown` with `Store.Close`; `Ends` is every way the process goes
away, from any stage, and keeps only what is on disk. `hand[r]` is the handler as
the store sees it: it arrives, runs, is refused, goes on over its stream after an
error event (`ranging`), writes its file (`filing`, `writing`), is done, or died
with the process. `Finish` may thus be called again, after an error event, and
may then re-create a row or a file that a sweep has removed meanwhile; `Bare` is
an error event without an error object, after which `Finish` is not called. The
store has one connection, so each statement is a step, and `DeleteExpired` is two
(`DeleteEvents`, `DeleteRows`). The sweep computes both cutoffs first and then
removes the files one by one, so a file may be written anew under it; one that
cannot be removed, or all when the directory cannot be read, is left to the next
sweep (`RemoveFile`). A request may insert events (`Busy`) until its handler has
finished, and after that as long as the reader of its plugin's connection has
audits of it. None is left of a request whose stream ended by its last event, as
`PluginStream` and `AuditTrail` show. But `failActiveStreams` drops its report of a
crash when the channel is full and closes it: the handler takes that for success,
and the reader, freed by the close, goes on to the audits in the socket until
the handler has returned. `ReportDropped` marks such a request (`unreported`). The
lookup's three reads are three steps; the error of `ListEvents` is ignored, as
in `getRequest`. Ages are counted in hours up to `MaxAge`. `hurt`, `swept` and
`overran` are history variables that name the exceptions: a failed write, an age
beyond the retention, a sweep that came while the request was still writing; so
is `unreported`, and `had` is how many events a request had logged when `Finish`
was told ok.

## 3. Runs

All runs finish in a few minutes on two workers.

| Run | Instance | Question and result |
|---|---|---|
| `streams_live` | 2 streams, no crash, no Stop, capacity 1, 2 and 1 events, 1 early event | Does every interleaving of early events, drain, terminal events, cancels and disconnects give what `StreamDelivery` promises (`Promised`), leave no event behind (`PendingHygiene`), and bring handlers to their end though one full channel blocks the shared reader (`GoneEnds`, `EndedEnds`)? Yes. |
| `streams_faults` | 1 stream, crash, restart and Stop, 2 processes, 2 early events | With watcher and Stop racing the reader, the canceller and `Stream`: one close, and every open channel has somebody who will close it, but for the restart window of `streams_orphan` (`CloseOnce`); a fault harms only the streams of the process it ends, while those of a living process miss no event, although all processes share the two maps (`FaultsContained`); and still a lossy `StreamDelivery`, events in order and none twice (`Promised`). Yes. |
| `streams_crash_report`, `streams_orphan`, `streams_stuck`, `life_recover` | smallest that show it | Disagreements with the tests and docs, section 6. |
| `rpc` | 2 calls, sockets of 1 message, 1 notification, silent or dying plugin | `OwnReply`, `NoOrphanPending`, `ClosedOnce`; no reply is lost on a waiting call (`NoCallForgotten`); every call abandoned by its context or by a close returns (`AbandonedReturns`); with an answering plugin every call does, though both sides write under a lock into full sockets (`EveryCallReturns`). Yes: each side keeps reading while it writes. |
| `life` | 3 processes, failing environment, Stop at any time | `OneProcess`, `Supervised`, `StopLeavesNothing`, `HealthSettles`, `StopReturns`; and the processes live as `Supervision` says (`Supervises`). Yes. |
| `chat` | 2 requests, one of whose streams a fault may hit, 1 and 2 events emitted, 2 received | Well-formed answer (`SseShape`), row and counter agree with it (`RowTellsClient`), ok means complete (`OkIsComplete`), outcomes stay (`OutcomeStays`), a shutdown that waits loses no outcome (`DrainKeeps`). Yes. |
| `plugin` | 1 stream, channel and socket of 1, bodies of up to 2 lines | For any body and a cancel at any time: no audit is late (`AuditsInTime`), nothing broken is told as finished (`HonestPlugin`), a cancel finds its stream and ends it (`CancelNotLost`, `CancelEnds`), the time limit ends what is never cancelled (`TimeLimitEnds`), and the host sees what `PluginPromise` allows (`KeepsPromise`). Yes. |
| `audits` | 1 request at each level, 2 messages on the connection | Handler and reader write one trace: numbers are unique (`SeqUnique`) and in the order of the upstream (`AuditOrder`); a request stored as ok has its whole trace, if a crash of its plugin is reported (`TraceComplete`); at most one audit follows its handler (`LateAudits`). Yes. |
| `gateway` | 1 request, 2 lives, 1 event, 1 failed write, 3 good and 5 bad files, 18 questions | Over a crash and a restart at any point: a gateway that serves has its tables and an instance for whatever it routes (`ServesReady`); a row says what became of its request (`RowKept`); no event is without its row (`NoOrphans`); an administrator's answer that says ok has every event logged before `Finish` was told so, and every one there will be unless a crash went unreported (`ReadWhole`); and what is over and old vanishes (`OldGoes`). Yes, with the exceptions each property names. |

The seven type invariants are proved; only `chat` runs its own as well.

**Bounds.** `Cap` = 1 is the capacity of a channel (64 in the code): full, empty
and non-empty are all met with one slot, and the runs with two events overfill it.
`MaxEvents` bounds what a plugin emits per stream: two allow data before a
terminal event, a terminal event before another one, and one more event than the
channel holds. `MaxEarly` bounds events that overtake the reply; `streams_live`
keeps it within `Cap`, because beyond it the lock is lost (`streams_stuck`);
`streams_faults` goes beyond. `MaxGen` = 2 gives one restart, which is what a
stale reader, a stale channel and a reset need. `SockCap` = 1 makes a full socket
common; one notification blocks the reader. `MaxProc` = 3 gives two restarts, so
that a watcher, a restart and a `kill` can be about three processes.
`MaxEmit` and `MaxGot` bound the events of a chat stream; two give an error
before an end and a fault after a terminal event. Two streams, calls or requests
are the least that interact in the host: streams share a reader and a lock, calls a map and a
writer, requests the store and the gauge. In `plugin` one stream is enough, as streams of a plugin
share only the map, by key, and the socket; `MaxLines` = 2 gives an error before an
end and a chunk after the first. In `audits` the actors that meet are a handler and
the reader, and two messages on the connection let one overtake another if it
could. In `gateway` one request is enough, as the tables and the directory are
keyed by request and a sweep treats each for itself; two lives are a death and
what the next start finds; with retention 0 and `MaxAge` 1 a request is young or
old; one failure puts the error at any one statement, and the closed store fails
any number. Its files differ by what may be wrong and by the level, its questions
by model and both reasoning fields. The models are symmetric in everything
else, and the proofs do not depend on any of these bounds.

**Deadlock.** All configurations set `CHECK_DEADLOCK FALSE`, as requests, calls
and restarts are bounded and a model that has served them all stops. That nobody
waits for ever is stated by the liveness properties instead.

**Fairness** is weak fairness of the host's goroutines: Go runs what can run and
hands a mutex to a waiter. In `InstanceStreams` the handler, canceller, reader,
watcher and Stop are fair, the plugin answers a request it has received, and the
client of an open connection reads (a write to it returns; one to a closed one
fails). A disconnection, a further event, a crash or a Stop is never owed. In
`JsonRpc` the plugin owes no answer and `onNotify` need not return under
`FairSpec`; both are premises of `EveryCallReturns`. In `PluginStream` the plugin's
goroutines are strongly fair, for a writer that competes for the socket gets its
turn, and a read under a cancelled context fails; that the HTTP client's time limit
cuts a body is a premise of `TimeLimitEnds` only. In `PluginLifecycle` a
started plugin binds and listens; each timeout of `kill`, `WaitSocket` and the
health call is a step of its own that is always possible once the wait has begun.
In `Gateway` only time and the retention loop are fair; that the gateway stays up
(`<>[](stage = "serving")`) is the premise of `OldGoes`, and handlers owe nothing.

## 4. Proofs

TLAPS proves, for every value of the constants the assumptions allow:

| Theorem | Says |
|---|---|
| `InstanceStreams_proofs!TypeCorrect`, `ChannelClosedOnce` | `TypeOK`, `CloseOnce` for any number of streams, capacity, restarts, faults |
| `InstanceStreams_proofs!StreamsDeliver` | `InstanceStreams` implements `StreamDelivery` (`Promised`), likewise |
| `InstanceStreams_proofs!FaultsStayContained`, `PendingLeftClean` | `FaultsContained`, `PendingHygiene`, likewise, under all faults |
| `InstanceStreams_proofs!EndsHonestly` | `HonestEnd` when nothing fails (`Faults = {}`) |
| `InstanceStreams_proofs!ProcessesAreSupervised` | every behaviour of `InstanceStreams` is one of `Supervision` (`ProcessesSupervised`) |
| `JsonRpc_proofs!TypeCorrect`, `RepliesMatch`, `NoOrphans`, `ClosedOnceHolds`, `CallsNotForgotten` | `TypeOK` (which bounds both sockets by `SockCap`), `OwnReply`, `NoOrphanPending`, `ClosedOnce`, `NoCallForgotten` for any number of calls |
| `PluginLifecycle_proofs!TypeCorrect`, `OneAtATime`, `NoneForgotten`, `StopIsClean` | `TypeOK`, `OneProcess`, `Supervised`, `StopLeavesNothing` for any number of restarts |
| `PluginLifecycle_proofs!SupervisionKept` | `PluginLifecycle` implements `Supervision` (`Supervises`), likewise |
| `ChatRequest_proofs!TypeCorrect`, `AnswersFormed`, `RowsTell`, `OksComplete` | `TypeOK`, `SseShape`, `RowTellsClient`, `OkIsComplete` for any number of requests |
| `ChatRequest_proofs!OutcomesStay`, `DrainComplete` | `OutcomeStays`, `DrainKeeps`, likewise |
| `PluginStream_proofs!TypeCorrect`, `PromiseKept` | `TypeOK`; `PluginStream` implements `PluginPromise` (`KeepsPromise`: at most one answer, events of accepted streams only, none after a `stream_end`), for any streams, capacities and bodies; that streams end is model-checked |
| `PluginStream_proofs!AuditsComeInTime`, `CancelsFindStreams`, `PluginIsHonest` | `AuditsInTime`, `CancelNotLost`, `HonestPlugin`, likewise |
| `AuditTrail_proofs!TypeCorrect`, `NumbersApart` | `TypeOK`, `SeqUnique` for any number of requests on one connection |
| `AuditTrace_proofs!TracesComplete`, `LateAuditsFew`, `AuditsInOrder` | `TraceComplete`, `LateAudits`, `AuditOrder`, likewise |
| `Gateway_proofs!TypeCorrect`, `ReadyToServe` | `TypeOK`, `ServesReady` for every set of files and questions |
| `Gateway_proofs!RowsAreKept`, `NoneOrphaned`, `WholeAnswers` | `RowKept`, `NoOrphans`, `ReadWhole` for any number of requests, lives and failures |

The arguments, each an inductive invariant found by asking why a step keeps the
property:

* `ChannelInv` (streams). An open channel has exactly one owner: the map, or one
  caller of `failActiveStreams` whose snapshot holds it. `CloseOnce` alone is not
  inductive: one must also know that a stream is registered only by its own
  handler coming from `answered`, when its channel does not exist yet and no
  snapshot can hold it, and that a snapshot is taken only when the taker holds
  nothing.
* `WireInv`, `LineInv` (streams). A socket carries the events of a stream in the
  order they were emitted, and only on the connection the stream was called on. So
  the events of a stream stand in one line: received, in its channel, ahead on the
  socket; before the stream is opened `pending` stands in the place of the first
  two. Every number is below those behind it, so whatever a step takes from one
  place and puts into the next keeps the order. Receiving is a step of
  `StreamDelivery`; what is lost on the way under a fault is a gap in the line,
  which that specification then allows.
* `ProcessInv`, `OpenedInv`, `WholeInv` (streams). Only the newest process lives,
  and from the moment its watcher has noticed its end nobody does until the next is
  connected; so when `failActiveStreams` or `Start` empties the maps, no stream in
  them has a living process, and one that is not called yet has nothing there.
  A stream that no fault has touched (its process lives and nobody stops the
  instance) is therefore whole: with what is ahead its line is all that was
  emitted, it is closed only behind a terminal event or by a client that has left,
  and what arrives after that stays in `pending`, behind everything in the line.
  `FaultsContained` and `PendingHygiene` follow. `Quiet` adds that with
  `Faults = {}` every stream is untouched, hence `HonestEnd`.
* `EntryInv`, `MsgInv`, `CloseInv` (JSON-RPC). An id is given to one call; an
  entry of the map, a message on the socket, in the plugin, in a dispatch
  goroutine or in a call's channel carries the id of the call it names. A call
  that has returned with the connection open has deleted its entry, or a dispatch
  goroutine took it. One caller of `closeWith` wins the compare-and-swap.
* `HandInv` (JSON-RPC). A call that has not written yet has its entry, and no
  message of it is about; after that its request or its reply is always in one of the
  places on the way (`Underway`), until a dispatch goroutine takes the entry. One
  entry gives one goroutine, so the channel it sends to is empty.
* `TypeInv`, `ProcInv`, `StopInv` (lifecycle). `TypeOK` is itself inductive only
  together with `ProcInv`: that `HandshakeOk` finds a process in `in.cmd`, or that
  `kill` waits for an existing one, depends on who may be in `Start`. `ProcInv`
  says that only the process in `in.cmd` can live, that at most one party —
  Start, a watcher that waits, a watcher that sleeps — is responsible for it, and
  that nobody enters `Start` while it lives. `StopInv` carries "no restart in
  progress when Stop began" through Stop's steps.
* `ConnInv` (lifecycle). Where `in.conn` leads while Start is at work: to the process
  in `in.cmd`, except between spawning the next and dialling it, when it leads to
  the one before, which is dead. With the three above every step is a step of
  `Supervision` or none: in particular both ends of `kill` in Start are its
  `GivesUp`, whichever process `in.conn` names. From `ProcessInv` alone the steps of
  `InstanceStreams` are too.
* `RowInv`, `StoredInv` (chat). Which rows a handler at each label can have, hence
  that nothing overwrites an outcome except the two cases `OutcomeStays` allows;
  and that a handler that has returned before the store closed has finished its
  row.
* `ValuesInv`, `GaugeInv`, `TellInv`, `CompleteInv` (chat). The gauge is the
  number of open streams. At each label of the handler, what stands on the wire,
  in the row and in the counter is one of a few combinations, told apart by
  `streamErr` and by whether the store was still open. The events a handler has
  received have no gap unless the plugin failed, an error among them is remembered
  in `streamErr`, and a channel that just ends has, by `StreamDelivery`, brought
  something other than data; so what is recorded as ok has seen its end.
* `EndInvs`, `AuditsInvs`, `CancelInvs`, `HonestInvs` (plugin). An end is in one
  place at a time: among what the producer still has to do, in its channel, in
  `forwardStream`'s hand, or sent, and only the last of these may be followed by
  nothing. That gives `PluginPromise` its step or stutter. The audits follow from
  where the producer can be when it still has something to say; a cancel that
  missed means an entry that was deleted, which only a finished stream or a refused
  one has; and a body that was cut leaves the producer only through `CutSeen`.
* `SeqInv` (trace). A number is new because none that was given out is above the
  session's counter, and because an event numbered by the reader names the request
  of a message, which is why the messages' shape is part of the invariant.
* `ReaderInv`, `OwnInv`, `LateInv`, `CloseInv`, `CarryInv`, `PartInv`, `OkInv`
  (trace). What the reader holds and what is in its slot is one audit, so at most
  one can follow a handler that has returned. The plugin's result or end stands
  behind every audit of its request, so a handler that has seen it has met them
  all; while it is registered each audit that is due is on the connection, in the
  reader's hand, in its slot or recorded; its part is in the payload before it is
  numbered. That is what a success finds when it writes its row and its file.
* `OrderInv` (trace). What has been numbered comes, in the order of the upstream,
  no later than what the reader holds, and that no later than what is still on
  the connection; nothing is ahead of how far the plugin has got.
* `ReadyInv` (gateway). What has been loaded is a valid configuration; from
  `starting` on the tables are current; and who serves has started all its providers.
  That a routed provider is among them is a lemma about `Route` and `Valid`.
* `HandInv`, `OrphanInv`, `ReadInv` (gateway). A handler tells its outcome when it
  calls `Finish` and not before; a sweep takes only requests that have arrived.
  Between the two statements of `DeleteExpired` the requests it is about to delete
  have no events or are excused, and each of them that may still insert one is
  excused already (`overran`), as is one whose row is missing because a write
  failed (`hurt`). The row says ok only after `Finish` was told so, and what is
  logged only grows, so the second read of a lookup that saw `ok` finds all that
  was logged by then. It finds all there will be only if nothing follows: a request
  that has succeeded is not `Busy`, except one in `unreported`, whose audits may come
  after its row says ok and after the administrator has his answer.

Assumptions are those declared in the modules: capacity, socket size and process
bound are positive, bounds and durations are numbers, faults are among the two
named ones. TLC evaluates them on every run.

**Only model-checked:** liveness, and nothing else (`GoneEnds`, `EndedEnds`,
`AbandonedReturns`, `EveryCallReturns`, `HealthSettles`, `StopReturns`,
`CancelEnds`, `TimeLimitEnds`, `OldGoes`). It needs fairness and ENABLED, which are
out of this prover's reach. Every invariant, action property and refinement that
a passing run checks is also proved. Two results are proved without a run that
shows them: `ProcessesSupervised`, and `HonestEnd` for `Faults = {}`; with faults
the latter is false (`streams_crash_report`).

## 5. Files

`<Module>.tla` is a component, `<Module>_proofs.tla` its theorems,
`MC<Module>.tla` and `<run>.cfg` an instance. To check one:

    tlc -workers 2 -config streams_live.cfg MCInstanceStreams
    tlapm InstanceStreams_proofs.tla

Operators introduced by "Mutant:" in a comment are faulty variants of the
definition that follows; `PROJECT.json` names, for every property, a variant
under which TLC finds it violated.

## 6. Where the code disagrees with its tests and docs

* `streams_crash_report`: `failActiveStreams` drops the crash error when the
  channel is full, and the handler then ends the stream as a success. The
  integration test expects an SSE error event and a row with status error
  (`tests/integration/p0_test.go:217`, `:251`).
* `streams_orphan`: a `Stream` that returns from its call between
  `failActiveStreams` and the reset in `Start` registers a channel that `Start`
  drops unclosed; its handler never returns. `docs/v1-acceptance.md:29` promises
  EOF after a crash.
* `streams_stuck`: more events before `Stream` takes the lock than the channel
  holds block `Stream` with `in.mu` held, and with it everybody else.
  `tests/integration/chat_test.go:94` requires streams to arrive completely.
* `life_recover`: `watch` tries `Start` once and `Start` gives up at the first
  refused dial, which `WaitSocket` does not exclude.
  `tests/integration/p0_test.go:260` expects the plugin to serve again.

## 7. What is not modelled

`ChatRequest` and `Gateway` share the rows but are not composed: the first has one
life and every write of a handler, the second several lives and only what the
store sees. `InstanceStreams` and `PluginLifecycle` are not composed either, but
meet in `Supervision`, of which both are refinements: what the first takes for
granted about processes cannot contradict what the second shows of them. That
`Supervision` allows nothing which `PluginLifecycle` rules out is not claimed.

The following is left out, because it has no behaviour these models could tell
right from wrong:

* Health and models endpoints, `List`, `ListRequests`, `ListPlugins`, the other
  admin handlers and the console: one read of another component each, formatted.
* The rows of the `plugins` table: written at every start, read back by nobody
  but a listing.
* Redaction and trace summaries: which characters and keys a payload contains is
  what these models abstract from; the walk over a JSON tree is recursive and
  sequential.
* Protocol types: shapes and constructors.
* The mock plugin: its event sequences are among those `PluginPromise` allows.
* Metrics other than the request counter and the gauge of streams: written next to
  these two and read by nobody in the program.
* Identifiers (taken as distinct), file permissions and the command line.
* Paths, addresses and environment variables of the configuration.
* The answer "streaming not supported" of `handleStream`: every writer of `net/http`
  is a Flusher.

If the models are taken further, the next steps are: a composition of
`PluginLifecycle` with the handlers of `ChatRequest`, to follow one request over a
restart of its plugin; and the time to the first event and the routing fields of
the row.
