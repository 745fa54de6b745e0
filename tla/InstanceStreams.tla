--------------------------- MODULE InstanceStreams ---------------------------
(***************************************************************************)
(* How one plugin instance of the gateway carries completion streams: the  *)
(* Instance of internal/plugin/runtime.go (maps `streams` and `pending`    *)
(* under in.mu, the notification handler, Stream, Cancel, the crash        *)
(* watcher and Stop), the part of internal/api/openai.go that ranges over  *)
(* a stream's channel, and the plugin side of the socket as the SDK        *)
(* (sdk/plugin/server.go) writes it.                                       *)
(*                                                                         *)
(* Goroutines: one HTTP handler and one canceller per stream, one reader   *)
(* per plugin connection (jsonrpc Conn.Serve runs notifications inline),   *)
(* the crash watcher and the caller of Stop.  Each step is what one of     *)
(* them does between two blocking points or within one critical section.   *)
(*                                                                         *)
(* An event is the number of its place in sent[s]; 0 is the error event    *)
(* that failActiveStreams makes up.  A wire message numbered 0 is the      *)
(* reply to completion.stream.                                             *)
(***************************************************************************)
EXTENDS Integers, Sequences, FiniteSets

CONSTANTS
    Stream,     \* stream ids, one per streaming request
    Cap,        \* capacity of a stream's channel (64 in the code)
    MaxEvents,  \* bound: MaxEvents[s] events are emitted for stream s
    MaxEarly,   \* bound: events emitted before Stream() takes in.mu
    MaxGen,     \* bound: plugin processes started by this instance
    Faults      \* which of "crash" and "stop" may happen

ASSUME CapAssumption    == Cap \in Nat \ {0}
ASSUME BoundsAssumption == MaxEvents \in [Stream -> Nat] /\ MaxEarly \in Nat /\ MaxGen \in Nat \ {0}
ASSUME FaultsAssumption == Faults \subseteq {"crash", "stop"}

Gen   == 1 .. MaxGen
Actor == {"watch", "stop"}          \* the two callers of failActiveStreams
Kind  == {"data", "error", "end"}   \* EventError and EventStreamEnd are terminal

VARIABLES
    alive,     \* alive[g]: plugin process g runs
    plug,      \* plug[s]: the plugin's view of the request
    sent,      \* sent[s]: kinds of the events the plugin emitted, in order
    wire,      \* wire[g]: messages from plugin g that the reader has not finished
    gen,       \* number of the connection in in.conn
    closed,    \* closed[g]: the host's Conn g is closed (closeCh)
    at,        \* at[g]: where the reader of Conn g is
    streams,   \* domain of in.streams
    pending,   \* in.pending; <<>> stands for an absent key
    chan,      \* chan[s]: state of the channel Stream() made
    buf,       \* buf[s]: events in that channel
    pc,        \* pc[s]: where the HTTP handler is
    conn,      \* conn[s]: Conn its completion.stream call went to
    gone,      \* gone[s]: the client has disconnected (r.Context() done)
    got,       \* got[s]: events the handler received from the channel
    cx,        \* cx[s]: progress of the handle's cancel function (sync.Once)
    watch,     \* where the crash watcher is
    stop,      \* where Stop() is; in.stopped is stop # "run"
    failing,   \* failing[a]: snapshot that failActiveStreams still has to close
    flagged    \* flagged[a]: the stream of it whose error was sent, not yet closed

pluginVars == <<alive, plug, sent>>
mapVars    == <<streams, pending, chan>>
callVars   == <<pc, conn, gone, got, cx>>
faultVars  == <<watch, stop, failing, flagged>>
readVars   == <<closed, at>>
vars == <<alive, plug, sent, wire, gen, closed, at, streams, pending, chan, buf,
          pc, conn, gone, got, cx, watch, stop, failing, flagged>>

Init ==
    /\ alive   = [g \in Gen |-> g = 1]
    /\ plug    = [s \in Stream |-> "none"]
    /\ sent    = [s \in Stream |-> <<>>]
    /\ wire    = [g \in Gen |-> <<>>]
    /\ gen     = 1
    /\ closed  = [g \in Gen |-> FALSE]
    /\ at      = [g \in Gen |-> "read"]
    /\ streams = {}
    /\ pending = [s \in Stream |-> <<>>]
    /\ chan    = [s \in Stream |-> "none"]
    /\ buf     = [s \in Stream |-> <<>>]
    /\ pc      = [s \in Stream |-> "idle"]
    /\ conn    = [s \in Stream |-> 1]
    /\ gone    = [s \in Stream |-> FALSE]
    /\ got     = [s \in Stream |-> <<>>]
    /\ cx      = [s \in Stream |-> "none"]
    /\ watch   = "wait"
    /\ stop    = "run"
    /\ failing = [a \in Actor |-> {}]
    /\ flagged = [a \in Actor |-> {}]

-----------------------------------------------------------------------------
(* Shared helpers.                                                         *)

IsTerminal(s, n) == n = 0 \/ sent[s][n] # "data"

\* in.mu is free: its critical sections are single steps, except that Stream()
\* may block in one for ever (DrainBlocks).
LockFree == \A s \in Stream : pc[s] # "stuck"

\* A message written to the socket: writes are serialised by Conn.mu and one
\* goroutine forwards the events of a stream.
\* Mutant: events notified by goroutines that overtake each other.
WrittenAnyhow(q, m) == IF m.n > 1 THEN <<m>> \o q ELSE Append(q, m)

Written(q, m) == Append(q, m)

\* ch <- ev with recover: waits for room, is dropped by a closed channel.
NonBlockingSend(s, n) ==
    buf' = IF chan[s] = "open" /\ Len(buf[s]) < Cap
             THEN [buf EXCEPT ![s] = Append(@, n)] ELSE buf

BlockingSend(s, n) ==
    \/ chan[s] = "open" /\ Len(buf[s]) < Cap /\ buf' = [buf EXCEPT ![s] = Append(@, n)]
    \/ chan[s] = "closed" /\ buf' = buf

\* delete(in.pending, id)
\* Mutant: the delete is forgotten.
WithPending(s) == pending

WithoutPending(s) == [pending EXCEPT ![s] = <<>>]

\* closeStreamLocked
\* Mutant: the entry is deleted but its channel is not closed.
ForgetLocked(s) ==
    /\ streams' = streams \ {s}
    /\ chan'    = chan
    /\ pending' = WithoutPending(s)

CloseLocked(s) ==
    /\ streams' = streams \ {s}
    /\ chan'    = IF s \in streams THEN [chan EXCEPT ![s] = "closed"] ELSE chan
    /\ pending' = WithoutPending(s)

-----------------------------------------------------------------------------
(* The HTTP handler of a stream and its canceller.                         *)

\* handleStream calls Instance.Stream, which calls completion.stream on in.conn;
\* the write on a closed Conn fails at once.
CallStream(s) ==
    /\ pc[s] = "idle"
    /\ conn' = [conn EXCEPT ![s] = gen]
    /\ IF closed[gen]
         THEN pc' = [pc EXCEPT ![s] = "failed"] /\ plug' = plug
         ELSE pc' = [pc EXCEPT ![s] = "calling"] /\ plug' = [plug EXCEPT ![s] = "asked"]
    /\ UNCHANGED <<alive, sent, wire, gen, readVars, mapVars, buf, gone, got, cx, faultVars>>

\* The call returns an error: closeCh or the request's context is ready.
CallFail(s) ==
    /\ pc[s] \in {"calling", "answered"}
    /\ closed[conn[s]] \/ gone[s]
    /\ pc' = [pc EXCEPT ![s] = "failed"]
    /\ UNCHANGED <<pluginVars, wire, gen, readVars, mapVars, buf, conn, gone, got, cx, faultVars>>

\* The plugin answered with an error; the handler writes HTTP JSON, no stream.
RejectedReturn(s) ==
    /\ pc[s] = "answered" /\ plug[s] = "rejected"
    /\ pc' = [pc EXCEPT ![s] = "failed"]
    /\ UNCHANGED <<pluginVars, wire, gen, readVars, mapVars, buf, conn, gone, got, cx, faultVars>>

\* A terminal event is among the pending ones.
\* Mutant: the test is forgotten.
NeverEnded(s) == FALSE

EndedPending(s) == \E i \in DOMAIN pending[s] : IsTerminal(s, pending[s][i])

\* Stream() makes the channel and, in one critical section, moves the pending
\* events into it and registers it, unless one of them was terminal.
OpenStream(s) ==
    /\ pc[s] = "answered" /\ plug[s] = "replied"
    /\ LockFree
    /\ Len(pending[s]) <= Cap
    /\ chan'    = [chan EXCEPT ![s] = IF EndedPending(s) THEN "closed" ELSE "open"]
    /\ streams' = IF EndedPending(s) THEN streams ELSE streams \cup {s}
    /\ buf'     = [buf EXCEPT ![s] = pending[s]]
    /\ pending' = WithoutPending(s)
    /\ pc'      = [pc EXCEPT ![s] = "reading"]
    /\ UNCHANGED <<pluginVars, wire, gen, readVars, conn, gone, got, cx, faultVars>>

\* More pending events than the channel holds: `ch <- ev` blocks with in.mu
\* held, and nobody receives before Stream() returns.
DrainBlocks(s) ==
    /\ pc[s] = "answered" /\ plug[s] = "replied"
    /\ LockFree
    /\ Len(pending[s]) > Cap
    /\ pc' = [pc EXCEPT ![s] = "stuck"]
    /\ UNCHANGED <<pluginVars, wire, gen, readVars, mapVars, buf, conn, gone, got, cx, faultVars>>

\* for ev := range ch
Consume(s) ==
    /\ pc[s] = "reading" /\ buf[s] # <<>>
    /\ got' = [got EXCEPT ![s] = Append(@, Head(buf[s]))]
    /\ buf' = [buf EXCEPT ![s] = Tail(@)]
    /\ UNCHANGED <<pluginVars, wire, gen, readVars, mapVars, pc, conn, gone, cx, faultVars>>

RangeEnd(s) ==
    /\ pc[s] = "reading" /\ buf[s] = <<>> /\ chan[s] = "closed"
    /\ pc' = [pc EXCEPT ![s] = "drained"]
    /\ UNCHANGED <<pluginVars, wire, gen, readVars, mapVars, buf, conn, gone, got, cx, faultVars>>

\* The client closes the connection: the request's context is cancelled.
Disconnect(s) ==
    /\ pc[s] \in {"calling", "answered", "reading", "stuck", "drained"}
    /\ ~gone[s]
    /\ gone' = [gone EXCEPT ![s] = TRUE]
    /\ UNCHANGED <<pluginVars, wire, gen, readVars, mapVars, buf, pc, conn, got, cx, faultVars>>

\* Mutant: the goroutine cancels without waiting for ctx.Done().
CancelEarly(s) ==
    /\ pc[s] \in {"reading", "drained"} /\ cx[s] = "none"
    /\ cx' = [cx EXCEPT ![s] = "calling"]
    /\ UNCHANGED <<pluginVars, wire, gen, readVars, mapVars, buf, pc, conn, gone, got, faultVars>>

\* handle.Cancel, from either context goroutine or from the handler's defer:
\* the first caller runs the function, which calls completion.cancel ...
CancelCall(s) ==
    /\ pc[s] = "drained" \/ (pc[s] = "reading" /\ gone[s])
    /\ cx[s] = "none"
    /\ cx' = [cx EXCEPT ![s] = "calling"]
    /\ UNCHANGED <<pluginVars, wire, gen, readVars, mapVars, buf, pc, conn, gone, got, faultVars>>

\* ... and, answered or timed out after 3 s, closes the stream.
CancelClose(s) ==
    /\ cx[s] = "calling"
    /\ LockFree
    /\ CloseLocked(s)
    /\ cx' = [cx EXCEPT ![s] = "done"]
    /\ UNCHANGED <<pluginVars, wire, gen, readVars, buf, pc, conn, gone, got, faultVars>>

\* The deferred Cancel returns once the function has run, whoever ran it.
HandlerReturn(s) ==
    /\ pc[s] = "drained" /\ cx[s] = "done"
    /\ pc' = [pc EXCEPT ![s] = "done"]
    /\ UNCHANGED <<pluginVars, wire, gen, readVars, mapVars, buf, conn, gone, got, cx, faultVars>>

-----------------------------------------------------------------------------
(* The reader of a connection: Conn.Serve and, inline, onNotify.           *)

\* A reply is dispatched by a goroutine of its own; the reader goes on.
ReadReply(g) ==
    /\ at[g] = "read" /\ wire[g] # <<>> /\ Head(wire[g]).n = 0
    /\ wire' = [wire EXCEPT ![g] = Tail(@)]
    /\ LET s == Head(wire[g]).id
       IN  pc' = IF pc[s] = "calling" THEN [pc EXCEPT ![s] = "answered"] ELSE pc
    /\ UNCHANGED <<pluginVars, gen, readVars, mapVars, buf, conn, gone, got, cx, faultVars>>

\* Mutant: an event without a channel is dropped instead of kept.
MissDropped(g) ==
    /\ at[g] = "read" /\ wire[g] # <<>> /\ Head(wire[g]).n # 0
    /\ LockFree
    /\ Head(wire[g]).id \notin streams
    /\ wire' = [wire EXCEPT ![g] = Tail(@)]
    /\ UNCHANGED <<pluginVars, gen, readVars, mapVars, buf, callVars, faultVars>>

\* onNotify finds no channel: the event is kept in in.pending.
LookupMiss(g) ==
    /\ at[g] = "read" /\ wire[g] # <<>> /\ Head(wire[g]).n # 0
    /\ LockFree
    /\ Head(wire[g]).id \notin streams
    /\ pending' = [pending EXCEPT ![Head(wire[g]).id] = Append(@, Head(wire[g]).n)]
    /\ wire'    = [wire EXCEPT ![g] = Tail(@)]
    /\ UNCHANGED <<pluginVars, gen, readVars, streams, chan, buf, callVars, faultVars>>

\* onNotify takes the channel out of the map and unlocks in.mu ...
LookupHit(g) ==
    /\ at[g] = "read" /\ wire[g] # <<>> /\ Head(wire[g]).n # 0
    /\ LockFree
    /\ Head(wire[g]).id \in streams
    /\ at' = [at EXCEPT ![g] = "send"]
    /\ UNCHANGED <<pluginVars, wire, gen, closed, mapVars, buf, callVars, faultVars>>

\* ... then sends, blocking while the channel is full; a channel closed in the
\* meantime makes the send panic, and recover drops the event.
SendEvent(g) ==
    /\ at[g] = "send"
    /\ LET s == Head(wire[g]).id
           n == Head(wire[g]).n
       IN  /\ BlockingSend(s, n)
           /\ IF IsTerminal(s, n)
                THEN at' = [at EXCEPT ![g] = "close"] /\ wire' = wire
                ELSE at' = [at EXCEPT ![g] = "read"] /\ wire' = [wire EXCEPT ![g] = Tail(@)]
    /\ UNCHANGED <<pluginVars, gen, closed, mapVars, callVars, faultVars>>

\* closeStream after a terminal event.
CloseTerminal(g) ==
    /\ at[g] = "close"
    /\ LockFree
    /\ CloseLocked(Head(wire[g]).id)
    /\ at'   = [at EXCEPT ![g] = "read"]
    /\ wire' = [wire EXCEPT ![g] = Tail(@)]
    /\ UNCHANGED <<pluginVars, gen, closed, buf, callVars, faultVars>>

\* Decode fails: the plugin is dead and all it wrote is read, or Stop closed
\* the socket (the decoder's own buffer may hold messages: any prefix is read).
ReadEOF(g) ==
    /\ at[g] = "read"
    /\ closed[g] \/ (~alive[g] /\ wire[g] = <<>>)
    /\ at'     = [at EXCEPT ![g] = "eof"]
    /\ closed' = [closed EXCEPT ![g] = TRUE]
    /\ UNCHANGED <<pluginVars, wire, gen, mapVars, buf, callVars, faultVars>>

-----------------------------------------------------------------------------
(* The plugin process: Server.handle("completion.stream"), forwardStream.  *)

\* Handler.Stream returned a channel; forwardStream is started.
Accept(s) ==
    /\ plug[s] = "asked" /\ alive[conn[s]]
    /\ plug' = [plug EXCEPT ![s] = "opened"]
    /\ UNCHANGED <<alive, sent, wire, gen, readVars, mapVars, buf, callVars, faultVars>>

\* Handler.Stream returned an error, which is the reply.
Reject(s) ==
    /\ plug[s] = "asked" /\ alive[conn[s]]
    /\ plug' = [plug EXCEPT ![s] = "rejected"]
    /\ wire' = [wire EXCEPT ![conn[s]] = Written(@, [id |-> s, n |-> 0])]
    /\ UNCHANGED <<alive, sent, gen, readVars, mapVars, buf, callVars, faultVars>>

\* The reply carrying stream_id, possibly after the first events.
Reply(s) ==
    /\ plug[s] = "opened" /\ alive[conn[s]]
    /\ plug' = [plug EXCEPT ![s] = "replied"]
    /\ wire' = [wire EXCEPT ![conn[s]] = Written(@, [id |-> s, n |-> 0])]
    /\ UNCHANGED <<alive, sent, gen, readVars, mapVars, buf, callVars, faultVars>>

\* forwardStream notifies one event; stream_end is the last of a stream, an
\* error need not be.
Emit(s, k) ==
    /\ plug[s] \in {"opened", "replied"} /\ alive[conn[s]]
    /\ \A i \in DOMAIN sent[s] : sent[s][i] # "end"
    /\ Len(sent[s]) < MaxEvents[s]
    /\ pc[s] \in {"calling", "answered"} => Len(sent[s]) < MaxEarly
    /\ sent' = [sent EXCEPT ![s] = Append(@, k)]
    /\ wire' = [wire EXCEPT ![conn[s]] = Written(@, [id |-> s, n |-> Len(sent[s]) + 1])]
    /\ UNCHANGED <<alive, plug, gen, readVars, mapVars, buf, callVars, faultVars>>

-----------------------------------------------------------------------------
(* The end of a plugin process: crash, watch, restart, Stop.               *)

Crash ==
    /\ "crash" \in Faults /\ alive[gen]
    /\ alive' = [alive EXCEPT ![gen] = FALSE]
    /\ UNCHANGED <<plug, sent, wire, gen, readVars, mapVars, buf, callVars, faultVars>>

\* watch: cmd.Wait returns; nothing more to do once stopped.
WatchExit ==
    /\ watch = "wait" /\ ~alive[gen]
    /\ LockFree
    /\ watch' = IF stop = "run" THEN "fail" ELSE "gone"
    /\ UNCHANGED <<pluginVars, wire, gen, readVars, mapVars, buf, callVars, stop, failing, flagged>>

\* Mutant: the snapshot is copied but not taken out of the map.
SnapshotCopied(a) ==
    /\ LockFree
    /\ failing' = [failing EXCEPT ![a] = streams]
    /\ streams' = streams
    /\ pending' = [s \in Stream |-> <<>>]
    /\ UNCHANGED <<pluginVars, wire, gen, readVars, chan, buf, callVars, flagged>>

\* failActiveStreams takes the registered streams and forgets every pending
\* event, in one critical section.
Snapshot(a) ==
    /\ LockFree
    /\ failing' = [failing EXCEPT ![a] = streams]
    /\ streams' = {}
    /\ pending' = [s \in Stream |-> <<>>]
    /\ UNCHANGED <<pluginVars, wire, gen, readVars, chan, buf, callVars, flagged>>

WatchSnapshot == watch = "fail" /\ Snapshot("watch") /\ watch' = "failing" /\ UNCHANGED stop
StopSnapshot  == stop = "stopping" /\ Snapshot("stop") /\ stop' = "failing" /\ UNCHANGED watch

\* Outside in.mu: a non-blocking send of the error, lost when the channel is
\* full (or closed, by recover) ...
FailSend(a, s) ==
    /\ s \in failing[a] /\ flagged[a] = {}
    /\ flagged' = [flagged EXCEPT ![a] = {s}]
    /\ NonBlockingSend(s, 0)
    /\ UNCHANGED <<pluginVars, wire, gen, readVars, mapVars, callVars, watch, stop, failing>>

\* ... then the close of the channel.
FailClose(a, s) ==
    /\ s \in flagged[a]
    /\ chan'    = [chan EXCEPT ![s] = "closed"]
    /\ flagged' = [flagged EXCEPT ![a] = {}]
    /\ failing' = [failing EXCEPT ![a] = @ \ {s}]
    /\ UNCHANGED <<pluginVars, wire, gen, readVars, streams, pending, buf, callVars, watch, stop>>

\* time.Sleep(1s) over, watch looks at in.stopped again and calls Start.
WatchWake ==
    /\ watch = "failing" /\ failing["watch"] = {}
    /\ LockFree
    /\ watch' = IF stop = "run" THEN "reset" ELSE "gone"
    /\ UNCHANGED <<pluginVars, wire, gen, readVars, mapVars, buf, callVars, stop, failing, flagged>>

\* Start replaces both maps; the channels that were in them stay as they are.
StartReset ==
    /\ watch = "reset"
    /\ LockFree
    /\ streams' = {}
    /\ pending' = [s \in Stream |-> <<>>]
    /\ watch'   = "starting"
    /\ UNCHANGED <<pluginVars, wire, gen, readVars, chan, buf, callVars, stop, failing, flagged>>

\* The new process listens, Start dials, serves and publishes in.conn.
StartConnect ==
    /\ watch = "starting" /\ gen < MaxGen
    /\ gen'   = gen + 1
    /\ alive' = [alive EXCEPT ![gen + 1] = TRUE]
    /\ watch' = "handshake"
    /\ UNCHANGED <<plug, sent, wire, readVars, mapVars, buf, callVars, stop, failing, flagged>>

\* Mutant: pending is emptied when the new process is ready, not before it is
\* connected, and what came in meanwhile is lost.
HandshakeResets ==
    /\ watch = "handshake" /\ alive[gen] /\ ~closed[gen]
    /\ watch' = "wait"
    /\ pending' = [s \in Stream |-> <<>>]
    /\ UNCHANGED <<pluginVars, wire, gen, readVars, streams, chan, buf, callVars, stop, failing, flagged>>

\* plugin.handshake answered: a new watcher takes over.
HandshakeOk ==
    /\ watch = "handshake" /\ alive[gen] /\ ~closed[gen]
    /\ watch' = "wait"
    /\ UNCHANGED <<pluginVars, wire, gen, readVars, mapVars, buf, callVars, stop, failing, flagged>>

\* Start returns an error (spawn, socket, dial or handshake), killing the
\* process it had connected to; watch ignores the error and returns.
StartFail ==
    /\ watch \in {"starting", "handshake"}
    /\ alive' = IF watch = "handshake" THEN [alive EXCEPT ![gen] = FALSE] ELSE alive
    /\ watch' = "gone"
    /\ UNCHANGED <<plug, sent, wire, gen, readVars, mapVars, buf, callVars, stop, failing, flagged>>

\* Stop: sets in.stopped, fails the streams, closes in.conn, kills the process.
StopBegin ==
    /\ "stop" \in Faults /\ stop = "run"
    /\ LockFree
    /\ stop' = "stopping"
    /\ UNCHANGED <<pluginVars, wire, gen, readVars, mapVars, buf, callVars, watch, failing, flagged>>

StopClose ==
    /\ stop = "failing" /\ failing["stop"] = {}
    /\ closed' = [closed EXCEPT ![gen] = TRUE]
    /\ stop'   = "killing"
    /\ UNCHANGED <<pluginVars, wire, gen, at, mapVars, buf, callVars, watch, failing, flagged>>

StopKill ==
    /\ stop = "killing"
    /\ alive' = [alive EXCEPT ![gen] = FALSE]
    /\ stop'  = "stopped"
    /\ UNCHANGED <<plug, sent, wire, gen, readVars, mapVars, buf, callVars, watch, failing, flagged>>

-----------------------------------------------------------------------------
HandlerStep(s) ==
    \/ CallFail(s) \/ RejectedReturn(s) \/ OpenStream(s) \/ DrainBlocks(s)
    \/ Consume(s) \/ RangeEnd(s) \/ HandlerReturn(s)

CancelStep(s) == CancelCall(s) \/ CancelClose(s)

ReaderStep(g) ==
    \/ ReadReply(g) \/ LookupMiss(g) \/ LookupHit(g)
    \/ SendEvent(g) \/ CloseTerminal(g) \/ ReadEOF(g)

PluginStep(s) == Accept(s) \/ Reject(s) \/ Reply(s)

FailStep(a) == \E s \in Stream : FailSend(a, s) \/ FailClose(a, s)

WatchStep ==
    \/ WatchExit \/ WatchSnapshot \/ WatchWake \/ StartReset
    \/ StartConnect \/ HandshakeOk \/ StartFail

StopStep == StopSnapshot \/ StopClose \/ StopKill

Next ==
    \/ \E s \in Stream : CallStream(s) \/ Disconnect(s)
    \/ \E s \in Stream : HandlerStep(s) \/ CancelStep(s) \/ PluginStep(s)
    \/ \E s \in Stream, k \in Kind : Emit(s, k)
    \/ \E g \in 1 .. gen : ReaderStep(g)
    \/ \E a \in Actor : FailStep(a)
    \/ Crash \/ StopBegin
    \/ WatchStep \/ StopStep

Spec == Init /\ [][Next]_vars

\* Fairness: every goroutine of the host that can run does run, the client of
\* an open connection reads, the plugin answers a request it has.  Requests,
\* disconnections, further events, crashes and Stop need not happen.
Fairness ==
    /\ \A s \in Stream : WF_vars(HandlerStep(s)) /\ WF_vars(CancelStep(s)) /\ WF_vars(PluginStep(s))
    /\ \A g \in Gen : WF_vars(g <= gen /\ ReaderStep(g))
    /\ \A a \in Actor : WF_vars(FailStep(a))
    /\ WF_vars(WatchStep) /\ WF_vars(StopStep)

FairSpec == Spec /\ Fairness
-----------------------------------------------------------------------------
(* Type invariant.                                                         *)

Message == [id : Stream, n : Nat]

\* The values each variable ranges over.
TypeOK ==
    /\ alive \in [Gen -> BOOLEAN]
    /\ plug \in [Stream -> {"none", "asked", "opened", "replied", "rejected"}]
    /\ sent \in [Stream -> Seq(Kind)]
    /\ wire \in [Gen -> Seq(Message)]
    /\ gen \in Gen
    /\ closed \in [Gen -> BOOLEAN]
    /\ at \in [Gen -> {"read", "send", "close", "eof"}]
    /\ \A g \in Gen : at[g] \in {"send", "close"} => wire[g] # <<>>
    /\ streams \subseteq Stream
    /\ pending \in [Stream -> Seq(Nat)]
    /\ chan \in [Stream -> {"none", "open", "closed"}]
    /\ buf \in [Stream -> Seq(Nat)]
    /\ pc \in [Stream -> {"idle", "calling", "answered", "stuck", "reading",
                          "drained", "done", "failed"}]
    /\ conn \in [Stream -> Gen]
    /\ gone \in [Stream -> BOOLEAN]
    /\ got \in [Stream -> Seq(Nat)]
    /\ cx \in [Stream -> {"none", "calling", "done"}]
    /\ watch \in {"wait", "fail", "failing", "reset", "starting", "handshake", "gone"}
    /\ stop \in {"run", "stopping", "failing", "killing", "stopped"}
    /\ failing \in [Actor -> SUBSET Stream]
    /\ flagged \in [Actor -> SUBSET Stream]

-----------------------------------------------------------------------------
(* Safety.                                                                 *)

\* Every open channel has exactly one party that will close it: the map `streams`
\* (closeStreamLocked) or one failActiveStreams that took it out of the map.  So
\* no close ever meets a closed channel, whatever crash, Stop, cancel and
\* terminal event race (the recover around close(ch) is never needed), and no
\* handler ranges over a channel that everybody has forgotten; only the reset of
\* the maps in Start, under a stream of the process before, forgets one.
CloseOnce ==
    /\ \A s \in streams : chan[s] = "open"
    /\ \A a \in Actor : \A s \in failing[a] : chan[s] = "open" /\ s \notin streams
    /\ failing["watch"] \cap failing["stop"] = {}
    /\ \A s \in Stream : chan[s] = "open" =>
        \/ s \in streams \cup failing["watch"] \cup failing["stop"]
        \/ conn[s] < gen \/ watch \in {"starting", "gone"}

Finished(s) == pc[s] \in {"drained", "done"}

\* The process that serves s lives, and the instance is not being stopped.
Spared(s) == alive[conn[s]] /\ stop = "run"

\* Handlers answer a drained stream with finish chunk, [DONE] and status "ok":
\* unless the client left, that must follow a terminal event.
HonestEnd ==
    \A s \in Stream :
        Finished(s) /\ ~gone[s] => \E i \in DOMAIN got[s] : IsTerminal(s, got[s][i])

\* A stream never has events both in its channel's hands and in pending (they
\* would be delivered out of order or never), and one whose only terminal
\* event was its last, whose client stayed, leaves nothing in the map.
PendingHygiene ==
    \A s \in Stream :
        /\ s \in streams => pending[s] = <<>>
        /\ /\ pc[s] = "done" /\ ~gone[s] /\ Spared(s)
           /\ \A i \in DOMAIN sent[s] : sent[s][i] # "data" => i = Len(sent[s])
           => pending[s] = <<>>

\* A fault harms only the streams of the process that it ends: while the process
\* that serves a stream lives and the instance is not being stopped, whatever
\* became of earlier processes and of their streams, no event goes astray: the
\* handler has received them from the first one on without a gap, none made up by
\* failActiveStreams, and until its channel is closed each of the others is in
\* the channel, in pending or on the socket.  The stream ends only after a
\* terminal event or because its client left, and there is none only when the
\* plugin refused it.
FaultsContained ==
    \A s \in Stream : Spared(s) =>
        /\ \A i \in DOMAIN got[s] : got[s][i] = i
        /\ chan[s] # "closed" => \A n \in DOMAIN sent[s] :
              \/ \E q \in {got[s], buf[s], pending[s]} : \E i \in DOMAIN q : q[i] = n
              \/ \E i \in DOMAIN wire[conn[s]] : wire[conn[s]][i] = [id |-> s, n |-> n]
        /\ Finished(s) /\ ~gone[s] => \E i \in DOMAIN got[s] : IsTerminal(s, got[s][i])
        /\ pc[s] = "failed" /\ ~gone[s] => plug[s] = "rejected"

-----------------------------------------------------------------------------
(* Liveness, under Fairness.                                               *)

\* A disconnected client's handler returns, with the reader possibly blocked
\* on that very channel and the cancel call possibly timing out.
GoneEnds == \A s \in Stream : gone[s] ~> pc[s] \in {"done", "failed"}

\* Once the plugin has sent a terminal event the handler comes to its end,
\* even while another stream's full channel blocks the shared reader.
EndedEnds ==
    \A s \in Stream :
        (\E i \in DOMAIN sent[s] : sent[s][i] # "data") ~> pc[s] \in {"done", "failed"}

\* A stream open when the plugin dies comes to its end.
CrashEnds ==
    \A s \in Stream :
        (pc[s] = "reading" /\ ~alive[conn[s]]) ~> pc[s] \in {"done", "failed"}

-----------------------------------------------------------------------------
(* What a stream promises to its HTTP handler: module StreamDelivery.      *)

Delivery == INSTANCE StreamDelivery WITH
    Lossy <- {s \in Stream : Faults # {}},
    left  <- gone,
    over  <- [s \in Stream |-> IF pc[s] = "failed" THEN "refused"
                              ELSE IF pc[s] \in {"drained", "done"} THEN "ended" ELSE "no"]

\* A handler receives the plugin's events in the order they were emitted, none
\* twice and none lost without a fault, through pending, drain, channel and
\* restarts; and its stream ends once (onNotify, Stream, failActiveStreams).
Promised == Delivery!Spec

-----------------------------------------------------------------------------
(* What this module takes for granted: module Supervision.                 *)

Phase ==
    IF watch = "wait" THEN "watched"
    ELSE IF watch \in {"fail", "failing"} THEN "noticed"
    ELSE IF watch \in {"reset", "starting"} THEN "restarting"
    ELSE IF watch = "handshake" THEN "greeting" ELSE "left"

Stopping == IF stop \in {"failing", "killing"} THEN "stopping" ELSE stop

Supervisor ==
    INSTANCE Supervision WITH used <- gen, up <- alive[gen], phase <- Phase, stop <- Stopping

\* Crash, watch, Start and Stop treat the processes here as module Supervision
\* says and PluginLifecycle does in detail: no stream meets a sequence of
\* processes that the life cycle does not have.
ProcessesSupervised == Supervisor!Spec
=============================================================================
