----------------------------- MODULE AuditTrail -----------------------------
(***************************************************************************)
(* The trace of a request: what its handler and the plugin's audit         *)
(* notifications write through a trace session into the store              *)
(* (internal/trace/trace.go, internal/plugin/runtime.go onTrace,           *)
(* internal/store/store.go).                                               *)
(*                                                                         *)
(* A handler and the goroutine that reads the plugin's connection share    *)
(* the session: its sequence number, its payload and, through the store,   *)
(* the table of events.  They meet in the instance's map of trace          *)
(* handlers.  The plugin says what PluginStream shows it says; a crash is  *)
(* seen here only as the error its report gives the call or the stream     *)
(* (InstanceStreams has the report that is dropped).                       *)
(***************************************************************************)
EXTENDS Integers, Sequences, FiniteSets

CONSTANTS
    Request,
    Reader,    \* the goroutine of Serve
    SockCap    \* bound: messages on the connection

ASSUME RequestAssumption == Reader \notin Request
ASSUME SockAssumption    == SockCap \in Nat \ {0}

VARIABLES
    level,    \* Service.level, from the configuration
    mode,     \* mode[r]: the client asked for a stream or a completion
    pc,       \* pc[r]: where the handler is
    left,     \* left[r]: the client has gone, the request's context is done
    outcome,  \* outcome[r]: what the handler gives to Finish
    row,      \* row[r]: status of the request's row
    seq,      \* seq[r]: Session.seq
    payload,  \* payload[r]: provider parts of Session.payload
    copy,     \* copy[r]: the payload Finish has copied
    file,     \* file[r]: the provider parts in the trace file, or NoFile
    slot,     \* slot[a]: the event actor a is about to insert
    events,   \* request_events
    lost,     \* events whose INSERT failed
    late,     \* late[r]: events inserted after the handler returned
    onTrace,  \* requests with a trace handler
    reader,   \* where the reader is
    cur,      \* the audit it handles
    wire,     \* the connection
    plug,     \* plug[r]: how far the plugin is with r, but for the reply
    replied,  \* streams whose id it has sent
    reply,    \* reply[r]: the answer the call has got
    chan      \* chan[r]: stream events for the handler

reqVars   == <<level, mode>>
handVars  == <<pc, left, outcome, copy>>
storeVars == <<events, lost, late>>
readVars  == <<reader, cur>>
plugVars  == <<wire, plug, replied>>
inVars    == <<reply, chan>>
vars == <<level, mode, pc, left, outcome, row, seq, payload, copy, file, slot, events, lost,
          late, onTrace, reader, cur, wire, plug, replied, reply, chan>>

Actor  == Request \cup {Reader}
Parts  == {"request", "response"}
NoFile == {"none"}
Audits == {"request", "response", "provider_error", "started", "first", "finished"}
Own    == {"prepared", "client_response", "stream_started", "first_chunk", "stream_finished"}
Answer == {"result", "refusal", "reply"}
Event  == {"data", "error", "end"}
Row    == [req : Request, seq : Nat, type : Audits \cup Own]

Init ==
    /\ level \in {"off", "metadata", "full"}
    /\ mode    = [r \in Request |-> "none"]
    /\ pc      = [r \in Request |-> "idle"]
    /\ left    = [r \in Request |-> FALSE]
    /\ outcome = [r \in Request |-> "none"]
    /\ row     = [r \in Request |-> "none"]
    /\ seq     = [r \in Request |-> 0]
    /\ payload = [r \in Request |-> {}]
    /\ copy    = [r \in Request |-> {}]
    /\ file    = [r \in Request |-> NoFile]
    /\ slot    = [a \in Actor |-> {}]
    /\ events  = {}
    /\ lost    = {}
    /\ late    = [r \in Request |-> 0]
    /\ onTrace = {}
    /\ reader  = "read"
    /\ cur     = {}
    /\ wire    = <<>>
    /\ plug    = [r \in Request |-> "none"]
    /\ replied = {}
    /\ reply   = [r \in Request |-> "none"]
    /\ chan    = [r \in Request |-> <<>>]

At(r, l)     == pc[r] = l /\ slot[r] = {}
Become(r, l) == pc' = [pc EXCEPT ![r] = l]

-----------------------------------------------------------------------------
(* Session.event: a number under the lock, the INSERT after it.            *)

\* Mutant: the number is taken from the table.
SeqFromTable(a, r, type) ==
    LET n == Cardinality({e \in events : e.req = r}) + 1
    IN  IF level = "off"
          THEN UNCHANGED <<seq, slot>>
          ELSE /\ seq'  = [seq EXCEPT ![r] = n]
               /\ slot' = [slot EXCEPT ![a] = {[req |-> r, seq |-> n, type |-> type]}]

TakeSeq(a, r, type) ==
    IF level = "off"
      THEN UNCHANGED <<seq, slot>>
      ELSE /\ seq'  = [seq EXCEPT ![r] = @ + 1]
           /\ slot' = [slot EXCEPT ![a] = {[req |-> r, seq |-> seq[r] + 1, type |-> type]}]

\* The INSERT may fail; the error is ignored.
InsertEvent(a) ==
    /\ \E e \in slot[a] :
        /\ \/ events' = events \cup {e} /\ UNCHANGED lost
           \/ lost' = lost \cup {e} /\ UNCHANGED events
        /\ late' = [late EXCEPT ![e.req] = IF pc[e.req] = "returned" THEN @ + 1 ELSE @]
    /\ slot' = [slot EXCEPT ![a] = {}]
    /\ UNCHANGED <<reqVars, handVars, row, seq, payload, file, onTrace, readVars, plugVars, inVars>>

\* A call of StreamMeta, which writes nothing at the full level.
StreamMeta(r, kind) ==
    IF level = "full" THEN UNCHANGED <<seq, slot>> ELSE TakeSeq(r, r, kind)

-----------------------------------------------------------------------------
(* The handler.                                                            *)

\* Trace.Start, the events before the call (client_raw, routing, normalized
\* and plugin_request, here "prepared"), SetTraceHandler and the call.
Begin(r) ==
    /\ At(r, "idle")
    /\ \E m \in {"complete", "stream"} : mode' = [mode EXCEPT ![r] = m]
    /\ row' = [row EXCEPT ![r] = IF level = "off" THEN @ ELSE "started"]
    /\ IF level = "off"
         THEN UNCHANGED <<seq, events>>
         ELSE /\ seq'    = [seq EXCEPT ![r] = @ + 1]
              /\ events' = events \cup {[req |-> r, seq |-> seq[r] + 1, type |-> "prepared"]}
    /\ onTrace' = onTrace \cup {r}
    /\ plug'    = [plug EXCEPT ![r] = "asked"]
    /\ Become(r, "calling")
    /\ UNCHANGED <<level, left, outcome, payload, copy, file, slot, lost, late, readVars, wire, replied, inVars>>

ClientLeaves(r) ==
    /\ pc[r] \notin {"idle", "returned"} /\ ~left[r]
    /\ left' = [left EXCEPT ![r] = TRUE]
    /\ UNCHANGED <<reqVars, pc, outcome, copy, row, seq, payload, file, slot, storeVars, onTrace,
                   readVars, plugVars, inVars>>

\* An error answer, or none: a done context, a deadline, a closed connection.
CallFails(r) ==
    /\ At(r, "calling") /\ reply[r] \in {"none", "refusal"}
    /\ outcome' = [outcome EXCEPT ![r] = "error"]
    /\ Become(r, "finishing")
    /\ UNCHANGED <<reqVars, left, copy, row, seq, payload, file, slot, storeVars, onTrace, readVars,
                   plugVars, inVars>>

\* A completion; ClientResponse is an event at the full level only.
Completes(r) ==
    /\ At(r, "calling") /\ reply[r] = "result"
    /\ IF level = "full" THEN TakeSeq(r, r, "client_response") ELSE UNCHANGED <<seq, slot>>
    /\ outcome' = [outcome EXCEPT ![r] = "ok"]
    /\ Become(r, "finishing")
    /\ UNCHANGED <<reqVars, left, copy, row, payload, file, storeVars, onTrace, readVars, plugVars, inVars>>

StreamOpens(r) ==
    /\ At(r, "calling") /\ reply[r] = "reply"
    /\ StreamMeta(r, "stream_started")
    /\ Become(r, "opened")
    /\ UNCHANGED <<reqVars, left, outcome, copy, row, payload, file, storeVars, onTrace, readVars,
                   plugVars, inVars>>

\* The first chunk has an event, too.
TakeData(r) ==
    /\ \/ At(r, "opened") /\ StreamMeta(r, "first_chunk")
       \/ At(r, "ranging") /\ UNCHANGED <<seq, slot>>
    /\ chan[r] # <<>> /\ Head(chan[r]) = "data"
    /\ chan' = [chan EXCEPT ![r] = Tail(@)]
    /\ Become(r, "ranging")
    /\ UNCHANGED <<reqVars, left, outcome, copy, row, payload, file, storeVars, onTrace, readVars,
                   plugVars, reply>>

Ranging(r) == At(r, "opened") \/ At(r, "ranging")

\* An error event, of the plugin or of failActiveStreams: Finish at once.
TakeError(r) ==
    /\ Ranging(r)
    /\ outcome' = [outcome EXCEPT ![r] = "error"]
    /\ Become(r, "finishing")
    /\ UNCHANGED <<reqVars, left, copy, row, seq, payload, file, slot, storeVars, onTrace, readVars,
                   plugVars, inVars>>

\* stream_end, or the channel is closed because the client has left.
RangeEnds(r) ==
    /\ Ranging(r)
    /\ left[r] \/ (chan[r] # <<>> /\ Head(chan[r]) = "end")
    /\ Become(r, "ended")
    /\ UNCHANGED <<reqVars, left, outcome, copy, row, seq, payload, file, slot, storeVars, onTrace,
                   readVars, plugVars, inVars>>

\* After the range: canceled, ok, or finished already with an error.
Conclude(r) ==
    /\ At(r, "ended")
    /\ IF left[r]
         THEN /\ outcome' = [outcome EXCEPT ![r] = "canceled"]
              /\ Become(r, "finishing")
              /\ UNCHANGED <<seq, slot>>
         ELSE IF outcome[r] = "error"
           THEN Become(r, "returning") /\ UNCHANGED <<outcome, seq, slot>>
           ELSE /\ StreamMeta(r, "stream_finished")
                /\ outcome' = [outcome EXCEPT ![r] = "ok"]
                /\ Become(r, "finishing")
    /\ UNCHANGED <<reqVars, left, copy, row, payload, file, storeVars, onTrace, readVars, plugVars, inVars>>

\* Where a handler goes on after Finish: an error event does not end the range.
AfterFinish(r) == IF reply[r] = "reply" /\ outcome[r] = "error" THEN "ended" ELSE "returning"

\* Finish: the session is copied under the lock and its row stored; at the
\* full level the file is written next.
FinishRow(r) ==
    /\ At(r, "finishing")
    /\ row'  = [row EXCEPT ![r] = IF level = "off" THEN @ ELSE outcome[r]]
    /\ copy' = [copy EXCEPT ![r] = payload[r]]
    /\ Become(r, IF level = "full" THEN "filing" ELSE AfterFinish(r))
    /\ UNCHANGED <<reqVars, left, outcome, seq, payload, file, slot, storeVars, onTrace, readVars,
                   plugVars, inVars>>

WriteFull(r) ==
    /\ At(r, "filing")
    /\ file' = [file EXCEPT ![r] = copy[r]]
    /\ Become(r, AfterFinish(r))
    /\ UNCHANGED <<reqVars, left, outcome, copy, row, seq, payload, slot, storeVars, onTrace, readVars,
                   plugVars, inVars>>

\* Mutant: the handler is not taken out of the map.
ReturnLeaving(r) ==
    /\ At(r, "returning")
    /\ Become(r, "returned")
    /\ UNCHANGED <<reqVars, left, outcome, copy, row, seq, payload, file, slot, storeVars, onTrace,
                   readVars, plugVars, inVars>>

\* Deferred: SetTraceHandler(reqID, nil).
Return(r) ==
    /\ At(r, "returning")
    /\ onTrace' = onTrace \ {r}
    /\ Become(r, "returned")
    /\ UNCHANGED <<reqVars, left, outcome, copy, row, seq, payload, file, slot, storeVars, readVars,
                   plugVars, inVars>>

-----------------------------------------------------------------------------
(* The reader: a notification is handled before the next message is read.  *)

\* Mutant: notifications are handled in no particular order.
FetchUnordered ==
    /\ reader = "read"
    /\ \E i \in DOMAIN wire :
        /\ wire[i].kind \in Audits
        /\ wire' = SubSeq(wire, 1, i - 1) \o SubSeq(wire, i + 1, Len(wire))
        /\ IF wire[i].req \in onTrace
             THEN cur' = {wire[i]} /\ reader' = "payload"
             ELSE UNCHANGED readVars
    /\ UNCHANGED <<reqVars, handVars, row, seq, payload, file, slot, storeVars, onTrace, plug, replied, inVars>>

\* onNotify takes the request's trace handler under in.mu; without one it is done.
FetchHandler ==
    /\ reader = "read" /\ wire # <<>> /\ Head(wire).kind \in Audits
    /\ wire' = Tail(wire)
    /\ IF Head(wire).req \in onTrace
         THEN cur' = {Head(wire)} /\ reader' = "payload"
         ELSE UNCHANGED readVars
    /\ UNCHANGED <<reqVars, handVars, row, seq, payload, file, slot, storeVars, onTrace, plug, replied, inVars>>

\* ProviderAudit: the payload under the lock, ...
AuditPayload ==
    /\ reader = "payload"
    /\ \E m \in cur : payload' = [payload EXCEPT ![m.req] = @ \cup ({m.kind} \cap Parts)]
    /\ reader' = "event"
    /\ UNCHANGED <<reqVars, handVars, row, seq, file, slot, storeVars, onTrace, cur, plugVars, inVars>>

\* ... then its event.
AuditEvent ==
    /\ reader = "event"
    /\ \E m \in cur : TakeSeq(Reader, m.req, m.kind)
    /\ reader' = "insert"
    /\ UNCHANGED <<reqVars, handVars, row, payload, file, storeVars, onTrace, cur, plugVars, inVars>>

AuditDone ==
    /\ reader = "insert" /\ slot[Reader] = {}
    /\ reader' = "read" /\ cur' = {}
    /\ UNCHANGED <<reqVars, handVars, row, seq, payload, file, slot, storeVars, onTrace, plugVars, inVars>>

\* Mutant: audits are handled by goroutines of their own.
DeliverMeanwhile ==
    /\ wire # <<>> /\ Head(wire).kind \notin Audits
    /\ wire' = Tail(wire)
    /\ LET m == Head(wire) IN
         IF m.kind \in Answer
           THEN reply' = [reply EXCEPT ![m.req] = m.kind] /\ UNCHANGED chan
           ELSE chan' = [chan EXCEPT ![m.req] = Append(@, m.kind)] /\ UNCHANGED reply
    /\ UNCHANGED <<reqVars, handVars, row, seq, payload, file, slot, storeVars, onTrace, readVars, plug, replied>>

\* An answer goes to its call, an event to the stream's channel.
Deliver ==
    /\ reader = "read" /\ wire # <<>> /\ Head(wire).kind \notin Audits
    /\ wire' = Tail(wire)
    /\ LET m == Head(wire) IN
         IF m.kind \in Answer
           THEN reply' = [reply EXCEPT ![m.req] = m.kind] /\ UNCHANGED chan
           ELSE chan' = [chan EXCEPT ![m.req] = Append(@, m.kind)] /\ UNCHANGED reply
    /\ UNCHANGED <<reqVars, handVars, row, seq, payload, file, slot, storeVars, onTrace, readVars, plug, replied>>

-----------------------------------------------------------------------------
(* The plugin: the order PluginStream keeps, and completion.execute.       *)

Say(r, kind, next) ==
    /\ Len(wire) < SockCap
    /\ wire' = Append(wire, [req |-> r, kind |-> kind])
    /\ plug' = [plug EXCEPT ![r] = next]

Outside ==
    UNCHANGED <<reqVars, handVars, row, seq, payload, file, slot, storeVars, onTrace, readVars, inVars>>

\* buildBody fails, or the request is audited before it is sent.
PluginStarts(r) ==
    /\ plug[r] = "asked"
    /\ Say(r, "refusal", "done") \/ Say(r, "request", "doing")
    /\ UNCHANGED replied /\ Outside

\* A transport error, an error status, or a response.
PluginHears(r) ==
    /\ plug[r] = "doing"
    /\ \/ \E kind \in {"provider_error", "response"} : Say(r, kind, "denied")
       \/ Say(r, "response", IF mode[r] = "stream" THEN "open" ELSE "answering")
    /\ UNCHANGED replied /\ Outside

\* The answer of a refused stream or of a completion.
PluginAnswers(r) ==
    /\ \/ plug[r] \in {"denied", "answering"} /\ Say(r, "refusal", "done")
       \/ plug[r] = "answering" /\ Say(r, "result", "done")
    /\ UNCHANGED replied /\ Outside

\* The answer of a stream, at any time after its producer has started.
PluginReplies(r) ==
    /\ mode[r] = "stream" /\ r \notin replied
    /\ plug[r] \in {"open", "started", "begun", "first", "flowing", "erred", "finished", "ended"}
    /\ Say(r, "reply", plug[r])
    /\ replied' = replied \cup {r} /\ Outside

\* The producer and forwardStream: what is said where, and what follows; of
\* what comes after an error only the end is kept, nothing else has a reader.
Sayings ==
    {<<"open", "started", "started">>, <<"started", "data", "begun">>,
     <<"begun", "first", "first">>, <<"first", "data", "flowing">>,
     <<"begun", "error", "erred">>, <<"flowing", "error", "erred">>,
     <<"begun", "error", "ended">>, <<"flowing", "error", "ended">>,
     <<"begun", "finished", "finished">>, <<"flowing", "finished", "finished">>,
     <<"erred", "finished", "finished">>, <<"finished", "end", "ended">>}

\* A cancelled producer returns, and forwardStream makes up a stream_end.
PluginStreams(r) ==
    /\ \/ \E s \in Sayings : plug[r] = s[1] /\ Say(r, s[2], s[3])
       \/ left[r] /\ plug[r] \in {"begun", "flowing"} /\ Say(r, "end", "ended")
    /\ UNCHANGED replied /\ Outside

-----------------------------------------------------------------------------
Handler(r) ==
    \/ Begin(r) \/ CallFails(r) \/ Completes(r) \/ StreamOpens(r) \/ TakeData(r) \/ TakeError(r)
    \/ RangeEnds(r) \/ Conclude(r) \/ FinishRow(r) \/ WriteFull(r) \/ Return(r)

Serve == FetchHandler \/ AuditPayload \/ AuditEvent \/ AuditDone \/ Deliver

Plugin(r) ==
    PluginStarts(r) \/ PluginHears(r) \/ PluginAnswers(r) \/ PluginReplies(r) \/ PluginStreams(r)

Next ==
    \/ \E r \in Request : Handler(r) \/ ClientLeaves(r) \/ Plugin(r)
    \/ \E a \in Actor : InsertEvent(a)
    \/ Serve

Spec == Init /\ [][Next]_vars

-----------------------------------------------------------------------------
\* The values each variable ranges over; what is on the wire fits.
TypeOK ==
    /\ level \in {"off", "metadata", "full"}
    /\ mode \in [Request -> {"none", "complete", "stream"}]
    /\ pc \in [Request -> {"idle", "calling", "opened", "ranging", "ended", "finishing", "filing",
                          "returning", "returned"}]
    /\ left \in [Request -> BOOLEAN]
    /\ outcome \in [Request -> {"none", "ok", "error", "canceled"}]
    /\ row \in [Request -> {"none", "started", "ok", "error", "canceled"}]
    /\ seq \in [Request -> Nat]
    /\ payload \in [Request -> SUBSET Parts]
    /\ copy \in [Request -> SUBSET Parts]
    /\ file \in [Request -> (SUBSET Parts) \cup {NoFile}]
    /\ slot \in [Actor -> SUBSET Row]
    /\ events \subseteq Row
    /\ lost \subseteq Row
    /\ late \in [Request -> Nat]
    /\ onTrace \subseteq Request
    /\ reader \in {"read", "payload", "event", "insert"}
    /\ cur \subseteq [req : Request, kind : Audits]
    /\ wire \in Seq([req : Request, kind : Audits \cup Answer \cup Event]) /\ Len(wire) <= SockCap
    /\ replied \subseteq Request
    /\ plug \in [Request -> {"none", "asked", "doing", "denied", "answering", "open", "started", "begun",
                            "first", "flowing", "erred", "finished", "ended", "done"}]
    /\ reply \in [Request -> {"none"} \cup Answer]
    /\ chan \in [Request -> Seq(Event)]

Numbered == events \cup lost \cup UNION {slot[a] : a \in Actor}

\* No two events of a request have the same number, though its handler and the
\* reader number them concurrently and insert them later.
SeqUnique ==
    \A e, f \in Numbered : e.req = f.req /\ e.seq = f.seq => e = f

Place(type) ==
    CASE type = "prepared" -> 0
      [] type = "request" -> 1
      [] type \in {"response", "provider_error"} -> 2
      [] type = "started" -> 3
      [] type = "first" -> 4
      [] type = "finished" -> 5

\* By their numbers a request's audits follow its own first events and each
\* other in the order of what happened at the upstream.
AuditOrder ==
    \A e, f \in Numbered :
        /\ e.req = f.req /\ {e.type, f.type} \subseteq Audits \cup {"prepared"}
        /\ Place(e.type) < Place(f.type)
        => e.seq < f.seq

Recorded(r, type) == \E e \in events \cup lost : e.req = r /\ e.type = type

\* When a request is stored as ok its trace is complete: the audits of the
\* upstream's request and response have gone to the store, a stream's end too,
\* and the file, once the handler is through, has both.  The answer follows, so
\* a client that asks for its trace finds them.  (A crash whose report is dropped
\* is not among the faults here: it may be stored as ok without its audits.)
TraceComplete ==
    \A r \in Request : row[r] = "ok" =>
        /\ Recorded(r, "request") /\ Recorded(r, "response")
        /\ mode[r] = "stream" => Recorded(r, "finished")
        /\ level = "full" /\ pc[r] \in {"returning", "returned"} => file[r] = Parts

\* A handler that has returned is followed by one event at most, of an audit
\* the reader had in its hands, and a successful one by none.
LateAudits ==
    \A r \in Request : late[r] <= 1 /\ (row[r] = "ok" => late[r] = 0)
=============================================================================
