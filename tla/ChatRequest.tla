----------------------------- MODULE ChatRequest -----------------------------
(***************************************************************************)
(* POST /v1/chat/completions: chatCompletions and handleStream of          *)
(* internal/api/openai.go, the request row that the trace session keeps in *)
(* the store (Start and Finish of internal/trace/trace.go), the counters,  *)
(* and the shutdown of internal/app/app.go around them.                    *)
(*                                                                         *)
(* The plugin's side of a stream is not repeated here: it is what          *)
(* StreamDelivery promises, which InstanceStreams is checked to keep.  So  *)
(* sent, got, left and over are the variables of that specification and    *)
(* each step on a stream is one of its steps.                              *)
(*                                                                         *)
(* The level is not "off".  request_events, the trace file and the audit   *)
(* handler take no part in what is stated here and are left out.           *)
(***************************************************************************)
EXTENDS Integers, Sequences, FiniteSets

CONSTANTS
    Request,
    Lossy,     \* requests whose stream a crash or a stop of the plugin may hit
    MaxEmit,   \* bound: the plugin emits MaxEmit[r] events for r
    MaxGot     \* bound: the handler of r receives MaxGot[r] events

ASSUME LossyAssumption == Lossy \subseteq Request
ASSUME LimitAssumption == MaxEmit \in [Request -> Nat] /\ MaxGot \in [Request -> Nat]

VARIABLES
    sent, got, left, over,   \* see StreamDelivery; left is r.Context() done
    pc,        \* pc[r]: where the handler is
    wire,      \* wire[r]: what it has written to the client, in order
    usage,     \* usage[r]: the plugin reported usage
    streamErr, \* streamErr[r]: an error event was received
    unsaid,    \* history: one of them carried no error object
    row,       \* row[r]: the row of table requests
    active,    \* gauge ActiveStreams
    total,     \* total[r]: labels under which RequestsTotal counted the request
    app,       \* where App.Run is
    late       \* history: App.Run did not wait for the handlers

streamVars == <<sent, got, left, over>>
appVars    == <<app, late>>
vars == <<sent, got, left, over, pc, wire, usage, streamErr, unsaid, row, active,
          total, app, late>>

Delivery == INSTANCE StreamDelivery WITH Stream <- Request

Init ==
    /\ Delivery!Init
    /\ pc        = [r \in Request |-> "idle"]
    /\ wire      = [r \in Request |-> <<>>]
    /\ usage     = [r \in Request |-> FALSE]
    /\ streamErr = [r \in Request |-> FALSE]
    /\ unsaid    = [r \in Request |-> FALSE]
    /\ row       = [r \in Request |-> [status |-> "none", tokens |-> FALSE]]
    /\ active    = 0
    /\ total     = [r \in Request |-> <<>>]
    /\ app       = "up"
    /\ late      = FALSE

\* The handler of r is at label l, and the program still runs.
At(r, l) == pc[r] = l /\ app # "exited"
Goto(r, l) == pc' = [pc EXCEPT ![r] = l]
Write(r, items) == wire' = [wire EXCEPT ![r] = @ \o items]
Count(r, label) == total' = [total EXCEPT ![r] = Append(@, label)]

StoreOpen == app \notin {"closed", "exited"}

\* Session.Finish and UpsertRequest; a closed store drops it, the error is ignored.
Finish(r, status, tokens) ==
    row' = IF StoreOpen
             THEN [row EXCEPT ![r] = [status |-> status, tokens |-> tokens]]
             ELSE row

-----------------------------------------------------------------------------
(* chatCompletions.                                                        *)

\* The body has been read; Trace.Start inserts the row.  A connection that was
\* open when Shutdown began may still send its request.
Accept(r) ==
    /\ pc[r] = "idle" /\ StoreOpen
    /\ row' = [row EXCEPT ![r] = [status |-> "started", tokens |-> FALSE]]
    /\ Goto(r, "parsing")
    /\ UNCHANGED <<streamVars, wire, usage, streamErr, unsaid, active, total, appVars>>

\* The body cannot be read: an error without a row.
BodyError(r) ==
    /\ pc[r] = "idle" /\ StoreOpen
    /\ Write(r, <<"refusal">>)
    /\ Goto(r, "done")
    /\ UNCHANGED <<streamVars, usage, streamErr, unsaid, row, active, total, appVars>>

\* Bad JSON, no model, bad reasoning level, unknown model, no such plugin:
\* the row is finished, then the client is told.
Refuse(r) ==
    /\ At(r, "parsing")
    /\ Finish(r, "error", FALSE)
    /\ Goto(r, "refusing")
    /\ UNCHANGED <<streamVars, wire, usage, streamErr, unsaid, active, total, appVars>>

WriteRefusal(r) ==
    /\ At(r, "refusing")
    /\ Write(r, <<"refusal">>)
    /\ Goto(r, "done")
    /\ UNCHANGED <<streamVars, usage, streamErr, unsaid, row, active, total, appVars>>

CallComplete(r) ==
    /\ At(r, "parsing")
    /\ Goto(r, "completing")
    /\ UNCHANGED <<streamVars, wire, usage, streamErr, unsaid, row, active, total, appVars>>

CompleteFails(r) ==
    /\ At(r, "completing")
    /\ Count(r, "error")
    /\ Finish(r, "error", FALSE)
    /\ Goto(r, "refusing")
    /\ UNCHANGED <<streamVars, wire, usage, streamErr, unsaid, active, appVars>>

Completes(r) ==
    /\ At(r, "completing")
    /\ Count(r, "ok")
    /\ \E tokens \in BOOLEAN : Finish(r, "ok", tokens)
    /\ Goto(r, "answering")
    /\ UNCHANGED <<streamVars, wire, usage, streamErr, unsaid, active, appVars>>

WriteAnswer(r) ==
    /\ At(r, "answering")
    /\ Write(r, <<"answer">>)
    /\ Goto(r, "done")
    /\ UNCHANGED <<streamVars, usage, streamErr, unsaid, row, active, total, appVars>>

-----------------------------------------------------------------------------
(* handleStream.                                                           *)

CallStream(r) ==
    /\ At(r, "parsing")
    /\ active' = active + 1
    /\ Goto(r, "opening")
    /\ UNCHANGED <<streamVars, wire, usage, streamErr, unsaid, row, total, appVars>>

\* Stream returns an error: it is counted, recorded, then told as JSON.
StreamRefused(r) ==
    /\ At(r, "opening")
    /\ Delivery!Refuse(r)
    /\ Count(r, "error")
    /\ Finish(r, "error", FALSE)
    /\ Goto(r, "rejecting")
    /\ UNCHANGED <<wire, usage, streamErr, unsaid, active, appVars>>

\* Mutant: the gauge is decremented here as well as by the deferred call.
RejectAndDec(r) ==
    /\ At(r, "rejecting")
    /\ Write(r, <<"refusal">>)
    /\ active' = active - 1
    /\ Goto(r, "returning")
    /\ UNCHANGED <<streamVars, usage, streamErr, unsaid, row, total, appVars>>

WriteRejection(r) ==
    /\ At(r, "rejecting")
    /\ Write(r, <<"refusal">>)
    /\ Goto(r, "returning")
    /\ UNCHANGED <<streamVars, usage, streamErr, unsaid, row, active, total, appVars>>

StreamOpens(r) ==
    /\ At(r, "opening")
    /\ Write(r, <<"header">>)
    /\ Goto(r, "ranging")
    /\ UNCHANGED <<streamVars, usage, streamErr, unsaid, row, active, total, appVars>>

\* What the channel has just delivered to r.
LastKind(r) ==
    LET n == got'[r][Len(got'[r])]
    IN  IF n = 0 THEN "error" ELSE sent[r][n]

\* stream_start, text and tool deltas become chunks, usage is kept for the end,
\* a tool call's end or an empty delta writes nothing.
TakeData(r) ==
    /\ At(r, "ranging") /\ Len(got[r]) < MaxGot[r]
    /\ Delivery!Deliver(r)
    /\ LastKind(r) = "data"
    /\ \/ Write(r, <<"chunk">>) /\ usage' = usage
       \/ UNCHANGED <<wire, usage>>
       \/ wire' = wire /\ usage' = [usage EXCEPT ![r] = TRUE]
    /\ UNCHANGED <<pc, streamErr, unsaid, row, active, total, appVars>>

\* Mutant: the end event is taken for the end of the stream and recorded.
TakeEndRecords(r) ==
    /\ At(r, "ranging") /\ Len(got[r]) < MaxGot[r]
    /\ Delivery!Deliver(r)
    /\ LastKind(r) = "end"
    /\ Finish(r, "ok", usage[r])
    /\ UNCHANGED <<pc, wire, usage, streamErr, unsaid, active, total, appVars>>

TakeEnd(r) ==
    /\ At(r, "ranging") /\ Len(got[r]) < MaxGot[r]
    /\ Delivery!Deliver(r)
    /\ LastKind(r) = "end"
    /\ \E more \in BOOLEAN : usage' = [usage EXCEPT ![r] = @ \/ more]
    /\ UNCHANGED <<pc, wire, streamErr, unsaid, row, active, total, appVars>>

\* Mutant: streamErr is not set.
TakeErrorForgets(r) ==
    /\ At(r, "ranging") /\ Len(got[r]) < MaxGot[r]
    /\ Delivery!Deliver(r)
    /\ LastKind(r) = "error"
    /\ Write(r, <<"error">>)
    /\ Finish(r, "error", FALSE)
    /\ UNCHANGED <<pc, usage, streamErr, unsaid, active, total, appVars>>

\* Mutant: each error event is counted.
TakeErrorCounts(r) ==
    /\ At(r, "ranging") /\ Len(got[r]) < MaxGot[r]
    /\ Delivery!Deliver(r)
    /\ LastKind(r) = "error"
    /\ streamErr' = [streamErr EXCEPT ![r] = TRUE]
    /\ Write(r, <<"error">>)
    /\ Finish(r, "error", FALSE)
    /\ Count(r, "error")
    /\ UNCHANGED <<pc, usage, unsaid, active, appVars>>

\* An error event is written and recorded at once; the loop goes on.
TakeError(r) ==
    /\ At(r, "ranging") /\ Len(got[r]) < MaxGot[r]
    /\ Delivery!Deliver(r)
    /\ LastKind(r) = "error"
    /\ streamErr' = [streamErr EXCEPT ![r] = TRUE]
    /\ Write(r, <<"error">>)
    /\ Finish(r, "error", FALSE)
    /\ UNCHANGED <<pc, usage, unsaid, active, total, appVars>>

\* A plugin's error event without an error object leaves no trace.
TakeBareError(r) ==
    /\ At(r, "ranging") /\ Len(got[r]) < MaxGot[r]
    /\ Delivery!Deliver(r)
    /\ LastKind(r) = "error" /\ got'[r][Len(got'[r])] # 0
    /\ streamErr' = [streamErr EXCEPT ![r] = TRUE]
    /\ unsaid'    = [unsaid EXCEPT ![r] = TRUE]
    /\ UNCHANGED <<pc, wire, usage, row, active, total, appVars>>

RangeEnds(r) ==
    /\ At(r, "ranging")
    /\ Delivery!End(r)
    /\ Goto(r, "ended")
    /\ UNCHANGED <<wire, usage, streamErr, unsaid, row, active, total, appVars>>

\* The context is looked at first, so a client that left overrides an error.
ConcludeLeft(r) ==
    /\ At(r, "ended") /\ left[r]
    /\ Finish(r, "canceled", FALSE)
    /\ Goto(r, "returning")
    /\ UNCHANGED <<streamVars, wire, usage, streamErr, unsaid, active, total, appVars>>

ConcludeError(r) ==
    /\ At(r, "ended") /\ ~left[r] /\ streamErr[r]
    /\ Write(r, <<"done">>)
    /\ Count(r, "error")
    /\ Goto(r, "returning")
    /\ UNCHANGED <<streamVars, usage, streamErr, unsaid, row, active, appVars>>

\* Mutant: the context is not looked at.
OkWhoeverLeft(r) ==
    /\ At(r, "ended") /\ ~streamErr[r]
    /\ Write(r, IF usage[r] THEN <<"final", "usage", "done">> ELSE <<"final", "done">>)
    /\ Goto(r, "recording")
    /\ UNCHANGED <<streamVars, usage, streamErr, unsaid, row, active, total, appVars>>

\* The final chunk, the usage chunk right before [DONE] ...
ConcludeOk(r) ==
    /\ At(r, "ended") /\ ~left[r] /\ ~streamErr[r]
    /\ Write(r, IF usage[r] THEN <<"final", "usage", "done">> ELSE <<"final", "done">>)
    /\ Goto(r, "recording")
    /\ UNCHANGED <<streamVars, usage, streamErr, unsaid, row, active, total, appVars>>

\* ... and only then the row.
RecordOk(r) ==
    /\ At(r, "recording")
    /\ Finish(r, "ok", usage[r])
    /\ Count(r, "ok")
    /\ Goto(r, "returning")
    /\ UNCHANGED <<streamVars, wire, usage, streamErr, unsaid, active, appVars>>

\* The deferred handle.Cancel and gauge.
Return(r) ==
    /\ At(r, "returning")
    /\ active' = active - 1
    /\ Goto(r, "done")
    /\ UNCHANGED <<streamVars, wire, usage, streamErr, unsaid, row, total, appVars>>

-----------------------------------------------------------------------------
(* The plugin and the client of a stream.                                  *)

PluginEmits(r) ==
    /\ pc[r] \in {"opening", "ranging"} /\ app # "exited"
    /\ Len(sent[r]) < MaxEmit[r]
    /\ Delivery!Emit(r)
    /\ UNCHANGED <<pc, wire, usage, streamErr, unsaid, row, active, total, appVars>>

ClientLeaves(r) ==
    /\ pc[r] \notin {"idle", "done"} /\ app # "exited"
    /\ Delivery!Leave(r)
    /\ UNCHANGED <<pc, wire, usage, streamErr, unsaid, row, active, total, appVars>>

-----------------------------------------------------------------------------
(* App.Run.                                                                *)

Busy == {r \in Request : pc[r] \notin {"idle", "done"}}

Signal ==
    /\ app = "up"
    /\ app' = "draining"
    /\ UNCHANGED <<streamVars, pc, wire, usage, streamErr, unsaid, row, active, total, late>>

\* Mutant: Close instead of Shutdown, handlers are not waited for.
DrainedEarly ==
    /\ app = "draining"
    /\ app' = "closed"
    /\ UNCHANGED <<streamVars, pc, wire, usage, streamErr, unsaid, row, active, total, late>>

\* Shutdown returns when no handler runs, and the store is closed.
Drained ==
    /\ app = "draining" /\ Busy = {}
    /\ app' = "closed"
    /\ UNCHANGED <<streamVars, pc, wire, usage, streamErr, unsaid, row, active, total, late>>

\* Its 10 s are over before that.
DrainTimeout ==
    /\ app = "draining" /\ Busy # {}
    /\ app'  = "closed"
    /\ late' = TRUE
    /\ UNCHANGED <<streamVars, pc, wire, usage, streamErr, unsaid, row, active, total>>

\* A server that cannot listen ends Run without Shutdown and without Close.
ListenFails ==
    /\ app = "up"
    /\ app'  = "failing"
    /\ late' = TRUE
    /\ UNCHANGED <<streamVars, pc, wire, usage, streamErr, unsaid, row, active, total>>

\* The deferred StopAll is over: the program ends, whatever handlers do.
Exit ==
    /\ app \in {"closed", "failing"}
    /\ app' = "exited"
    /\ UNCHANGED <<streamVars, pc, wire, usage, streamErr, unsaid, row, active, total, late>>

-----------------------------------------------------------------------------
Handler(r) ==
    \/ Accept(r) \/ BodyError(r) \/ Refuse(r) \/ WriteRefusal(r)
    \/ CallComplete(r) \/ CompleteFails(r) \/ Completes(r) \/ WriteAnswer(r)
    \/ CallStream(r) \/ StreamRefused(r) \/ WriteRejection(r) \/ StreamOpens(r)
    \/ TakeData(r) \/ TakeEnd(r) \/ TakeError(r) \/ TakeBareError(r) \/ RangeEnds(r)
    \/ ConcludeLeft(r) \/ ConcludeError(r) \/ ConcludeOk(r) \/ RecordOk(r) \/ Return(r)

Environment(r) == PluginEmits(r) \/ ClientLeaves(r)

AppStep == Signal \/ Drained \/ DrainTimeout \/ ListenFails \/ Exit

Next == (\E r \in Request : Handler(r) \/ Environment(r)) \/ AppStep

Spec == Init /\ [][Next]_vars
-----------------------------------------------------------------------------
Streaming == {"opening", "rejecting", "ranging", "ended", "recording", "returning"}

Wrote(r, item) == \E i \in DOMAIN wire[r] : wire[r][i] = item

\* The values each variable ranges over; the gauge counts the open streams.
TypeOK ==
    /\ pc \in [Request -> Streaming \cup {"idle", "parsing", "refusing", "completing", "answering", "done"}]
    /\ wire \in [Request -> Seq({"refusal", "answer", "header", "chunk", "error", "final", "usage", "done"})]
    /\ usage \in [Request -> BOOLEAN]
    /\ streamErr \in [Request -> BOOLEAN]
    /\ unsaid \in [Request -> BOOLEAN]
    /\ row \in [Request -> [status : {"none", "started", "ok", "error", "canceled"}, tokens : BOOLEAN]]
    /\ active = Cardinality({r \in Request : pc[r] \in Streaming})
    /\ total \in [Request -> Seq({"ok", "error"})]
    /\ app \in {"up", "draining", "closed", "failing", "exited"}
    /\ late \in BOOLEAN

\* A client is sent one JSON document, or a stream whose header comes first,
\* whose [DONE] comes last and at most once, whose usage chunk stands right
\* before [DONE], and which never both fails and finishes, whatever terminal
\* and fault events reach the loop and in whatever order.
SseShape ==
    \A r \in Request : LET w == wire[r] IN
        /\ \A i \in DOMAIN w :
            /\ w[i] \in {"refusal", "answer"} => Len(w) = 1
            /\ w[i] = "header" => i = 1
            /\ w[i] \notin {"refusal", "answer"} => w[1] = "header"
            /\ w[i] = "done" => i = Len(w)
            /\ w[i] = "usage" => i = Len(w) - 1 /\ w[i - 1] = "final"
        /\ ~(Wrote(r, "final") /\ Wrote(r, "error"))

\* When the handler has returned, the stored row says what the client saw: ok
\* for an answer or a finished stream (with tokens iff usage was shown), error
\* for an error document or an error chunk, canceled only for a client that
\* left; and it is finished, unless the store was closed or the plugin sent an
\* error event without an error.  RequestsTotal has counted the request at most
\* once, and under the outcome its client saw: not at all when it was refused
\* before routing or left by its client.
RowTellsClient ==
    \A r \in Request : pc[r] = "done" =>
        /\ CASE row[r].status = "ok" ->
                  /\ Wrote(r, "answer") \/ (Wrote(r, "final") /\ Wrote(r, "done"))
                  /\ Wrote(r, "header") => row[r].tokens = Wrote(r, "usage")
             [] row[r].status = "error"    -> Wrote(r, "refusal") \/ Wrote(r, "error")
             [] row[r].status = "canceled" -> left[r] /\ ~Wrote(r, "done")
             [] row[r].status = "started"  -> unsaid[r] \/ ~StoreOpen
             [] row[r].status = "none"     -> wire[r] = <<"refusal">>
        /\ CASE total[r] = <<"ok">>    -> Wrote(r, "answer") \/ Wrote(r, "final")
             [] total[r] = <<"error">> -> Wrote(r, "refusal") \/ (streamErr[r] /\ Wrote(r, "done"))
             [] total[r] = <<>>        -> wire[r] = <<"refusal">> \/ left[r]
             [] OTHER                  -> FALSE

\* A stream that no fault of the plugin hit is recorded as ok only when all its
\* events up to the terminal one reached the handler and none was an error.
\* This joins the handler's bookkeeping to the promise of StreamDelivery.
OkIsComplete ==
    \A r \in Request \ Lossy : row[r].status = "ok" /\ Wrote(r, "header") =>
        /\ \E n \in Delivery!Delivered(r) : sent[r][n] = "end" /\ 1 .. n \subseteq Delivery!Delivered(r)
        /\ \A n \in Delivery!Delivered(r) : sent[r][n] # "error"

\* Once finished, a row keeps its outcome.  The exception is an error, which
\* another error replaces, and which the client's leaving turns into canceled.
OutcomeStays ==
    [][\A r \in Request : row[r].status \in {"ok", "error", "canceled"} /\ row'[r] # row[r] =>
          row[r].status = "error" /\ row'[r].status = "canceled" /\ left[r]]_vars

\* After a shutdown that waited for the handlers no request is stored as
\* started for ever: the store is closed after the last Finish.
DrainKeeps ==
    app \in {"closed", "exited"} /\ ~late =>
        \A r \in Request : row[r].status = "started" => unsaid[r]
=============================================================================
