---------------------------- MODULE PluginStream ----------------------------
(***************************************************************************)
(* Completion streams inside a plugin process: the SDK server              *)
(* (sdk/plugin/server.go) and, as its handler, the openai-compat plugin    *)
(* (plugins/openai-compat/main.go) that turns an upstream's SSE body into  *)
(* events.                                                                 *)
(*                                                                         *)
(* Goroutines per stream: the one that serves the request, the producer    *)
(* that scans the body, forwardStream, and the one that serves a cancel.   *)
(* They share the map of cancel functions, the producer's channel and the  *)
(* connection.  A write needs room in the socket; that it also holds       *)
(* Conn.mu is the subject of JsonRpc.                                      *)
(*                                                                         *)
(* said[s] is everything the plugin wrote about stream s, in order:        *)
(* audit notifications ("request", "response", "provider_error",           *)
(* "started", "first", "finished"), the answer ("reply" or "refusal") and  *)
(* stream events ("start", "text", "usage", "error", "end").               *)
(***************************************************************************)
EXTENDS Integers, Sequences

CONSTANTS
    Stream,
    ChCap,     \* capacity of the producer's channel (32 in the code)
    SockCap,   \* bound: messages the socket holds
    MaxLines   \* bound: MaxLines[s] lines of the body of s

ASSUME CapAssumption   == ChCap \in Nat \ {0} /\ SockCap \in Nat \ {0}
ASSUME LinesAssumption == MaxLines \in [Stream -> Nat]

VARIABLES
    streams,  \* Server.streams: streams with a cancel function
    ctx,      \* ctx[s]: the stream's context is cancelled
    serve,    \* serve[s]: where the goroutine of completion.stream is
    prod,     \* prod[s]: where the producer is
    todo,     \* todo[s]: what it does before it goes on: audits and sends
    lines,    \* lines[s]: lines it has scanned
    first,    \* first[s]: no text has been seen
    usage,    \* usage[s]: the upstream reported usage
    body,     \* body[s]: how the body ended
    ch,       \* ch[s]: events in the producer's channel
    open,     \* open[s]: that channel is not closed
    fwd,      \* fwd[s]: where forwardStream is
    held,     \* held[s]: the event it has received and not yet written
    ended,    \* ended[s]: it has seen a terminal event
    cancel,   \* cancel[s]: where the host's completion.cancel is
    wire,     \* messages in the socket
    said,     \* said[s]: what was written about s
    sent      \* sent[s]: the kinds of the events among it

ctxVars  == <<streams, ctx>>
bodyVars == <<lines, first, usage, body>>
prodVars == <<prod, todo, lines, first, usage, body>>
chanVars == <<ch, open>>
fwdVars  == <<fwd, held, ended>>
outVars  == <<wire, said, sent>>
vars == <<streams, ctx, serve, prod, todo, lines, first, usage, body, ch, open,
          fwd, held, ended, cancel, wire, said, sent>>

Init ==
    /\ streams = {}
    /\ ctx    = [s \in Stream |-> FALSE]
    /\ serve  = [s \in Stream |-> "idle"]
    /\ prod   = [s \in Stream |-> "none"]
    /\ todo   = [s \in Stream |-> <<>>]
    /\ lines  = [s \in Stream |-> 0]
    /\ first  = [s \in Stream |-> TRUE]
    /\ usage  = [s \in Stream |-> FALSE]
    /\ body   = [s \in Stream |-> "open"]
    /\ ch     = [s \in Stream |-> <<>>]
    /\ open   = [s \in Stream |-> TRUE]
    /\ fwd    = [s \in Stream |-> "none"]
    /\ held   = [s \in Stream |-> <<>>]
    /\ ended  = [s \in Stream |-> FALSE]
    /\ cancel = [s \in Stream |-> "none"]
    /\ wire   = 0
    /\ said   = [s \in Stream |-> <<>>]
    /\ sent   = [s \in Stream |-> <<>>]

Audits == {"request", "response", "provider_error", "started", "first", "finished"}
Events == {"start", "text", "usage", "error", "end"}

\* The kinds that InstanceStreams and ChatRequest tell apart.
KindOf(event) == IF event \in {"error", "end"} THEN event ELSE "data"

\* Notify and WriteResult: wait for room, then write.
Say(s, what) ==
    /\ wire < SockCap
    /\ wire' = wire + 1
    /\ said' = [said EXCEPT ![s] = Append(@, what)]

Goto(s, l) == serve' = [serve EXCEPT ![s] = l]

-----------------------------------------------------------------------------
(* completion.stream.                                                      *)

\* Mutant: the entry is made by forwardStream, once the stream exists.
RegisterLater(s) ==
    /\ serve[s] = "idle"
    /\ Goto(s, "registered")
    /\ UNCHANGED <<ctxVars, prodVars, chanVars, fwdVars, cancel, outVars>>

\* The request is read; a context is made and its cancel function registered.
Register(s) ==
    /\ serve[s] = "idle"
    /\ streams' = streams \cup {s}
    /\ Goto(s, "registered")
    /\ UNCHANGED <<ctx, prodVars, chanVars, fwdVars, cancel, outVars>>

\* buildBody or newRequest fails.
BuildFails(s) ==
    /\ serve[s] = "registered"
    /\ Goto(s, "refused")
    /\ UNCHANGED <<ctxVars, prodVars, chanVars, fwdVars, cancel, outVars>>

AuditRequest(s) ==
    /\ serve[s] = "registered"
    /\ Say(s, "request")
    /\ Goto(s, "doing")
    /\ UNCHANGED <<ctxVars, prodVars, chanVars, fwdVars, cancel, sent>>

\* http.Do: a transport error, an HTTP error status, or headers and a body.
Do(s) ==
    /\ serve[s] = "doing"
    /\ \E l \in {"failed", "denied", "ok"} : Goto(s, l)
    /\ UNCHANGED <<ctxVars, prodVars, chanVars, fwdVars, cancel, outVars>>

AuditFailure(s) ==
    /\ serve[s] \in {"failed", "denied"}
    /\ Say(s, IF serve[s] = "failed" THEN "provider_error" ELSE "response")
    /\ Goto(s, "refused")
    /\ UNCHANGED <<ctxVars, prodVars, chanVars, fwdVars, cancel, sent>>

\* Mutant: the entry of a refused stream is left in the map.
RefuseLeaves(s) ==
    /\ serve[s] = "refused"
    /\ ctx' = [ctx EXCEPT ![s] = TRUE]
    /\ Goto(s, "refusing")
    /\ UNCHANGED <<streams, prodVars, chanVars, fwdVars, cancel, outVars>>

\* Handler.Stream returned an error: the context and its entry go first.
Refuse(s) ==
    /\ serve[s] = "refused"
    /\ ctx' = [ctx EXCEPT ![s] = TRUE]
    /\ streams' = streams \ {s}
    /\ Goto(s, "refusing")
    /\ UNCHANGED <<prodVars, chanVars, fwdVars, cancel, outVars>>

WriteRefusal(s) ==
    /\ serve[s] = "refusing"
    /\ Say(s, "refusal")
    /\ Goto(s, "rejected")
    /\ UNCHANGED <<ctxVars, prodVars, chanVars, fwdVars, cancel, sent>>

\* The response is audited, the producer started, ...
AuditResponse(s) ==
    /\ serve[s] = "ok"
    /\ Say(s, "response")
    /\ prod' = [prod EXCEPT ![s] = "scan"]
    /\ todo' = [todo EXCEPT ![s] = <<"started", "start">>]
    /\ Goto(s, "streaming")
    /\ UNCHANGED <<ctxVars, bodyVars, chanVars, fwdVars, cancel, sent>>

\* ... then forwardStream, ...
Forward(s) ==
    /\ serve[s] = "streaming"
    /\ fwd' = [fwd EXCEPT ![s] = "range"]
    /\ Goto(s, "replying")
    /\ UNCHANGED <<ctxVars, prodVars, chanVars, held, ended, cancel, outVars>>

\* ... and the stream id is the answer.
WriteReply(s) ==
    /\ serve[s] = "replying"
    /\ Say(s, "reply")
    /\ Goto(s, "replied")
    /\ UNCHANGED <<ctxVars, prodVars, chanVars, fwdVars, cancel, sent>>

-----------------------------------------------------------------------------
(* The producer.                                                           *)

Scanning(s) == prod[s] = "scan" /\ todo[s] = <<>>

\* An audit notification, or a send that waits for room in the channel.
Perform(s) ==
    /\ todo[s] # <<>>
    /\ IF Head(todo[s]) \in Audits
         THEN Say(s, Head(todo[s])) /\ UNCHANGED <<ch, sent>>
         ELSE /\ Len(ch[s]) < ChCap
              /\ ch' = [ch EXCEPT ![s] = Append(@, Head(todo[s]))]
              /\ UNCHANGED outVars
    /\ todo' = [todo EXCEPT ![s] = Tail(@)]
    /\ UNCHANGED <<ctxVars, serve, prod, bodyVars, open, fwdVars, cancel>>

\* Leave the loop and return after what is left to do.
Finish(s, how, rest) ==
    /\ prod' = [prod EXCEPT ![s] = "leave"]
    /\ body' = [body EXCEPT ![s] = how]
    /\ todo' = [todo EXCEPT ![s] = rest]

\* The end of Stream's goroutine: usage, audit, stream_end.
\* Mutant: stream_end is sent before the audit.
EndThenAudit(s) == IF usage[s] THEN <<"usage", "end", "finished">> ELSE <<"end", "finished">>

Ending(s) == IF usage[s] THEN <<"usage", "finished", "end">> ELSE <<"finished", "end">>

\* A line of text, of tool call deltas, or of an error object: events.
ScanChunk(s, event) ==
    /\ Scanning(s) /\ ~ctx[s] /\ lines[s] < MaxLines[s]
    /\ lines' = [lines EXCEPT ![s] = @ + 1]
    /\ todo'  = [todo EXCEPT ![s] =
                    IF event = "text" /\ first[s] THEN <<"first", "text">> ELSE <<event>>]
    /\ first' = [first EXCEPT ![s] = @ /\ event # "text"]
    /\ UNCHANGED <<ctxVars, serve, prod, usage, body, chanVars, fwdVars, cancel, outVars>>

ScanUsage(s) ==
    /\ Scanning(s) /\ ~ctx[s] /\ lines[s] < MaxLines[s]
    /\ lines' = [lines EXCEPT ![s] = @ + 1]
    /\ usage' = [usage EXCEPT ![s] = TRUE]
    /\ UNCHANGED <<ctxVars, serve, prod, todo, first, body, chanVars, fwdVars, cancel, outVars>>

\* A line that cannot be parsed: an error event, and the producer returns.
ScanBad(s) ==
    /\ Scanning(s) /\ ~ctx[s]
    /\ Finish(s, "bad", <<"error">>)
    /\ UNCHANGED <<ctxVars, serve, lines, first, usage, chanVars, fwdVars, cancel, outVars>>

\* [DONE], or the body ends without it (then there is no line after which the
\* context is looked at).
ScanEnd(s, how) ==
    /\ Scanning(s)
    /\ how = "done" => ~ctx[s]
    /\ Finish(s, how, Ending(s))
    /\ UNCHANGED <<ctxVars, serve, lines, first, usage, chanVars, fwdVars, cancel, outVars>>

\* Whatever the line, a cancelled context makes the producer return.
ScanCancelled(s) ==
    /\ Scanning(s) /\ ctx[s]
    /\ Finish(s, "cancelled", <<>>)
    /\ UNCHANGED <<ctxVars, serve, lines, first, usage, chanVars, fwdVars, cancel, outVars>>

\* Scan returns false with an error: the connection is cut, a time limit is
\* over or the context is cancelled.  The context is looked at afterwards.
ScanCut(s) ==
    /\ Scanning(s)
    /\ prod' = [prod EXCEPT ![s] = "cut"]
    /\ UNCHANGED <<ctxVars, serve, todo, bodyVars, chanVars, fwdVars, cancel, outVars>>

\* Mutant: sc.Err() is not looked at.
CutIgnored(s) ==
    /\ prod[s] = "cut"
    /\ Finish(s, "cut", Ending(s))
    /\ UNCHANGED <<ctxVars, serve, lines, first, usage, chanVars, fwdVars, cancel, outVars>>

CutSeen(s) ==
    /\ prod[s] = "cut"
    /\ IF ctx[s]
         THEN Finish(s, "cancelled", Ending(s))
         ELSE Finish(s, "cut", <<"error">>)
    /\ UNCHANGED <<ctxVars, serve, lines, first, usage, chanVars, fwdVars, cancel, outVars>>

\* Deferred: the body and the channel are closed.
Leave(s) ==
    /\ prod[s] = "leave" /\ todo[s] = <<>>
    /\ prod' = [prod EXCEPT ![s] = "done"]
    /\ open' = [open EXCEPT ![s] = FALSE]
    /\ UNCHANGED <<ctxVars, serve, todo, bodyVars, ch, fwdVars, cancel, outVars>>

-----------------------------------------------------------------------------
(* forwardStream.                                                          *)

Receive(s) ==
    /\ fwd[s] = "range" /\ held[s] = <<>> /\ ch[s] # <<>>
    /\ held'  = [held EXCEPT ![s] = <<Head(ch[s])>>]
    /\ ch'    = [ch EXCEPT ![s] = Tail(@)]
    /\ ended' = [ended EXCEPT ![s] = @ \/ Head(ch[s]) \in {"error", "end"}]
    /\ UNCHANGED <<ctxVars, serve, prodVars, open, fwd, cancel, outVars>>

NotifyEvent(s) ==
    /\ held[s] # <<>>
    /\ Say(s, Head(held[s]))
    /\ sent' = [sent EXCEPT ![s] = Append(@, KindOf(Head(held[s])))]
    /\ held' = [held EXCEPT ![s] = <<>>]
    /\ UNCHANGED <<ctxVars, serve, prodVars, chanVars, fwd, ended, cancel>>

\* Mutant: a stream_end is made up whether or not there was a terminal event.
RangeEndsAlways(s) ==
    /\ fwd[s] = "range" /\ held[s] = <<>> /\ ch[s] = <<>> /\ ~open[s]
    /\ fwd'  = [fwd EXCEPT ![s] = "clean"]
    /\ held' = [held EXCEPT ![s] = <<"end">>]
    /\ UNCHANGED <<ctxVars, serve, prodVars, chanVars, ended, cancel, outVars>>

\* The channel is closed; without a terminal event a stream_end is made up.
RangeEnds(s) ==
    /\ fwd[s] = "range" /\ held[s] = <<>> /\ ch[s] = <<>> /\ ~open[s]
    /\ fwd'  = [fwd EXCEPT ![s] = "clean"]
    /\ held' = [held EXCEPT ![s] = IF ended[s] THEN <<>> ELSE <<"end">>]
    /\ UNCHANGED <<ctxVars, serve, prodVars, chanVars, ended, cancel, outVars>>

\* Deferred: the context is cancelled and the entry deleted.
CleanUp(s) ==
    /\ fwd[s] = "clean" /\ held[s] = <<>>
    /\ ctx'     = [ctx EXCEPT ![s] = TRUE]
    /\ streams' = streams \ {s}
    /\ fwd'     = [fwd EXCEPT ![s] = "done"]
    /\ UNCHANGED <<serve, prodVars, chanVars, held, ended, cancel, outVars>>

-----------------------------------------------------------------------------
(* completion.cancel and the host's end of the socket.                     *)

\* The host knows the stream's id from the reply.
HostCancels(s) ==
    /\ serve[s] = "replied" /\ cancel[s] = "none"
    /\ cancel' = [cancel EXCEPT ![s] = "asked"]
    /\ UNCHANGED <<ctxVars, serve, prodVars, chanVars, fwdVars, outVars>>

\* The cancel function is taken out under s.mu ...
CancelLookup(s) ==
    /\ cancel[s] = "asked"
    /\ cancel' = [cancel EXCEPT ![s] = IF s \in streams THEN "found" ELSE "missed"]
    /\ UNCHANGED <<ctxVars, serve, prodVars, chanVars, fwdVars, outVars>>

\* Mutant: it is not called.
CancelForgets(s) ==
    /\ cancel[s] = "found"
    /\ cancel' = [cancel EXCEPT ![s] = "called"]
    /\ UNCHANGED <<ctxVars, serve, prodVars, chanVars, fwdVars, outVars>>

\* ... and called outside.
CancelCall(s) ==
    /\ cancel[s] = "found"
    /\ cancel' = [cancel EXCEPT ![s] = "called"]
    /\ ctx'    = [ctx EXCEPT ![s] = TRUE]
    /\ UNCHANGED <<streams, serve, prodVars, chanVars, fwdVars, outVars>>

CancelReply(s) ==
    /\ cancel[s] \in {"called", "missed"} /\ wire < SockCap
    /\ wire'   = wire + 1
    /\ cancel' = [cancel EXCEPT ![s] = IF @ = "missed" THEN "late" ELSE "done"]
    /\ UNCHANGED <<ctxVars, serve, prodVars, chanVars, fwdVars, said, sent>>

HostReads ==
    /\ wire > 0
    /\ wire' = wire - 1
    /\ UNCHANGED <<ctxVars, serve, prodVars, chanVars, fwdVars, cancel, said, sent>>

-----------------------------------------------------------------------------
Serving(s) ==
    \/ BuildFails(s) \/ AuditRequest(s) \/ Do(s) \/ AuditFailure(s) \/ Refuse(s)
    \/ WriteRefusal(s) \/ AuditResponse(s) \/ Forward(s) \/ WriteReply(s)

Upstream(s) ==
    \/ \E event \in {"text", "error"} : ScanChunk(s, event)
    \/ ScanUsage(s) \/ ScanBad(s)
    \/ \E how \in {"done", "eof"} : ScanEnd(s, how)

Producing(s) == Perform(s) \/ CutSeen(s) \/ Leave(s)

Forwarding(s) == Receive(s) \/ NotifyEvent(s) \/ RangeEnds(s) \/ CleanUp(s)

Cancelling(s) == CancelLookup(s) \/ CancelCall(s) \/ CancelReply(s)

Next ==
    \/ \E s \in Stream : Register(s) \/ HostCancels(s)
    \/ \E s \in Stream : Serving(s) \/ Upstream(s) \/ ScanCancelled(s) \/ ScanCut(s)
    \/ \E s \in Stream : Producing(s) \/ Forwarding(s) \/ Cancelling(s)
    \/ HostReads

Spec == Init /\ [][Next]_vars

\* Fairness: the plugin's goroutines run, the host reads its socket (now and
\* then: each writer gets its turn), http.Do returns (it has a time limit for
\* headers), and reading a body whose context is cancelled fails.  An upstream
\* need not send anything.
Fairness ==
    /\ WF_vars(HostReads)
    /\ \A s \in Stream :
        /\ SF_vars(Serving(s)) /\ SF_vars(Producing(s)) /\ SF_vars(Forwarding(s))
        /\ SF_vars(Cancelling(s))
        /\ WF_vars(ctx[s] /\ ScanCut(s))

FairSpec == Spec /\ Fairness

-----------------------------------------------------------------------------
\* The values each variable ranges over.
TypeOK ==
    /\ streams \subseteq Stream
    /\ ctx \in [Stream -> BOOLEAN]
    /\ serve \in [Stream -> {"idle", "registered", "doing", "failed", "denied", "ok",
                             "refused", "refusing", "rejected", "streaming", "replying", "replied"}]
    /\ prod \in [Stream -> {"none", "scan", "cut", "leave", "done"}]
    /\ todo \in [Stream -> Seq(Audits \cup Events)]
    /\ lines \in [Stream -> Nat]
    /\ first \in [Stream -> BOOLEAN]
    /\ usage \in [Stream -> BOOLEAN]
    /\ body \in [Stream -> {"open", "done", "eof", "bad", "cut", "cancelled"}]
    /\ ch \in [Stream -> Seq(Events)] /\ \A s \in Stream : Len(ch[s]) <= ChCap
    /\ open \in [Stream -> BOOLEAN]
    /\ fwd \in [Stream -> {"none", "range", "clean", "done"}]
    /\ held \in [Stream -> Seq(Events)]
    /\ ended \in [Stream -> BOOLEAN]
    /\ cancel \in [Stream -> {"none", "asked", "found", "missed", "called", "done", "late"}]
    /\ wire \in 0 .. SockCap
    /\ said \in [Stream -> Seq(Audits \cup Events \cup {"reply", "refusal"})]
    /\ sent \in [Stream -> Seq({"data", "error", "end"})]

Said(s, kind) == \E i \in DOMAIN said[s] : said[s][i] = kind

\* Nothing the plugin says of a stream, an audit included, follows its
\* stream_end, except the reply it may have overtaken; and the answer to the
\* request comes after the audits of the upstream's request and response.  The
\* host handles a connection's messages in order, so when a handler has come to
\* the end of a stream its trace has the stream's audits.
AuditsInTime ==
    \A s \in Stream : \A i, j \in DOMAIN said[s] :
        /\ said[s][i] = "end" /\ i < j => said[s][j] = "reply"
        /\ said[s][i] \in {"reply", "refusal"} /\ said[s][j] \in {"request", "response"} => j < i

\* A stream that was forwarded to its end has had a terminal event, and it is
\* one of success only if the upstream came to an end of its own or the host
\* cancelled: a body that is cut or cannot be parsed is told as an error,
\* though the context may be cancelled while the read error is looked at.
HonestPlugin ==
    \A s \in Stream : fwd[s] = "done" =>
        /\ Said(s, "end") \/ Said(s, "error")
        /\ ~Said(s, "error") => body[s] \in {"done", "eof", "cancelled"}
        /\ body[s] = "cancelled" => cancel[s] \notin {"none", "asked", "found"}

\* A cancel finds its stream unless forwardStream is through with it.
CancelNotLost ==
    \A s \in Stream : cancel[s] = "missed" => fwd[s] = "done"

\* A cancelled stream is given up, with an upstream that says nothing more, a
\* full channel and a full socket.
CancelEnds == \A s \in Stream : cancel[s] = "found" ~> s \notin streams

\* The time limit of the HTTP client makes every stream end, also one that its
\* host gave up before it knew the id and therefore never cancels.
TimeLimitEnds ==
    (\A s \in Stream : WF_vars(ScanCut(s))) => \A s \in Stream : s \in streams ~> s \notin streams

-----------------------------------------------------------------------------
(* What the host relies on: module PluginPromise.                          *)

\* The request as the host sees it, of where its goroutine is.
PlugOf(l) ==
    CASE l = "idle" -> "none"
      [] l = "replying" -> "opened"
      [] l \in {"replied", "rejected"} -> l
      [] OTHER -> "asked"

Plug == [s \in Stream |-> PlugOf(serve[s])]

Promise == INSTANCE PluginPromise WITH plug <- Plug

\* With any upstream and any cancel, the SDK server answers once, sends events
\* of streams it accepted only, and none after stream_end, the one it makes up
\* included: the plugin InstanceStreams assumes.
KeepsPromise == Promise!Spec
=============================================================================
