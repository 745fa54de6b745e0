------------------------------ MODULE JsonRpc ------------------------------
(***************************************************************************)
(* One JSON-RPC connection between the gateway and a plugin process:       *)
(* internal/jsonrpc/jsonrpc.go as the host uses it (Call, Serve, dispatch  *)
(* of replies, Close) and, as its peer, the same Conn serving requests in  *)
(* the plugin.  The socket holds a bounded number of messages each way; a  *)
(* write that finds it full blocks with Conn.mu held.                      *)
(*                                                                         *)
(* A message names its id and the call it belongs to, so that a reply      *)
(* given to the wrong call can be told from the right one.                 *)
(***************************************************************************)
EXTENDS Integers, Sequences, FiniteSets, Functions

CONSTANTS
    Call,      \* calls made on the connection
    SockCap,   \* bound: messages the socket holds in one direction
    MaxNotes   \* bound: notifications the plugin sends

ASSUME SockAssumption  == SockCap \in Nat \ {0}
ASSUME NotesAssumption == MaxNotes \in Nat

Closer == {"reader", "stop"}      \* the callers of closeWith

VARIABLES
    nextID,   \* Conn.nextID
    id,       \* id[c]: id of call c, 0 before it has one
    st,       \* st[c]: where call c is
    ctx,      \* ctx[c]: its context is done
    mu,       \* holder of the host's Conn.mu across steps: {} or one call
    pending,  \* Conn.pending: pairs of an id and the call whose channel it maps to
    box,      \* box[c]: what is in the call's channel (capacity 1)
    res,      \* res[c]: the reply the call returned, if it returned one
    out, in,  \* messages in the socket, to the plugin and from it
    at,       \* where the host's reader (Serve) is
    disp,     \* replies whose dispatch goroutine has not taken mu yet
    taken,    \* pairs of a call and the reply a dispatch goroutine will send it
    closed,   \* Conn.closed
    closeCh,  \* how often closeCh was closed
    closer,   \* closer[k]: progress of a caller of closeWith
    alive,    \* the plugin process runs
    serving,  \* requests being handled in the plugin
    pmu,      \* message being written with the plugin's Conn.mu held: <<>> or <<m>>
    notes     \* notifications sent so far

callVars == <<nextID, id, st, ctx, mu, res>>
peerVars == <<alive, serving, pmu, notes>>
endVars  == <<closed, closeCh, closer>>
vars == <<nextID, id, st, ctx, mu, pending, box, res, out, in, at, disp, taken,
          closed, closeCh, closer, alive, serving, pmu, notes>>

Note == [id |-> 0, from |-> "plugin"]

Init ==
    /\ nextID  = 0
    /\ id      = [c \in Call |-> 0]
    /\ st      = [c \in Call |-> "idle"]
    /\ ctx     = [c \in Call |-> FALSE]
    /\ mu      = {}
    /\ pending = {}
    /\ box     = [c \in Call |-> <<>>]
    /\ res     = [c \in Call |-> <<>>]
    /\ out     = <<>>
    /\ in      = <<>>
    /\ at      = "read"
    /\ disp    = {}
    /\ taken   = {}
    /\ closed  = FALSE
    /\ closeCh = 0
    /\ closer  = [k \in Closer |-> "none"]
    /\ alive   = TRUE
    /\ serving = {}
    /\ pmu     = <<>>
    /\ notes   = 0

ncClosed == closer["stop"] = "done"     \* Close() has closed the socket

-----------------------------------------------------------------------------
(* Call.                                                                   *)

\* id := c.nextID.Add(1)
\* Mutant: the counter is read and written by separate operations.
StaleID(c) == nextID' \in {nextID, nextID + 1} /\ id' = [id EXCEPT ![c] = nextID + 1]

TakeID(c) == nextID' = nextID + 1 /\ id' = [id EXCEPT ![c] = nextID + 1]

Begin(c) ==
    /\ st[c] = "idle"
    /\ TakeID(c)
    /\ st' = [st EXCEPT ![c] = "new"]
    /\ UNCHANGED <<ctx, mu, pending, box, res, out, in, at, disp, taken, endVars, peerVars>>

Register(c) ==
    /\ st[c] = "new" /\ mu = {}
    /\ pending' = {p \in pending : p[1] # id[c]} \cup {<<id[c], c>>}
    /\ st'      = [st EXCEPT ![c] = "registered"]
    /\ UNCHANGED <<nextID, id, ctx, mu, box, res, out, in, at, disp, taken, endVars, peerVars>>

\* write: takes mu, refuses once closed ...
WriteBegin(c) ==
    /\ st[c] = "registered" /\ mu = {}
    /\ IF closed
         THEN st' = [st EXCEPT ![c] = "leaving"] /\ mu' = mu
         ELSE st' = [st EXCEPT ![c] = "writing"] /\ mu' = {c}
    /\ UNCHANGED <<nextID, id, ctx, pending, box, res, out, in, at, disp, taken, endVars, peerVars>>

\* ... and writes, waiting for room in the socket; to a dead plugin the bytes
\* may still go into the socket, or ...
WriteEnd(c) ==
    /\ st[c] = "writing" /\ ~ncClosed
    /\ Len(out) < SockCap
    /\ out' = Append(out, [id |-> id[c], from |-> c])
    /\ mu'  = {}
    /\ st'  = [st EXCEPT ![c] = "waiting"]
    /\ UNCHANGED <<nextID, id, ctx, pending, box, res, in, at, disp, taken, endVars, peerVars>>

\* ... the write fails, as it does once the socket is closed.
WriteError(c) ==
    /\ st[c] = "writing" /\ (ncClosed \/ ~alive)
    /\ mu' = {}
    /\ st' = [st EXCEPT ![c] = "leaving"]
    /\ UNCHANGED <<nextID, id, ctx, pending, box, res, out, in, at, disp, taken, endVars, peerVars>>

CtxDone(c) ==
    /\ ~ctx[c] /\ st[c] \notin {"idle", "returned"}
    /\ ctx' = [ctx EXCEPT ![c] = TRUE]
    /\ UNCHANGED <<nextID, id, st, mu, pending, box, res, out, in, at, disp, taken, endVars, peerVars>>

\* The three cases of the select; which one is taken when several are ready
\* is not determined.
SelectCtx(c) ==
    /\ st[c] = "waiting" /\ ctx[c]
    /\ st' = [st EXCEPT ![c] = "leaving"]
    /\ UNCHANGED <<nextID, id, ctx, mu, pending, box, res, out, in, at, disp, taken, endVars, peerVars>>

SelectClosed(c) ==
    /\ st[c] = "waiting" /\ closeCh > 0
    /\ st' = [st EXCEPT ![c] = "returned"]
    /\ UNCHANGED <<nextID, id, ctx, mu, pending, box, res, out, in, at, disp, taken, endVars, peerVars>>

SelectReply(c) ==
    /\ st[c] = "waiting" /\ box[c] # <<>>
    /\ res' = [res EXCEPT ![c] = box[c]]
    /\ box' = [box EXCEPT ![c] = <<>>]
    /\ st'  = [st EXCEPT ![c] = "returned"]
    /\ UNCHANGED <<nextID, id, ctx, mu, pending, out, in, at, disp, taken, endVars, peerVars>>

\* After a failed write or a done context the entry is deleted under mu.
\* Mutant: it is left in the map.
LeaveEntry(c) ==
    /\ st[c] = "leaving" /\ mu = {}
    /\ st' = [st EXCEPT ![c] = "returned"]
    /\ UNCHANGED <<nextID, id, ctx, mu, pending, box, res, out, in, at, disp, taken, endVars, peerVars>>

Leave(c) ==
    /\ st[c] = "leaving" /\ mu = {}
    /\ pending' = {p \in pending : p[1] # id[c]}
    /\ st'      = [st EXCEPT ![c] = "returned"]
    /\ UNCHANGED <<nextID, id, ctx, mu, box, res, out, in, at, disp, taken, endVars, peerVars>>

-----------------------------------------------------------------------------
(* Serve and dispatch.                                                     *)

\* A reply gets a goroutine of its own, a notification is handled inline.
ReadReply ==
    /\ at = "read" /\ in # <<>> /\ Head(in).id # 0
    /\ disp' = disp \cup {Head(in)}
    /\ in'   = Tail(in)
    /\ UNCHANGED <<callVars, pending, box, out, at, taken, endVars, peerVars>>

ReadNote ==
    /\ at = "read" /\ in # <<>> /\ Head(in).id = 0
    /\ at' = "notify"
    /\ in' = Tail(in)
    /\ UNCHANGED <<callVars, pending, box, out, disp, taken, endVars, peerVars>>

\* onNotify returns; it may wait for the consumer of a stream before.
NoteDone ==
    /\ at = "notify"
    /\ at' = "read"
    /\ UNCHANGED <<callVars, pending, box, out, in, disp, taken, endVars, peerVars>>

\* Decode fails: end of the stream or socket closed under it.
ReadEOF ==
    /\ at = "read"
    /\ ncClosed \/ (~alive /\ in = <<>>)
    /\ at'     = "eof"
    /\ closer' = [closer EXCEPT !["reader"] = "entered"]
    /\ UNCHANGED <<callVars, pending, box, out, in, disp, taken, closed, closeCh, peerVars>>

\* A dispatch goroutine takes the channel out of the map; a reply nobody
\* waits for is dropped ...
Dispatch(m) ==
    /\ m \in disp /\ mu = {}
    /\ disp'    = disp \ {m}
    /\ pending' = {p \in pending : p[1] # m.id}
    /\ taken'   = taken \cup {<<p[2], m>> : p \in {q \in pending : q[1] = m.id}}
    /\ UNCHANGED <<callVars, box, out, in, at, endVars, peerVars>>

\* ... and sends outside mu.
DispatchSend(t) ==
    /\ t \in taken /\ box[t[1]] = <<>>
    /\ box'   = [box EXCEPT ![t[1]] = <<t[2]>>]
    /\ taken' = taken \ {t}
    /\ UNCHANGED <<callVars, pending, out, in, at, disp, endVars, peerVars>>

-----------------------------------------------------------------------------
(* closeWith, called by Serve on a decode error and by Close.              *)

CloseBegin ==
    /\ closer["stop"] = "none"
    /\ closer' = [closer EXCEPT !["stop"] = "entered"]
    /\ UNCHANGED <<callVars, pending, box, out, in, at, disp, taken, closed, closeCh, peerVars>>

\* CompareAndSwap(false, true)
\* Mutant: a test followed by a store, both callers may pass.
CloseUnchecked(k) ==
    /\ closer[k] = "entered"
    /\ closed' = TRUE
    /\ closer' = [closer EXCEPT ![k] = "won"]
    /\ UNCHANGED <<callVars, pending, box, out, in, at, disp, taken, closeCh, peerVars>>

CloseCAS(k) ==
    /\ closer[k] = "entered"
    /\ closed' = TRUE
    /\ closer' = [closer EXCEPT ![k] = IF closed THEN "done" ELSE "won"]
    /\ UNCHANGED <<callVars, pending, box, out, in, at, disp, taken, closeCh, peerVars>>

\* closeErr = err; close(closeCh).  Close() goes on to close the socket.
\* Mutant: closeCh is not closed.
CloseSilently(k) ==
    /\ closer[k] = "won"
    /\ closer' = [closer EXCEPT ![k] = "done"]
    /\ UNCHANGED <<callVars, pending, box, out, in, at, disp, taken, closed, closeCh, peerVars>>

CloseChannel(k) ==
    /\ closer[k] = "won"
    /\ closeCh' = closeCh + 1
    /\ closer'  = [closer EXCEPT ![k] = "done"]
    /\ UNCHANGED <<callVars, pending, box, out, in, at, disp, taken, closed, peerVars>>

-----------------------------------------------------------------------------
(* The plugin's end: its Serve starts a goroutine per request, which       *)
(* writes the reply under the plugin's own Conn.mu.                        *)

PeerRead ==
    /\ alive /\ out # <<>>
    /\ serving' = serving \cup {Head(out)}
    /\ out'     = Tail(out)
    /\ UNCHANGED <<callVars, pending, box, in, at, disp, taken, endVars, alive, pmu, notes>>

PeerReply(m) ==
    /\ alive /\ m \in serving /\ pmu = <<>>
    /\ pmu'     = <<m>>
    /\ serving' = serving \ {m}
    /\ UNCHANGED <<callVars, pending, box, out, in, at, disp, taken, endVars, alive, notes>>

PeerNote ==
    /\ alive /\ notes < MaxNotes /\ pmu = <<>>
    /\ pmu'   = <<Note>>
    /\ notes' = notes + 1
    /\ UNCHANGED <<callVars, pending, box, out, in, at, disp, taken, endVars, alive, serving>>

\* The write ends when the socket has room; after the host closed it, it fails.
PeerWritten ==
    /\ alive /\ pmu # <<>>
    /\ IF ncClosed THEN in' = in ELSE Len(in) < SockCap /\ in' = in \o pmu
    /\ pmu' = <<>>
    /\ UNCHANGED <<callVars, pending, box, out, at, disp, taken, endVars, alive, serving, notes>>

PeerDies ==
    /\ alive
    /\ alive' = FALSE
    /\ UNCHANGED <<callVars, pending, box, out, in, at, disp, taken, endVars, serving, pmu, notes>>

-----------------------------------------------------------------------------
Writes(c) == Register(c) \/ WriteBegin(c) \/ WriteEnd(c) \/ WriteError(c)
Returns(c) == SelectCtx(c) \/ SelectClosed(c) \/ SelectReply(c) \/ Leave(c)
Reads == ReadReply \/ ReadNote \/ ReadEOF
Dispatches == (\E m \in disp : Dispatch(m)) \/ (\E t \in taken : DispatchSend(t))
Closes(k) == CloseCAS(k) \/ CloseChannel(k)
Answers == \E m \in serving : PeerReply(m)

Next ==
    \/ \E c \in Call : Begin(c) \/ CtxDone(c) \/ Writes(c) \/ Returns(c)
    \/ Reads \/ NoteDone \/ Dispatches
    \/ CloseBegin \/ \E k \in Closer : Closes(k)
    \/ PeerRead \/ Answers \/ PeerNote \/ PeerWritten \/ PeerDies

Spec == Init /\ [][Next]_vars

\* Fairness: the connection's goroutines run and a live plugin reads its
\* socket (its Serve hands every request to a goroutine).  A plugin need not
\* answer, and onNotify need not return.  Conn.mu is handed to a waiter for
\* ever passed over only by calls of which there are finitely many.
Fairness ==
    /\ \A c \in Call : WF_vars(Writes(c)) /\ WF_vars(Returns(c))
    /\ WF_vars(Reads) /\ WF_vars(Dispatches)
    /\ \A k \in Closer : WF_vars(Closes(k))
    /\ WF_vars(PeerRead)

FairSpec == Spec /\ Fairness

-----------------------------------------------------------------------------
Message == [id : Nat \ {0}, from : Call]
States  == {"idle", "new", "registered", "writing", "waiting", "leaving", "returned"}

\* The values each variable ranges over; mu is held by the call that writes, and
\* the sockets and the plugin's own writer stay within what they can hold.
TypeOK ==
    /\ nextID \in Nat
    /\ id \in [Call -> Nat]
    /\ st \in [Call -> States]
    /\ ctx \in [Call -> BOOLEAN]
    /\ mu = {c \in Call : st[c] = "writing"}
    /\ pending \subseteq (Nat \X Call)
    /\ box \in [Call -> Seq(Message)]
    /\ res \in [Call -> Seq(Message)]
    /\ out \in Seq(Message)
    /\ in \in Seq(Message \cup {Note})
    /\ Len(out) <= SockCap /\ Len(in) <= SockCap /\ Len(pmu) <= 1
    /\ at \in {"read", "notify", "eof"}
    /\ disp \subseteq Message
    /\ taken \subseteq (Call \X Message)
    /\ closed \in BOOLEAN
    /\ closeCh \in Nat
    /\ closer \in [Closer -> {"none", "entered", "won", "done"}]
    /\ alive \in BOOLEAN
    /\ serving \subseteq Message
    /\ pmu \in Seq(Message \cup {Note})
    /\ notes \in Nat

\* A call that returns a reply returns the reply to its own request, whatever
\* the order of replies, abandoned calls and late answers.
OwnReply == \A c \in Call : \A i \in DOMAIN res[c] : res[c][i] = [id |-> id[c], from |-> c]

\* While the connection is open the map holds only calls that have not
\* returned: neither a failed write nor a done context leaves an entry.
NoOrphanPending == ~closed => \A p \in pending : st[p[2]] # "returned"

\* Where the request of a call, or the reply to it, can be on its way.
Req(c) == [id |-> id[c], from |-> c]
Underway == Range(out) \cup serving \cup Range(pmu) \cup Range(in) \cup disp

\* No reply is lost on a waiting call: until Close() has closed the socket, either
\* the call's entry is in the map and its request or reply is still somewhere on
\* the way (where a plugin that dies leaves it), or a dispatch goroutine has taken
\* the channel or has filled it.  An early reply, an
\* abandoned call's late one or another call's entry never take it away.  And that
\* goroutine always finds the channel empty: it never blocks, and never leaks.
NoCallForgotten ==
    /\ \A c \in Call : st[c] = "waiting" /\ ~ncClosed =>
        \/ box[c] # <<>> \/ \E t \in taken : t[1] = c
        \/ <<id[c], c>> \in pending /\ Req(c) \in Underway
    /\ \A t \in taken : box[t[1]] = <<>>

\* closeCh is closed at most once, and only after closed is set, though Serve
\* and Close may call closeWith together.
ClosedOnce == closeCh <= 1 /\ (closeCh > 0 => closed)

\* A call whose context is done, or whose connection is closed, returns: with
\* the socket full, the reader blocked in onNotify or the plugin silent.
AbandonedReturns ==
    \A c \in Call :
        (st[c] # "idle" /\ (ctx[c] \/ closed)) ~> st[c] = "returned"

\* With a plugin that answers or dies, and stream consumers that let onNotify
\* return, every call returns, even one that has no deadline: two connections
\* whose sockets are full never wait for each other, because each side keeps
\* reading while it writes.
EveryCallReturns ==
    WF_vars(NoteDone) /\ WF_vars(Answers) /\ WF_vars(PeerWritten) =>
        \A c \in Call : (st[c] # "idle") ~> (st[c] = "returned")
=============================================================================
