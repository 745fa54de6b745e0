----------------------- MODULE InstanceStreams_proofs -----------------------
(***************************************************************************)
(* Proofs about InstanceStreams for every set of streams, every channel    *)
(* capacity, any number of restarts and any combination of faults.         *)
(*                                                                         *)
(* ChannelInv says who may close a channel.  LineInv follows the events of *)
(* a stream from the plugin's socket through the reader, `pending` and the *)
(* channel to the handler, always in the order they were emitted.          *)
(* ProcessInv and OpenedInv say which generation serves a stream and that  *)
(* a map entry belongs to the process in use; WholeInv that on the way of  *)
(* a stream no fault has touched no event is missing, and that only a      *)
(* terminal event or the client's leaving ends it.  From these the streams *)
(* implement StreamDelivery, step by step, and a fault harms only the      *)
(* streams of the process it ends.                                         *)
(***************************************************************************)
EXTENDS InstanceStreams, SequenceTheorems, TLAPS

USE CapAssumption, BoundsAssumption DEF Gen, Actor, Kind

-----------------------------------------------------------------------------
(* Type correctness.                                                       *)

\* Initially every variable has its type.
LEMMA InitTypeOK == Init => TypeOK
BY DEF Init, TypeOK

\* A message at the head of a connection is a message.
LEMMA HeadMessage ==
    ASSUME TypeOK, NEW g \in Gen, wire[g] # <<>>
    PROVE  /\ Head(wire[g]) \in Message
           /\ Head(wire[g]).id \in Stream
           /\ Head(wire[g]).n \in Nat
           /\ Tail(wire[g]) \in Seq(Message)
<1>1. wire[g] \in Seq(Message)
  BY DEF TypeOK
<1>2. /\ Head(wire[g]) \in Message
      /\ Tail(wire[g]) \in Seq(Message)
  BY <1>1, HeadTailProperties, Zenon
<1> QED BY <1>2 DEF Message

\* Appending to a sequence of messages.
LEMMA AppendMessage ==
    ASSUME NEW q \in Seq(Message), NEW m \in Message
    PROVE  Append(q, m) \in Seq(Message) /\ Append(q, m) # <<>>
BY AppendProperties

\* A message written to a connection leaves it a sequence of messages.
LEMMA WrittenMessage ==
    ASSUME TypeOK, NEW s \in Stream, NEW n \in Nat
    PROVE  LET w == [wire EXCEPT ![conn[s]] = Written(@, [id |-> s, n |-> n])]
           IN  /\ w \in [Gen -> Seq(Message)]
               /\ \A g \in Gen : wire[g] # <<>> => w[g] # <<>>
<1> DEFINE m == [id |-> s, n |-> n]
<1>1. conn[s] \in Gen /\ wire \in [Gen -> Seq(Message)] /\ m \in Message
  BY DEF TypeOK, Message
<1> HIDE DEF m
<1>2. wire[conn[s]] \in Seq(Message)
  BY <1>1
<1>3. /\ Append(wire[conn[s]], m) \in Seq(Message)
      /\ Append(wire[conn[s]], m) # <<>>
  BY <1>1, <1>2, AppendMessage, Zenon
<1> QED BY <1>1, <1>3 DEF Written, m

\* Appending a number to a sequence of numbers, emptying one.
LEMMA NatSeqs ==
    /\ <<>> \in Seq(Nat)
    /\ \A q \in Seq(Nat), n \in Nat : Append(q, n) \in Seq(Nat)
    /\ \A q \in Seq(Nat) : q # <<>> => Head(q) \in Nat /\ Tail(q) \in Seq(Nat)
<1>1. <<>> \in Seq(Nat)
  BY EmptySeq
<1>2. ASSUME NEW q \in Seq(Nat), NEW n \in Nat PROVE Append(q, n) \in Seq(Nat)
  BY AppendProperties
<1>3. ASSUME NEW q \in Seq(Nat), q # <<>> PROVE Head(q) \in Nat /\ Tail(q) \in Seq(Nat)
  BY <1>3, HeadTailProperties
<1> QED BY <1>1, <1>2, <1>3

\* closeStreamLocked keeps the types of the maps and channels.
LEMMA CloseLockedTypes ==
    ASSUME TypeOK, NEW s \in Stream, CloseLocked(s)
    PROVE  /\ streams' \subseteq Stream
           /\ pending' \in [Stream -> Seq(Nat)]
           /\ chan' \in [Stream -> {"none", "open", "closed"}]
BY NatSeqs DEF TypeOK, CloseLocked, WithoutPending

\* Sending keeps the type of the channel buffers.
LEMMA SendTypes ==
    ASSUME TypeOK, NEW s \in Stream, NEW n \in Nat,
           BlockingSend(s, n) \/ NonBlockingSend(s, n)
    PROVE  buf' \in [Stream -> Seq(Nat)]
<1>1. Append(buf[s], n) \in Seq(Nat)
  BY NatSeqs DEF TypeOK
<1> QED BY <1>1 DEF TypeOK, BlockingSend, NonBlockingSend

\* The actions of a stream's handler and canceller keep the types.
LEMMA HandlerTypeOK ==
    ASSUME TypeOK, NEW s \in Stream,
           CallStream(s) \/ Disconnect(s) \/ HandlerStep(s) \/ CancelStep(s)
    PROVE  TypeOK'
<1> USE DEF TypeOK, pluginVars, mapVars, callVars, faultVars, readVars
<1>1. CASE CallStream(s)
  <2>1. conn' \in [Stream -> Gen]
    BY <1>1 DEF CallStream
  <2>2. pc' \in [Stream -> {"idle", "calling", "answered", "stuck", "reading", "drained", "done", "failed"}]
    <3>1. pc' = [pc EXCEPT ![s] = "failed"] \/ pc' = [pc EXCEPT ![s] = "calling"]
      BY <1>1 DEF CallStream
    <3> QED BY <3>1
  <2>3. plug' \in [Stream -> {"none", "asked", "opened", "replied", "rejected"}]
    BY <1>1 DEF CallStream
  <2>4. UNCHANGED <<alive, sent, wire, gen, closed, at, streams, pending, chan, buf, gone, got, cx,
                    watch, stop, failing, flagged>>
    BY <1>1 DEF CallStream
  <2> QED BY <2>1, <2>2, <2>3, <2>4
<1>2. CASE Disconnect(s) BY <1>2 DEF Disconnect
<1>3. CASE CallFail(s) BY <1>3 DEF CallFail
<1>4. CASE RejectedReturn(s) BY <1>4 DEF RejectedReturn
<1>5. CASE OpenStream(s) BY <1>5, NatSeqs DEF OpenStream, WithoutPending
<1>6. CASE DrainBlocks(s) BY <1>6 DEF DrainBlocks
<1>7. CASE Consume(s)
  <2>1. Head(buf[s]) \in Nat /\ Tail(buf[s]) \in Seq(Nat)
    BY <1>7, NatSeqs DEF Consume
  <2>2. got[s] \in Seq(Nat)
    BY DEF TypeOK
  <2>3. Append(got[s], Head(buf[s])) \in Seq(Nat)
    BY <2>1, <2>2, NatSeqs, Zenon
  <2> QED BY <1>7, <2>1, <2>3 DEF Consume
<1>8. CASE RangeEnd(s) BY <1>8 DEF RangeEnd
<1>9. CASE HandlerReturn(s) BY <1>9 DEF HandlerReturn
<1>10. CASE CancelCall(s) BY <1>10 DEF CancelCall
<1>11. CASE CancelClose(s) BY <1>11, CloseLockedTypes DEF CancelClose
<1> QED BY <1>1, <1>2, <1>3, <1>4, <1>5, <1>6, <1>7, <1>8, <1>9, <1>10, <1>11
        DEF HandlerStep, CancelStep

\* The reader's actions keep the types.
LEMMA ReaderTypeOK ==
    ASSUME TypeOK, NEW g \in Gen, ReaderStep(g)
    PROVE  TypeOK'
<1> USE HeadMessage DEF TypeOK, pluginVars, mapVars, callVars, faultVars, readVars
<1>1. CASE ReadReply(g) BY <1>1 DEF ReadReply
<1>2. CASE LookupMiss(g)
  <2>1. Append(pending[Head(wire[g]).id], Head(wire[g]).n) \in Seq(Nat)
    BY <1>2, NatSeqs DEF LookupMiss
  <2> QED BY <1>2, <2>1 DEF LookupMiss
<1>3. CASE LookupHit(g) BY <1>3 DEF LookupHit
<1>4. CASE SendEvent(g)
  <2>1. wire[g] # <<>>
    BY <1>4 DEF SendEvent
  <2>2. buf' \in [Stream -> Seq(Nat)]
    BY <1>4, <2>1, SendTypes DEF SendEvent
  <2>3. /\ at' \in [Gen -> {"read", "send", "close", "eof"}]
        /\ wire' \in [Gen -> Seq(Message)]
        /\ \A h \in Gen : at'[h] \in {"send", "close"} => wire'[h] # <<>>
    <3>1. CASE IsTerminal(Head(wire[g]).id, Head(wire[g]).n)
      <4>1. at' = [at EXCEPT ![g] = "close"] /\ wire' = wire
        BY <1>4, <3>1 DEF SendEvent
      <4> QED BY <2>1, <4>1
    <3>2. CASE ~IsTerminal(Head(wire[g]).id, Head(wire[g]).n)
      <4>1. at' = [at EXCEPT ![g] = "read"] /\ wire' = [wire EXCEPT ![g] = Tail(@)]
        BY <1>4, <3>2 DEF SendEvent
      <4>2. Tail(wire[g]) \in Seq(Message)
        BY <2>1
      <4> HIDE HeadMessage
      <4> QED BY <4>1, <4>2
    <3> QED BY <3>1, <3>2
  <2>4. UNCHANGED <<pluginVars, gen, closed, mapVars, callVars, faultVars>>
    BY <1>4 DEF SendEvent
  <2> QED BY <2>2, <2>3, <2>4
<1>5. CASE CloseTerminal(g)
  <2>1. wire[g] # <<>>
    BY <1>5 DEF CloseTerminal
  <2>2. /\ streams' \subseteq Stream
        /\ pending' \in [Stream -> Seq(Nat)]
        /\ chan' \in [Stream -> {"none", "open", "closed"}]
    BY <1>5, <2>1, CloseLockedTypes DEF CloseTerminal
  <2> QED BY <1>5, <2>1, <2>2 DEF CloseTerminal
<1>6. CASE ReadEOF(g) BY <1>6 DEF ReadEOF
<1> QED BY <1>1, <1>2, <1>3, <1>4, <1>5, <1>6 DEF ReaderStep

\* The plugin's actions keep the types.
LEMMA PluginTypeOK ==
    ASSUME TypeOK, NEW s \in Stream, PluginStep(s) \/ \E k \in Kind : Emit(s, k)
    PROVE  TypeOK'
<1> USE DEF TypeOK, pluginVars, mapVars, callVars, faultVars, readVars
<1>1. CASE Accept(s) BY <1>1 DEF Accept
<1>2. CASE Reject(s) BY <1>2, WrittenMessage DEF Reject
<1>3. CASE Reply(s) BY <1>3, WrittenMessage DEF Reply
<1>4. ASSUME NEW k \in Kind, Emit(s, k) PROVE TypeOK'
  <2>1. Append(sent[s], k) \in Seq(Kind) /\ Len(sent[s]) + 1 \in Nat
    BY <1>4, AppendProperties, LenProperties
  <2>2. sent' \in [Stream -> Seq(Kind)]
    BY <1>4, <2>1 DEF Emit
  <2>3. /\ wire' \in [Gen -> Seq(Message)]
        /\ \A g \in Gen : at[g] \in {"send", "close"} => wire'[g] # <<>>
    BY <1>4, <2>1, WrittenMessage DEF Emit
  <2>4. UNCHANGED <<alive, plug, gen, closed, at, streams, pending, chan, buf, pc, conn, gone, got, cx,
                    watch, stop, failing, flagged>>
    BY <1>4 DEF Emit
  <2> QED BY <2>2, <2>3, <2>4
<1> QED BY <1>1, <1>2, <1>3, <1>4 DEF PluginStep

\* Crash, watcher, restart and Stop keep the types.
LEMMA FaultTypeOK ==
    ASSUME TypeOK,
           (\E a \in Actor : FailStep(a)) \/ Crash \/ StopBegin \/ WatchStep \/ StopStep
    PROVE  TypeOK'
<1> USE DEF TypeOK, pluginVars, mapVars, callVars, faultVars, readVars
<1>1. ASSUME NEW a \in Actor, NEW s \in Stream, FailSend(a, s) PROVE TypeOK'
  <2>1. buf' \in [Stream -> Seq(Nat)]
    BY <1>1, SendTypes DEF FailSend
  <2> QED BY <1>1, <2>1 DEF FailSend
<1>2. ASSUME NEW a \in Actor, NEW s \in Stream, FailClose(a, s) PROVE TypeOK'
  BY <1>2 DEF FailClose
<1>3. CASE Crash BY <1>3 DEF Crash
<1>4. CASE WatchExit BY <1>4 DEF WatchExit
<1>5. CASE WatchSnapshot BY <1>5, NatSeqs DEF WatchSnapshot, Snapshot
<1>6. CASE WatchWake BY <1>6 DEF WatchWake
<1>7. CASE StartReset BY <1>7, NatSeqs DEF StartReset
<1>8. CASE StartConnect
  <2>1. gen + 1 \in Gen
    BY <1>8 DEF StartConnect
  <2> QED BY <1>8, <2>1 DEF StartConnect
<1>9. CASE HandshakeOk BY <1>9 DEF HandshakeOk
<1>10. CASE StartFail BY <1>10 DEF StartFail
<1>11. CASE StopBegin BY <1>11 DEF StopBegin
<1>12. CASE StopSnapshot BY <1>12, NatSeqs DEF StopSnapshot, Snapshot
<1>13. CASE StopClose BY <1>13 DEF StopClose
<1>14. CASE StopKill BY <1>14 DEF StopKill
<1> QED BY <1>1, <1>2, <1>3, <1>4, <1>5, <1>6, <1>7, <1>8, <1>9, <1>10, <1>11,
           <1>12, <1>13, <1>14 DEF FailStep, WatchStep, StopStep

\* Every step keeps the types.
LEMMA NextTypeOK == TypeOK /\ [Next]_vars => TypeOK'
<1> SUFFICES ASSUME TypeOK, [Next]_vars PROVE TypeOK'
  OBVIOUS
<1>1. CASE UNCHANGED vars
  BY <1>1 DEF vars, TypeOK
<1>2. ASSUME NEW g \in 1 .. gen, ReaderStep(g) PROVE TypeOK'
  <2>1. g \in Gen BY DEF TypeOK
  <2> QED BY <1>2, <2>1, ReaderTypeOK
<1> QED BY <1>1, <1>2, HandlerTypeOK, PluginTypeOK, FaultTypeOK DEF Next

\* TypeOK is an invariant of the instance: in particular a reader that is
\* sending or closing still has the message it is handling.
THEOREM TypeCorrect == Spec => []TypeOK
BY InitTypeOK, NextTypeOK, PTL DEF Spec
-----------------------------------------------------------------------------
(* One party may close a channel, and it holds it open.                    *)

\* CloseOnce is inductive together with four facts: the stream whose error was
\* just sent is still in the snapshot, a snapshot is held only inside
\* failActiveStreams, a handler that has not been through OpenStream has made no
\* channel yet, and nobody has called a process that is still to come.
ChannelInv ==
    /\ CloseOnce
    /\ \A a \in Actor : flagged[a] \subseteq failing[a]
    /\ watch # "failing" => failing["watch"] = {}
    /\ stop # "failing" => failing["stop"] = {}
    /\ \A s \in Stream : pc[s] \in {"idle", "calling", "answered"} => chan[s] = "none"
    /\ \A s \in Stream : conn[s] <= gen

\* Initially no channel exists.
LEMMA InitChannelInv == Init => ChannelInv
BY DEF Init, ChannelInv, CloseOnce

\* closeStreamLocked closes an open channel, and takes it out of the map.
LEMMA CloseLockedInv ==
    ASSUME TypeOK, ChannelInv, NEW s \in Stream, CloseLocked(s),
           UNCHANGED <<pc, conn, gen, failing, flagged, watch, stop>>
    PROVE  ChannelInv'
<1> USE DEF TypeOK, ChannelInv, CloseOnce, CloseLocked
<1>1. CASE s \in streams
  <2>1. chan' = [chan EXCEPT ![s] = "closed"] /\ chan[s] = "open"
    BY <1>1
  <2>2. \A a \in Actor : s \notin failing[a]
    BY <1>1
  <2> QED BY <2>1, <2>2
<1>2. CASE s \notin streams
  <2>1. chan' = chan /\ streams' = streams
    BY <1>2
  <2> QED BY <2>1
<1> QED BY <1>1, <1>2

\* Both callers of failActiveStreams take the streams over from the map.
LEMMA SnapshotInv ==
    ASSUME TypeOK, ChannelInv, WatchSnapshot \/ StopSnapshot
    PROVE  ChannelInv'
<1> USE DEF TypeOK, ChannelInv, CloseOnce, callVars
<1>1. CASE WatchSnapshot
  <2>1. /\ failing' = [failing EXCEPT !["watch"] = streams]
        /\ failing["watch"] = {} /\ flagged["watch"] = {}
        /\ streams' = {} /\ watch' = "failing"
        /\ UNCHANGED <<chan, flagged, pc, conn, gen, stop>>
    BY <1>1 DEF WatchSnapshot, Snapshot
  <2>2. failing'["watch"] = streams /\ failing'["stop"] = failing["stop"]
    BY <2>1
  <2>3. \A s \in Stream : chan[s] = "open" =>
            \/ s \in streams \cup failing["stop"]
            \/ conn[s] < gen
    BY <1>1, <2>1 DEF WatchSnapshot
  <2> QED BY <2>1, <2>2, <2>3
<1>2. CASE StopSnapshot
  <2>1. /\ failing' = [failing EXCEPT !["stop"] = streams]
        /\ failing["stop"] = {} /\ flagged["stop"] = {}
        /\ streams' = {} /\ stop' = "failing"
        /\ UNCHANGED <<chan, flagged, pc, conn, gen, watch>>
    BY <1>2 DEF StopSnapshot, Snapshot
  <2>2. failing'["stop"] = streams /\ failing'["watch"] = failing["watch"]
    BY <2>1
  <2> QED BY <2>1, <2>2
<1> QED BY <1>1, <1>2

\* A handler's and its canceller's actions keep the invariant.
LEMMA HandlerChannelInv ==
    ASSUME TypeOK, ChannelInv, NEW s \in Stream,
           CallStream(s) \/ Disconnect(s) \/ HandlerStep(s) \/ CancelStep(s)
    PROVE  ChannelInv'
<1> USE DEF TypeOK, ChannelInv, CloseOnce, pluginVars, mapVars, callVars, faultVars, readVars
<1>1. CASE CallStream(s)
  <2>1. /\ UNCHANGED <<streams, chan, gen, failing, flagged, watch, stop>>
        /\ pc[s] = "idle" /\ chan[s] = "none"
        /\ conn' = [conn EXCEPT ![s] = gen]
    BY <1>1 DEF CallStream
  <2>2. \A r \in Stream \ {s} : pc'[r] = pc[r]
    <3>1. CASE closed[gen]
      BY <1>1, <3>1 DEF CallStream
    <3>2. CASE ~closed[gen]
      BY <1>1, <3>2 DEF CallStream
    <3> QED BY <3>1, <3>2
  <2>3. \A r \in Stream : chan[r] = "open" => conn'[r] = conn[r]
    BY <2>1
  <2>4. \A r \in Stream : conn'[r] <= gen
    BY <2>1
  <2>5. /\ \A r \in streams' : chan'[r] = "open"
        /\ \A a \in Actor : \A r \in failing'[a] : chan'[r] = "open" /\ r \notin streams'
        /\ failing'["watch"] \cap failing'["stop"] = {}
    BY <2>1
  <2>6. \A r \in Stream : chan'[r] = "open" =>
            \/ r \in streams' \cup failing'["watch"] \cup failing'["stop"]
            \/ conn'[r] < gen' \/ watch' \in {"starting", "gone"}
    BY <2>1, <2>3
  <2>7. \A r \in Stream : pc'[r] \in {"idle", "calling", "answered"} => chan'[r] = "none"
    BY <2>1, <2>2
  <2>8. /\ \A a \in Actor : flagged'[a] \subseteq failing'[a]
        /\ watch' # "failing" => failing'["watch"] = {}
        /\ stop' # "failing" => failing'["stop"] = {}
    BY <2>1
  <2>9. CloseOnce'
    BY <2>5, <2>6, Zenon
  <2>10. \A r \in Stream : conn'[r] <= gen'
    BY <2>1, <2>4
  <2> QED BY <2>7, <2>8, <2>9, <2>10, Zenon DEF ChannelInv
<1>2. CASE Disconnect(s) BY <1>2 DEF Disconnect
<1>3. CASE CallFail(s) \/ RejectedReturn(s)
  <2>1. /\ UNCHANGED <<streams, chan, gen, conn, failing, flagged, watch, stop>>
        /\ pc' = [pc EXCEPT ![s] = "failed"]
    BY <1>3 DEF CallFail, RejectedReturn
  <2>2. \A r \in Stream : pc'[r] = pc[r] \/ pc'[r] = "failed"
    BY <2>1
  <2>3. \A r \in Stream : pc'[r] \in {"idle", "calling", "answered"} => chan'[r] = "none"
    BY <2>1, <2>2
  <2> QED BY <2>1, <2>3
<1>4. CASE OpenStream(s)
  <2>1. /\ chan[s] = "none"
        /\ s \notin streams
        /\ \A a \in Actor : s \notin failing[a]
    BY <1>4 DEF OpenStream
  <2>2. /\ pc' = [pc EXCEPT ![s] = "reading"]
        /\ UNCHANGED <<conn, gen, failing, flagged, watch, stop>>
    BY <1>4 DEF OpenStream
  <2>3. CASE EndedPending(s)
    <3>1. chan' = [chan EXCEPT ![s] = "closed"] /\ streams' = streams
      BY <1>4, <2>3 DEF OpenStream
    <3> QED BY <2>1, <2>2, <3>1
  <2>4. CASE ~EndedPending(s)
    <3>1. chan' = [chan EXCEPT ![s] = "open"] /\ streams' = streams \cup {s}
      BY <1>4, <2>4 DEF OpenStream
    <3> QED BY <2>1, <2>2, <3>1
  <2> QED BY <2>3, <2>4
<1>5. CASE DrainBlocks(s) BY <1>5 DEF DrainBlocks
<1>6. CASE Consume(s) BY <1>6 DEF Consume
<1>7. CASE RangeEnd(s)
  <2>1. pc' = [pc EXCEPT ![s] = "drained"] /\ chan[s] = "closed"
    BY <1>7 DEF RangeEnd
  <2>2. UNCHANGED <<streams, chan, conn, gen, failing, flagged, watch, stop>>
    BY <1>7 DEF RangeEnd
  <2>3. \A r \in Stream : pc'[r] \in {"idle", "calling", "answered"} => chan'[r] = "none"
    BY <2>1, <2>2
  <2> QED BY <2>2, <2>3
<1>8. CASE HandlerReturn(s) BY <1>8 DEF HandlerReturn
<1>9. CASE CancelCall(s) BY <1>9 DEF CancelCall
<1>10. CASE CancelClose(s) BY <1>10, CloseLockedInv DEF CancelClose
<1> QED BY <1>1, <1>2, <1>3, <1>4, <1>5, <1>6, <1>7, <1>8, <1>9, <1>10
        DEF HandlerStep, CancelStep

\* The reader's and the plugin's actions keep the invariant.
LEMMA ReaderChannelInv ==
    ASSUME TypeOK, ChannelInv, NEW g \in Gen, ReaderStep(g)
    PROVE  ChannelInv'
<1> USE DEF ChannelInv, CloseOnce, pluginVars, mapVars, callVars, faultVars, readVars
<1>1. CASE ReadReply(g)
  <2>1. Head(wire[g]).id \in Stream /\ pc \in [Stream -> {"idle", "calling", "answered",
            "stuck", "reading", "drained", "done", "failed"}]
    BY <1>1, HeadMessage DEF ReadReply, TypeOK
  <2> QED BY <1>1, <2>1 DEF ReadReply
<1>2. CASE LookupMiss(g) BY <1>2 DEF LookupMiss
<1>3. CASE LookupHit(g) BY <1>3 DEF LookupHit
<1>4. CASE SendEvent(g) BY <1>4 DEF SendEvent
<1>5. CASE CloseTerminal(g)
  <2>1. Head(wire[g]).id \in Stream
    BY <1>5, HeadMessage DEF CloseTerminal, TypeOK
  <2> QED BY <1>5, <2>1, CloseLockedInv DEF CloseTerminal
<1>6. CASE ReadEOF(g) BY <1>6 DEF ReadEOF
<1> QED BY <1>1, <1>2, <1>3, <1>4, <1>5, <1>6 DEF ReaderStep

\* The plugin's actions do not touch what the invariant is about.
LEMMA PluginChannelInv ==
    ASSUME ChannelInv, NEW s \in Stream, PluginStep(s) \/ \E k \in Kind : Emit(s, k)
    PROVE  ChannelInv'
<1> USE DEF ChannelInv, CloseOnce, pluginVars, mapVars, callVars, faultVars, readVars
<1>1. CASE Accept(s) BY <1>1 DEF Accept
<1>2. CASE Reject(s) BY <1>2 DEF Reject
<1>3. CASE Reply(s) BY <1>3 DEF Reply
<1>4. ASSUME NEW k \in Kind, Emit(s, k) PROVE ChannelInv'
  BY <1>4 DEF Emit
<1> QED BY <1>1, <1>2, <1>3, <1>4 DEF PluginStep

\* Crash, watcher, restart and Stop keep the invariant.
LEMMA FaultChannelInv ==
    ASSUME TypeOK, ChannelInv,
           (\E a \in Actor : FailStep(a)) \/ Crash \/ StopBegin \/ WatchStep \/ StopStep
    PROVE  ChannelInv'
<1> USE DEF TypeOK, ChannelInv, CloseOnce, pluginVars, mapVars, callVars, faultVars, readVars
<1>1. ASSUME NEW a \in Actor, NEW s \in Stream, FailSend(a, s) PROVE ChannelInv'
  <2>1. s \in failing[a] /\ flagged' = [flagged EXCEPT ![a] = {s}]
    BY <1>1 DEF FailSend
  <2>2. UNCHANGED <<streams, chan, pc, conn, gen, failing, watch, stop>>
    BY <1>1 DEF FailSend
  <2>3. \A b \in Actor : flagged'[b] \subseteq failing[b]
    BY <2>1
  <2>4. CloseOnce'
    BY <2>2
  <2> QED BY <2>2, <2>3, <2>4
<1>2. ASSUME NEW a \in Actor, NEW s \in Stream, FailClose(a, s) PROVE ChannelInv'
  <2>1. /\ s \in failing[a] /\ s \notin streams /\ chan[s] = "open"
        /\ \A b \in Actor : b # a => s \notin failing[b]
    BY <1>2 DEF FailClose
  <2>2. /\ chan' = [chan EXCEPT ![s] = "closed"]
        /\ flagged' = [flagged EXCEPT ![a] = {}]
        /\ failing' = [failing EXCEPT ![a] = @ \ {s}]
        /\ UNCHANGED <<streams, pc, conn, gen, watch, stop>>
    BY <1>2 DEF FailClose
  <2>3. \A b \in Actor : failing'[b] \subseteq failing[b] /\ s \notin failing'[b]
    BY <2>1, <2>2
  <2>4. \A b \in Actor : flagged'[b] \subseteq failing'[b]
    BY <2>2
  <2>5. \A r \in Stream : r # s => chan'[r] = chan[r]
    BY <2>2
  <2>6. CloseOnce'
    <3>1. (\A r \in streams' : chan'[r] = "open")
      BY <2>1, <2>2, <2>5
    <3>2. \A b \in Actor : \A r \in failing'[b] : chan'[r] = "open" /\ r \notin streams'
      <4> SUFFICES ASSUME NEW b \in Actor, NEW r \in failing'[b] PROVE chan'[r] = "open" /\ r \notin streams'
        OBVIOUS
      <4>1. r \in failing[b] /\ r # s /\ r \in Stream
        BY <2>3
      <4> QED BY <2>2, <2>5, <4>1
    <3>3. failing'["watch"] \cap failing'["stop"] = {}
      BY <2>3 DEF Actor
    <3>4. ASSUME NEW r \in Stream, chan'[r] = "open"
          PROVE  \/ r \in streams' \cup failing'["watch"] \cup failing'["stop"]
                 \/ conn'[r] < gen' \/ watch' \in {"starting", "gone"}
      <4>1. r # s
        BY <2>1, <2>2, <3>4
      <4>2. chan[r] = "open"
        BY <2>5, <3>4, <4>1
      <4>3. \A b \in Actor : r \in failing[b] => r \in failing'[b]
        BY <2>2, <4>1
      <4> QED BY <2>2, <4>2, <4>3 DEF Actor
    <3> QED BY <3>1, <3>2, <3>3, <3>4 DEF CloseOnce
  <2>7. (watch' # "failing" => failing'["watch"] = {}) /\ (stop' # "failing" => failing'["stop"] = {})
    BY <2>2, <2>3 DEF Actor
  <2>8. /\ \A r \in Stream : pc'[r] \in {"idle", "calling", "answered"} => chan'[r] = "none"
        /\ \A r \in Stream : conn'[r] <= gen'
    BY <2>1, <2>2, <2>5
  <2> QED BY <2>4, <2>6, <2>7, <2>8 DEF ChannelInv
<1>3. CASE Crash BY <1>3 DEF Crash
<1>4. CASE WatchExit BY <1>4 DEF WatchExit
<1>5. CASE WatchSnapshot BY <1>5, SnapshotInv
<1>6. CASE WatchWake BY <1>6 DEF WatchWake
<1>7. CASE StartReset BY <1>7 DEF StartReset
<1>8. CASE StartConnect BY <1>8 DEF StartConnect
<1>9. CASE HandshakeOk BY <1>9 DEF HandshakeOk
<1>10. CASE StartFail BY <1>10 DEF StartFail
<1>11. CASE StopBegin BY <1>11 DEF StopBegin
<1>12. CASE StopSnapshot BY <1>12, SnapshotInv
<1>13. CASE StopClose BY <1>13 DEF StopClose
<1>14. CASE StopKill BY <1>14 DEF StopKill
<1> QED BY <1>1, <1>2, <1>3, <1>4, <1>5, <1>6, <1>7, <1>8, <1>9, <1>10, <1>11,
           <1>12, <1>13, <1>14 DEF FailStep, WatchStep, StopStep

\* Every step keeps the invariant.
LEMMA NextChannelInv == TypeOK /\ ChannelInv /\ [Next]_vars => ChannelInv'
<1> SUFFICES ASSUME TypeOK, ChannelInv, [Next]_vars PROVE ChannelInv'
  OBVIOUS
<1>1. CASE UNCHANGED vars
  BY <1>1 DEF vars, ChannelInv, CloseOnce
<1>2. ASSUME NEW g \in 1 .. gen, ReaderStep(g) PROVE ChannelInv'
  <2>1. g \in Gen BY DEF TypeOK
  <2> QED BY <1>2, <2>1, ReaderChannelInv
<1> QED BY <1>1, <1>2, HandlerChannelInv, PluginChannelInv, FaultChannelInv DEF Next

\* Whatever crash, Stop, cancel, disconnect and terminal event race, whoever
\* closes a stream's channel finds it open: no double close, for any number of
\* streams and restarts.
THEOREM ChannelClosedOnce == Spec => []CloseOnce
<1>1. TypeOK /\ ChannelInv => CloseOnce
  BY DEF ChannelInv
<1> QED BY <1>1, InitTypeOK, NextTypeOK, InitChannelInv, NextChannelInv, PTL DEF Spec

-----------------------------------------------------------------------------
(* What is in a channel, and what is on a connection for a stream.         *)

\* What a sequence holds.
Els(q) == {q[i] : i \in DOMAIN q}

\* Events in the order they were emitted, but for the error made up (0).
Ordered(q) == \A i, j \in DOMAIN q : i < j => q[j] = 0 \/ q[i] < q[j]

\* The empty channel.
LEMMA ElsEmpty == Els(<<>>) = {} /\ Ordered(<<>>)
BY DEF Els, Ordered

\* One more at its end.
LEMMA ElsAppend ==
    ASSUME NEW q \in Seq(Nat), NEW n \in Nat
    PROVE  /\ Els(Append(q, n)) = Els(q) \cup {n}
           /\ Ordered(q) /\ (n = 0 \/ \A m \in Els(q) : m < n) => Ordered(Append(q, n))
<1> DEFINE a == Append(q, n)
<1>1. /\ Len(a) = Len(q) + 1 /\ DOMAIN q = 1 .. Len(q) /\ DOMAIN a = 1 .. Len(a) /\ Len(q) \in Nat
      /\ \A i \in 1 .. Len(q) : a[i] = q[i]
      /\ a[Len(q) + 1] = n
  BY AppendProperties, LenProperties
<1> HIDE DEF a
<1>2. Els(a) = Els(q) \cup {n}
  BY <1>1 DEF Els
<1>3. ASSUME Ordered(q), n = 0 \/ \A m \in Els(q) : m < n PROVE Ordered(a)
  <2> SUFFICES ASSUME NEW i \in DOMAIN a, NEW j \in DOMAIN a, i < j PROVE a[j] = 0 \/ a[i] < a[j]
    BY DEF Ordered
  <2>1. i \in DOMAIN q /\ a[i] = q[i] /\ q[i] \in Els(q)
    BY <1>1 DEF Els
  <2>2. CASE j \in DOMAIN q
    BY <1>1, <1>3, <2>1, <2>2 DEF Ordered
  <2>3. CASE j = Len(q) + 1
    BY <1>1, <1>3, <2>1, <2>3
  <2> QED BY <1>1, <2>2, <2>3
<1> QED BY <1>2, <1>3 DEF a

\* The first one taken.
LEMMA ElsTail ==
    ASSUME NEW q \in Seq(Nat), q # <<>>
    PROVE  /\ Els(q) = {Head(q)} \cup Els(Tail(q))
           /\ Ordered(q) => Ordered(Tail(q)) /\ \A n \in Els(Tail(q)) : n = 0 \/ Head(q) < n
<1> DEFINE t == Tail(q)
<1>1. /\ Len(q) \in Nat \ {0} /\ Len(t) = Len(q) - 1 /\ DOMAIN q = 1 .. Len(q) /\ DOMAIN t = 1 .. Len(t)
      /\ \A i \in 1 .. Len(t) : t[i] = q[i + 1]
      /\ Head(q) = q[1]
  BY HeadTailProperties, LenProperties, EmptySeq
<1> HIDE DEF t
<1>2. \A i \in DOMAIN q : i = 1 \/ (i - 1 \in DOMAIN t /\ t[i - 1] = q[i])
  BY <1>1
<1>3. \A i \in DOMAIN t : i + 1 \in DOMAIN q /\ 1 < i + 1
  BY <1>1
<1>4. Els(q) = {Head(q)} \cup Els(t)
  <2>1. ASSUME NEW i \in DOMAIN q PROVE q[i] \in {Head(q)} \cup Els(t)
    BY <1>1, <1>2 DEF Els
  <2>2. ASSUME NEW i \in DOMAIN t PROVE t[i] \in Els(q)
    BY <1>1, <1>3 DEF Els
  <2>3. Head(q) \in Els(q)
    <3>1. 1 \in DOMAIN q /\ q[1] = Head(q)
      BY <1>1
    <3> QED BY <3>1 DEF Els
  <2> QED BY <2>1, <2>2, <2>3 DEF Els
<1>5. ASSUME Ordered(q) PROVE Ordered(t) /\ \A n \in Els(t) : n = 0 \/ Head(q) < n
  <2>1. ASSUME NEW i \in DOMAIN t, NEW j \in DOMAIN t, i < j PROVE t[j] = 0 \/ t[i] < t[j]
    <3>1. i + 1 < j + 1
      BY <1>1, <2>1
    <3> QED BY <1>1, <1>3, <1>5, <3>1 DEF Ordered
  <2>2. ASSUME NEW i \in DOMAIN t PROVE t[i] = 0 \/ Head(q) < t[i]
    <3>1. 1 \in DOMAIN q
      BY <1>1
    <3> QED BY <1>1, <1>3, <1>5, <3>1 DEF Ordered
  <2> QED BY <2>1, <2>2 DEF Ordered, Els
<1> QED BY <1>4, <1>5 DEF t

\* The events of stream s among the messages w, and that they are in order.
Nums(w, s) == {n \in Nat \ {0} : \E i \in DOMAIN w : w[i] = [id |-> s, n |-> n]}
Sorted(w) ==
    \A i, j \in DOMAIN w : i < j /\ w[i].id = w[j].id /\ w[j].n # 0 => w[i].n < w[j].n

\* The reader takes the first message: if it is an event, the next of its stream.
LEMMA NumsTail ==
    ASSUME NEW w \in Seq(Message), w # <<>>, Sorted(w)
    PROVE  /\ Sorted(Tail(w))
           /\ Els(Tail(w)) \subseteq Els(w)
           /\ \A s : Nums(Tail(w), s) = Nums(w, s) \ (IF Head(w).id = s THEN {Head(w).n} ELSE {})
           /\ Head(w).n # 0 => Head(w).n \in Nums(w, Head(w).id)
           /\ \A n \in Nums(w, Head(w).id) : Head(w).n <= n
<1> DEFINE t == Tail(w)
<1> DEFINE h == Head(w)
<1>1. /\ Len(w) \in Nat \ {0} /\ Len(t) = Len(w) - 1 /\ DOMAIN w = 1 .. Len(w) /\ DOMAIN t = 1 .. Len(t)
      /\ \A i \in 1 .. Len(t) : t[i] = w[i + 1]
      /\ h = w[1] /\ h \in Message
  BY HeadTailProperties, LenProperties, EmptySeq
<1> HIDE DEF t, h
<1>2. \A i \in DOMAIN w : i = 1 \/ (i - 1 \in DOMAIN t /\ t[i - 1] = w[i] /\ 1 < i)
  BY <1>1
<1>3. \A i \in DOMAIN t : i + 1 \in DOMAIN w /\ 1 < i + 1 /\ t[i] = w[i + 1]
  BY <1>1
<1>4. h = [id |-> h.id, n |-> h.n] /\ h.n \in Nat
  BY <1>1 DEF Message
<1>5. Sorted(t)
  <2> SUFFICES ASSUME NEW i \in DOMAIN t, NEW j \in DOMAIN t, i < j, t[i].id = t[j].id, t[j].n # 0
               PROVE  t[i].n < t[j].n
    BY DEF Sorted
  <2>1. i + 1 < j + 1
    BY <1>1
  <2> QED BY <1>3, <2>1 DEF Sorted
<1>6. ASSUME NEW s PROVE Nums(t, s) = Nums(w, s) \ (IF h.id = s THEN {h.n} ELSE {})
  <2>1. ASSUME NEW n \in Nums(t, s)
        PROVE  n \in Nums(w, s) /\ (h.id = s => n # h.n)
    <3>1. PICK i \in DOMAIN t : t[i] = [id |-> s, n |-> n]
      BY DEF Nums
    <3>2. i + 1 \in DOMAIN w /\ 1 < i + 1 /\ w[i + 1] = [id |-> s, n |-> n] /\ n \in Nat \ {0}
      BY <1>3, <3>1 DEF Nums
    <3>3. h.id = s => h.n < n
      <4>1. 1 \in DOMAIN w /\ w[1] = h
        BY <1>1
      <4> QED BY <3>2, <4>1 DEF Sorted
    <3> QED BY <1>4, <3>2, <3>3 DEF Nums
  <2>2. ASSUME NEW n \in Nums(w, s), h.id = s => n # h.n
        PROVE  n \in Nums(t, s)
    <3>1. PICK i \in DOMAIN w : w[i] = [id |-> s, n |-> n]
      BY DEF Nums
    <3>2. i # 1
      BY <1>1, <2>2, <3>1
    <3> QED BY <1>2, <3>1, <3>2 DEF Nums
  <2> QED BY <2>1, <2>2
<1>7. h.n # 0 => h.n \in Nums(w, h.id)
  <2>1. 1 \in DOMAIN w
    BY <1>1
  <2> QED BY <1>1, <1>4, <2>1 DEF Nums
<1>8. ASSUME NEW n \in Nums(w, h.id) PROVE h.n <= n
  <2>1. PICK i \in DOMAIN w : w[i] = [id |-> h.id, n |-> n]
    BY DEF Nums
  <2>2. n \in Nat \ {0}
    BY DEF Nums
  <2>3. CASE i = 1
    <3>1. h.n = n
      BY <1>1, <2>1, <2>3
    <3> QED BY <1>4, <3>1
  <2>4. CASE i # 1
    <3>1. 1 \in DOMAIN w /\ 1 < i /\ w[1] = h
      BY <1>1, <2>4
    <3>2. h.n < n
      BY <2>1, <2>2, <3>1 DEF Sorted
    <3> QED BY <1>4, <2>2, <3>2
  <2> QED BY <2>3, <2>4
<1>9. Els(t) \subseteq Els(w)
  BY <1>3 DEF Els
<1> QED BY <1>5, <1>6, <1>7, <1>8, <1>9 DEF t, h

\* The plugin writes one more.
LEMMA NumsAppend ==
    ASSUME NEW w \in Seq(Message), NEW m \in Message
    PROVE  /\ Els(Append(w, m)) = Els(w) \cup {m}
           /\ Sorted(w) /\ (\A x \in Els(w) : x.id = m.id /\ m.n # 0 => x.n < m.n) => Sorted(Append(w, m))
           /\ \A s : Nums(Append(w, m), s) = Nums(w, s) \cup (IF m.id = s /\ m.n # 0 THEN {m.n} ELSE {})
           /\ w # <<>> => Head(Append(w, m)) = Head(w)
<1> DEFINE a == Append(w, m)
<1>1. /\ Len(a) = Len(w) + 1 /\ DOMAIN w = 1 .. Len(w) /\ DOMAIN a = 1 .. Len(a) /\ Len(w) \in Nat
      /\ \A i \in 1 .. Len(w) : a[i] = w[i]
      /\ a[Len(w) + 1] = m /\ a \in Seq(Message) /\ a # <<>>
  BY AppendProperties, LenProperties
<1>0. /\ Head(a) = a[1]
      /\ w # <<>> => Head(w) = w[1] /\ Len(w) # 0
  BY <1>1, HeadTailProperties, EmptySeq
<1> HIDE DEF a
<1>2. m = [id |-> m.id, n |-> m.n] /\ m.n \in Nat
  BY DEF Message
<1>3. Els(a) = Els(w) \cup {m}
  BY <1>1 DEF Els
<1>4. ASSUME Sorted(w), \A x \in Els(w) : x.id = m.id /\ m.n # 0 => x.n < m.n PROVE Sorted(a)
  <2> SUFFICES ASSUME NEW i \in DOMAIN a, NEW j \in DOMAIN a, i < j, a[i].id = a[j].id, a[j].n # 0
               PROVE  a[i].n < a[j].n
    BY DEF Sorted
  <2>1. i \in DOMAIN w /\ a[i] = w[i] /\ w[i] \in Els(w)
    BY <1>1 DEF Els
  <2>2. CASE j \in DOMAIN w
    <3>1. a[j] = w[j]
      BY <1>1, <2>2
    <3> QED BY <1>4, <2>1, <2>2, <3>1 DEF Sorted
  <2>3. CASE j = Len(w) + 1
    <3>1. a[j] = m
      BY <1>1, <2>3
    <3> QED BY <1>4, <2>1, <3>1
  <2> QED BY <1>1, <2>2, <2>3
<1>5. ASSUME NEW s PROVE Nums(a, s) = Nums(w, s) \cup (IF m.id = s /\ m.n # 0 THEN {m.n} ELSE {})
  <2>1. ASSUME NEW n \in Nat \ {0}
        PROVE  (\E i \in DOMAIN a : a[i] = [id |-> s, n |-> n]) <=>
               (\E i \in DOMAIN w : w[i] = [id |-> s, n |-> n]) \/ m = [id |-> s, n |-> n]
    <3> DEFINE x == [id |-> s, n |-> n]
    <3> HIDE DEF x
    <3>1. x \in Els(a) <=> x \in Els(w) \/ m = x
      BY <1>3
    <3> QED BY <3>1 DEF Els, x
  <2>2. ASSUME NEW n \in Nat \ {0} PROVE m = [id |-> s, n |-> n] <=> m.id = s /\ m.n = n
    BY <1>2
  <2> QED BY <1>2, <2>1, <2>2 DEF Nums
<1>6. w # <<>> => Head(a) = Head(w)
  BY <1>0, <1>1
<1> QED BY <1>3, <1>4, <1>5, <1>6 DEF a

-----------------------------------------------------------------------------
(* The messages on their way.                                              *)

\* A connection carries the events of a stream in the order they were emitted,
\* and only those of streams that were called on it.
WireInv ==
    /\ \A g \in Gen : Sorted(wire[g])
    /\ \A g \in Gen : \A m \in Els(wire[g]) :
          conn[m.id] = g /\ plug[m.id] # "none" /\ m.n <= Len(sent[m.id])
    /\ \A g \in Gen : at[g] \in {"send", "close"} => Head(wire[g]).n # 0
    /\ \A s \in Stream : plug[s] \in {"none", "asked", "rejected"} => sent[s] = <<>>
    /\ \A s \in Stream : pc[s] = "idle" => plug[s] = "none"

\* What the reader has still to hand out of a stream's events.
AtClose(s) == at[conn[s]] = "close" /\ Head(wire[conn[s]]).id = s
Ahead(s) == Nums(wire[conn[s]], s) \ (IF AtClose(s) THEN {Head(wire[conn[s]]).n} ELSE {})

\* At first nothing is on its way.
LEMMA InitWireInv == Init => WireInv /\ \A s \in Stream : Ahead(s) = {}
<1> SUFFICES ASSUME Init PROVE WireInv /\ \A s \in Stream : Ahead(s) = {}
  OBVIOUS
<1>1. \A g \in Gen : wire[g] = <<>> /\ at[g] = "read"
  BY DEF Init
<1>2. \A s \in Stream : conn[s] \in Gen
  BY DEF Init
<1> QED BY <1>1, <1>2 DEF Init, WireInv, Sorted, Els, Ahead, Nums

\* What is on a connection.
LEMMA WireMessages ==
    ASSUME TypeOK
    PROVE  \A g \in Gen : \A x \in Els(wire[g]) : x \in Message /\ x.id \in Stream /\ x.n \in Nat
<1> SUFFICES ASSUME NEW g \in Gen, NEW x \in Els(wire[g]) PROVE x \in Message
  BY DEF Message
<1>1. PICK i \in DOMAIN wire[g] : x = wire[g][i]
  BY DEF Els
<1>2. wire[g] \in Seq(Message)
  BY DEF TypeOK
<1> QED BY <1>1, <1>2, LenProperties

\* Messages are only taken.
LEMMA WireShrinks ==
    ASSUME TypeOK, WireInv, UNCHANGED <<conn, plug, sent>>,
           \A g \in Gen : wire'[g] = wire[g] \/ (wire[g] # <<>> /\ wire'[g] = Tail(wire[g])),
           \A g \in Gen : at'[g] \in {"send", "close"} => Head(wire'[g]).n # 0,
           \A s \in Stream : pc'[s] = "idle" => pc[s] = "idle"
    PROVE  WireInv'
<1>1. \A g \in Gen : wire[g] \in Seq(Message)
  BY DEF TypeOK
<1>2. \A g \in Gen : Sorted(wire'[g]) /\ Els(wire'[g]) \subseteq Els(wire[g])
  BY <1>1, NumsTail DEF WireInv
<1> QED BY <1>2 DEF WireInv

\* The plugin writes its reply (0) or its next event.
LEMMA WireGrows ==
    ASSUME TypeOK, WireInv, NEW s \in Stream, NEW n \in Nat,
           wire' = [wire EXCEPT ![conn[s]] = Written(@, [id |-> s, n |-> n])],
           UNCHANGED <<conn, at, pc>>,
           n = 0 \/ n = Len(sent[s]) + 1, n <= Len(sent'[s]),
           \A r \in Stream : Len(sent[r]) <= Len(sent'[r]),
           plug[s] # "none", plug'[s] \notin {"none", "asked"},
           plug'[s] = "rejected" => sent'[s] = <<>>,
           \A r \in Stream \ {s} : plug'[r] = plug[r] /\ sent'[r] = sent[r],
           \A r \in Stream : sent'[r] \in Seq(Kind)
    PROVE  /\ WireInv'
           /\ Ahead(s)' = Ahead(s) \cup ({n} \ {0})
           /\ \A r \in Stream \ {s} : Ahead(r)' = Ahead(r)
<1> DEFINE m == [id |-> s, n |-> n]
<1> DEFINE c == conn[s]
<1>1. c \in Gen /\ m \in Message /\ m.id = s /\ m.n = n
  BY DEF TypeOK, Message
<1>2. wire[c] \in Seq(Message) /\ wire'[c] = Append(wire[c], m) /\ \A g \in Gen \ {c} : wire'[g] = wire[g]
  BY <1>1 DEF TypeOK, Written
<1> HIDE DEF m
<1>3. Len(sent[s]) \in Nat /\ \A r \in Stream : Len(sent[r]) \in Nat /\ Len(sent'[r]) \in Nat
  BY LenProperties DEF TypeOK
<1>4. \A g \in Gen : \A x \in Els(wire[g]) : x \in Message /\ x.id \in Stream /\ x.n \in Nat
  BY WireMessages
<1>5. \A x \in Els(wire[c]) : x.id = m.id /\ m.n # 0 => x.n < m.n
  <2> SUFFICES ASSUME NEW x \in Els(wire[c]), x.id = s, n # 0 PROVE x.n < n
    BY <1>1
  <2>1. x.n <= Len(sent[s]) /\ n = Len(sent[s]) + 1 /\ x.n \in Nat
    BY <1>1, <1>4 DEF WireInv
  <2> QED BY <1>3, <2>1
<1>6. /\ Els(wire'[c]) = Els(wire[c]) \cup {m}
      /\ Sorted(wire'[c])
      /\ \A r : Nums(wire'[c], r) = Nums(wire[c], r) \cup (IF m.id = r /\ m.n # 0 THEN {m.n} ELSE {})
      /\ wire[c] # <<>> => Head(wire'[c]) = Head(wire[c])
  <2>1. Sorted(wire[c])
    BY <1>1 DEF WireInv
  <2>2. /\ Els(Append(wire[c], m)) = Els(wire[c]) \cup {m}
        /\ Sorted(Append(wire[c], m))
        /\ \A r : Nums(Append(wire[c], m), r) = Nums(wire[c], r) \cup (IF m.id = r /\ m.n # 0 THEN {m.n} ELSE {})
        /\ wire[c] # <<>> => Head(Append(wire[c], m)) = Head(wire[c])
    BY <1>1, <1>2, <1>5, <2>1, NumsAppend, Zenon
  <2>3. wire'[c] = Append(wire[c], m)
    BY <1>2
  <2> QED BY <2>2, <2>3, Zenon
<1>7. \A g \in Gen : Sorted(wire'[g])
  BY <1>2, <1>6 DEF WireInv
<1>8. \A g \in Gen : \A x \in Els(wire'[g]) :
          conn[x.id] = g /\ plug'[x.id] # "none" /\ x.n <= Len(sent'[x.id])
  <2>1. ASSUME NEW g \in Gen, NEW x \in Els(wire[g])
        PROVE  conn[x.id] = g /\ plug'[x.id] # "none" /\ x.n <= Len(sent'[x.id])
    <3>1. x.id \in Stream /\ x.n \in Nat
      BY <1>4
    <3>2. conn[x.id] = g /\ plug[x.id] # "none" /\ x.n <= Len(sent[x.id])
      BY DEF WireInv
    <3> QED BY <1>3, <3>1, <3>2
  <2>2. conn[m.id] = c /\ plug'[m.id] # "none" /\ m.n <= Len(sent'[m.id])
    BY <1>1
  <2> SUFFICES ASSUME NEW g \in Gen, NEW x \in Els(wire'[g])
               PROVE  conn[x.id] = g /\ plug'[x.id] # "none" /\ x.n <= Len(sent'[x.id])
    OBVIOUS
  <2>3. CASE g = c
    <3>1. x \in Els(wire[c]) \/ x = m
      BY <1>6, <2>3
    <3> QED BY <1>1, <2>1, <2>2, <2>3, <3>1
  <2>4. CASE g # c
    <3>1. x \in Els(wire[g])
      BY <1>2, <2>4
    <3> QED BY <2>1, <3>1
  <2> QED BY <2>3, <2>4
<1>9. \A g \in Gen : at[g] \in {"send", "close"} => wire[g] # <<>> /\ Head(wire'[g]) = Head(wire[g])
  BY <1>2, <1>6 DEF TypeOK
<1>10. WireInv'
  <2>1. \A g \in Gen : at'[g] \in {"send", "close"} => Head(wire'[g]).n # 0
    BY <1>9 DEF WireInv
  <2>2. \A r \in Stream : plug'[r] \in {"none", "asked", "rejected"} => sent'[r] = <<>>
    BY DEF WireInv
  <2>3. \A r \in Stream : pc'[r] = "idle" => plug'[r] = "none"
    BY DEF WireInv
  <2> QED BY <1>7, <1>8, <2>1, <2>2, <2>3 DEF WireInv
<1>11. \A r \in Stream : AtClose(r)' = AtClose(r) /\ (AtClose(r) => Head(wire'[conn[r]]) = Head(wire[conn[r]]))
  <2>1. \A r \in Stream : conn[r] \in Gen /\ conn'[r] = conn[r] /\ at' = at
    BY DEF TypeOK
  <2> QED BY <1>9, <2>1 DEF AtClose
<1>12. \A r \in Stream \ {s} : Nums(wire'[conn[r]], r) = Nums(wire[conn[r]], r)
  <2> SUFFICES ASSUME NEW r \in Stream \ {s} PROVE Nums(wire'[conn[r]], r) = Nums(wire[conn[r]], r)
    OBVIOUS
  <2>1. conn[r] \in Gen
    BY DEF TypeOK
  <2>2. CASE conn[r] = c
    <3>1. m.id # r
      BY <1>1
    <3>2. Nums(wire'[c], r) = Nums(wire[c], r) \cup {}
      BY <1>6, <3>1, Zenon
    <3> QED BY <2>2, <3>2
  <2>3. CASE conn[r] # c
    BY <1>2, <2>1, <2>3
  <2> QED BY <2>2, <2>3
<1>13. \A r \in Stream \ {s} : Ahead(r)' = Ahead(r)
  BY <1>11, <1>12 DEF Ahead
<1>14. Nums(wire'[c], s) = Nums(wire[c], s) \cup ({n} \ {0})
  BY <1>1, <1>6
<1>15. AtClose(s) => Head(wire[c]).n \notin {n} \ {0}
  <2> SUFFICES ASSUME AtClose(s), n # 0 PROVE Head(wire[c]).n # n
    OBVIOUS
  <2>1. wire[c] # <<>> /\ Head(wire[c]).id = s
    BY <1>1 DEF AtClose, TypeOK
  <2>2. Head(wire[c]) \in Els(wire[c])
    BY <1>2, <2>1, HeadTailProperties, LenProperties, EmptySeq DEF Els
  <2> QED BY <1>1, <1>4, <1>5, <2>1, <2>2
<1>16. Ahead(s)' = Ahead(s) \cup ({n} \ {0})
  <2>1. conn' = conn
    OBVIOUS
  <2> QED BY <1>11, <1>14, <1>15, <2>1 DEF Ahead
<1> QED BY <1>10, <1>13, <1>16

\* A stream is called on the present connection, which carries nothing of it.
LEMMA CallWireInv ==
    ASSUME TypeOK, WireInv, NEW s \in Stream, CallStream(s)
    PROVE  WireInv' /\ \A r \in Stream : Ahead(r)' = Ahead(r) /\ (AtClose(r)' => AtClose(r))
<1>1. /\ pc[s] = "idle" /\ conn' = [conn EXCEPT ![s] = gen]
      /\ UNCHANGED <<sent, wire, at>>
  BY DEF CallStream, readVars
<1>2. (\A r \in Stream \ {s} : pc'[r] = pc[r] /\ plug'[r] = plug[r]) /\ pc'[s] # "idle"
  <2>1. CASE closed[gen]
    BY <2>1 DEF CallStream, TypeOK
  <2>2. CASE ~closed[gen]
    BY <2>2 DEF CallStream, TypeOK
  <2> QED BY <2>1, <2>2
<1>3. plug[s] = "none" /\ plug'[s] \in {"none", "asked"} /\ sent[s] = <<>>
  <2>1. plug[s] = "none" /\ sent[s] = <<>>
    BY <1>1 DEF WireInv
  <2>2. CASE closed[gen]
    BY <2>1, <2>2 DEF CallStream
  <2>3. CASE ~closed[gen]
    BY <2>1, <2>3 DEF CallStream, TypeOK
  <2> QED BY <2>1, <2>2, <2>3
<1>4. \A g \in Gen : \A m \in Els(wire[g]) : m.id \in Stream
  BY WireMessages
<1>5. \A g \in Gen : \A m \in Els(wire[g]) : m.id # s
  BY <1>3 DEF WireInv
<1>6. conn \in [Stream -> Gen] /\ gen \in Gen
  BY DEF TypeOK
<1>7. WireInv'
  <2>1. \A g \in Gen : \A m \in Els(wire'[g]) :
          conn'[m.id] = g /\ plug'[m.id] # "none" /\ m.n <= Len(sent'[m.id])
    <3> SUFFICES ASSUME NEW g \in Gen, NEW m \in Els(wire[g])
                 PROVE  conn'[m.id] = g /\ plug'[m.id] # "none" /\ m.n <= Len(sent[m.id])
      BY <1>1
    <3>1. m.id \in Stream /\ m.id # s
      BY <1>4, <1>5
    <3>2. conn[m.id] = g /\ plug[m.id] # "none" /\ m.n <= Len(sent[m.id])
      BY DEF WireInv
    <3>3. conn'[m.id] = conn[m.id] /\ plug'[m.id] = plug[m.id]
      BY <1>1, <1>2, <1>6, <3>1
    <3> QED BY <3>2, <3>3
  <2>2. /\ \A r \in Stream : plug'[r] \in {"none", "asked", "rejected"} => sent'[r] = <<>>
        /\ \A r \in Stream : pc'[r] = "idle" => plug'[r] = "none"
    <3> SUFFICES ASSUME NEW r \in Stream
                 PROVE  /\ plug'[r] \in {"none", "asked", "rejected"} => sent[r] = <<>>
                        /\ pc'[r] = "idle" => plug'[r] = "none"
      BY <1>1
    <3>1. CASE r = s
      BY <1>2, <1>3, <3>1
    <3>2. CASE r # s
      BY <1>2, <3>2 DEF WireInv
    <3> QED BY <3>1, <3>2
  <2>3. /\ \A g \in Gen : Sorted(wire'[g])
        /\ \A g \in Gen : at'[g] \in {"send", "close"} => Head(wire'[g]).n # 0
    BY <1>1 DEF WireInv
  <2> QED BY <2>1, <2>2, <2>3, Zenon DEF WireInv
<1>8. \A g \in Gen : Nums(wire[g], s) = {}
  <2> SUFFICES ASSUME NEW g \in Gen, NEW n \in Nums(wire[g], s) PROVE FALSE
    OBVIOUS
  <2>1. PICK i \in DOMAIN wire[g] : wire[g][i] = [id |-> s, n |-> n]
    BY DEF Nums
  <2> QED BY <1>5, <2>1 DEF Els
<1>9. Ahead(s)' = Ahead(s)
  BY <1>1, <1>6, <1>8 DEF Ahead
<1>10. \A r \in Stream \ {s} : Ahead(r)' = Ahead(r)
  <2>1. \A r \in Stream \ {s} : conn'[r] = conn[r]
    BY <1>1, <1>6
  <2> QED BY <1>1, <2>1 DEF Ahead, AtClose
<1>11. \A r \in Stream : AtClose(r)' => AtClose(r)
  <2>1. ~AtClose(s)'
    <3>1. wire[gen] # <<>> => Head(wire[gen]).id # s
      <4> SUFFICES ASSUME wire[gen] # <<>> PROVE Head(wire[gen]) \in Els(wire[gen])
        BY <1>5, <1>6
      <4>1. wire[gen] \in Seq(Message)
        BY <1>6 DEF TypeOK
      <4> QED BY <4>1, HeadTailProperties, LenProperties, EmptySeq DEF Els
    <3>2. at[gen] = "close" => wire[gen] # <<>>
      BY <1>6 DEF TypeOK
    <3>3. conn'[s] = gen
      BY <1>1, <1>6
    <3> QED BY <1>1, <3>1, <3>2, <3>3 DEF AtClose
  <2>2. \A r \in Stream \ {s} : conn'[r] = conn[r]
    BY <1>1, <1>6
  <2> QED BY <1>1, <2>1, <2>2 DEF AtClose
<1> QED BY <1>7, <1>9, <1>10, <1>11

\* NumsTail for a connection.
LEMMA TailNums ==
    ASSUME TypeOK, WireInv, NEW g \in Gen, wire[g] # <<>>
    PROVE  LET h == Head(wire[g]) IN
           /\ h \in Els(wire[g])
           /\ \A s : Nums(Tail(wire[g]), s) = Nums(wire[g], s) \ (IF h.id = s THEN {h.n} ELSE {})
           /\ h.n # 0 => h.n \in Nums(wire[g], h.id)
           /\ \A n \in Nums(wire[g], h.id) : h.n <= n
<1>1. wire[g] \in Seq(Message) /\ Sorted(wire[g])
  BY DEF TypeOK, WireInv
<1>2. Head(wire[g]) \in Els(wire[g])
  BY <1>1, HeadTailProperties, LenProperties, EmptySeq DEF Els
<1> QED BY <1>1, <1>2, NumsTail, Zenon

\* A step of a reader that gives no event out.
LEMMA ReaderPasses ==
    ASSUME TypeOK, WireInv, NEW g \in Gen,
           ReadReply(g) \/ LookupHit(g) \/ CloseTerminal(g) \/ ReadEOF(g)
    PROVE  WireInv' /\ \A s \in Stream : Ahead(s)' = Ahead(s)
<1> USE DEF TypeOK, pluginVars, callVars, readVars
<1>1. conn \in [Stream -> Gen] /\ wire \in [Gen -> Seq(Message)]
  OBVIOUS
<1>2. CASE ReadReply(g)
  <2>1. /\ wire[g] # <<>> /\ Head(wire[g]).n = 0 /\ at[g] = "read"
        /\ wire' = [wire EXCEPT ![g] = Tail(@)] /\ UNCHANGED <<plug, sent, at, conn>>
    BY <1>2 DEF ReadReply
  <2>2. \A s \in Stream : pc'[s] = "idle" => pc[s] = "idle"
    <3>1. Head(wire[g]).id \in Stream
      BY <2>1, HeadMessage
    <3> QED BY <1>2, <3>1 DEF ReadReply
  <2>3. /\ wire'[g] = Tail(wire[g])
        /\ \A h \in Gen : h # g => wire'[h] = wire[h]
        /\ \A h \in Gen : at[h] \in {"send", "close"} => h # g
    BY <1>1, <2>1
  <2>4. WireInv'
    <3>1. \A h \in Gen : wire'[h] = wire[h] \/ (wire[h] # <<>> /\ wire'[h] = Tail(wire[h]))
      BY <2>1, <2>3
    <3>2. \A h \in Gen : at'[h] \in {"send", "close"} => Head(wire'[h]).n # 0
      BY <2>1, <2>3 DEF WireInv
    <3> QED BY <2>1, <2>2, <3>1, <3>2, WireShrinks
  <2>5. \A s \in Stream : Nums(wire'[g], s) = Nums(wire[g], s)
    <3> SUFFICES ASSUME NEW s \in Stream PROVE Nums(wire'[g], s) = Nums(wire[g], s)
      OBVIOUS
    <3>1. Nums(wire'[g], s) = Nums(wire[g], s) \ (IF Head(wire[g]).id = s THEN {Head(wire[g]).n} ELSE {})
      BY <2>1, <2>3, TailNums
    <3>2. 0 \notin Nums(wire[g], s)
      BY DEF Nums
    <3>3. Nums(wire'[g], s) = Nums(wire[g], s) \ (IF Head(wire[g]).id = s THEN {0} ELSE {})
      BY <2>1, <3>1
    <3> QED BY <3>2, <3>3
  <2>6. \A h \in Gen : h # g => wire'[h] = wire[h]
    BY <1>1, <2>1
  <2>7. \A s \in Stream : Ahead(s)' = Ahead(s)
    BY <1>1, <2>1, <2>5, <2>6 DEF Ahead, AtClose
  <2> QED BY <2>4, <2>7
<1>3. CASE LookupHit(g)
  <2>1. /\ Head(wire[g]).n # 0 /\ at[g] = "read"
        /\ at' = [at EXCEPT ![g] = "send"] /\ UNCHANGED <<plug, sent, wire, conn, pc>>
    BY <1>3 DEF LookupHit
  <2>2. \A h \in Gen : (at'[h] = "close" <=> at[h] = "close") /\ (h # g => at'[h] = at[h])
    BY <2>1
  <2>3. WireInv'
    <3>1. \A h \in Gen : wire'[h] = wire[h] \/ (wire[h] # <<>> /\ wire'[h] = Tail(wire[h]))
      BY <2>1, <2>2
    <3>2. \A h \in Gen : at'[h] \in {"send", "close"} => Head(wire'[h]).n # 0
      BY <2>1, <2>2 DEF WireInv
    <3>3. \A r \in Stream : pc'[r] = "idle" => pc[r] = "idle"
      BY <2>1
    <3> QED BY <2>1, <3>1, <3>2, <3>3, WireShrinks
  <2>4. \A s \in Stream : Ahead(s)' = Ahead(s)
    BY <1>1, <2>1, <2>2 DEF Ahead, AtClose
  <2> QED BY <2>3, <2>4
<1>4. CASE CloseTerminal(g)
  <2>1. /\ at[g] = "close" /\ wire[g] # <<>>
        /\ at' = [at EXCEPT ![g] = "read"] /\ wire' = [wire EXCEPT ![g] = Tail(@)]
        /\ UNCHANGED <<plug, sent, conn, pc>>
    BY <1>4 DEF CloseTerminal
  <2>2. /\ wire'[g] = Tail(wire[g]) /\ at'[g] = "read"
        /\ \A h \in Gen : h # g => wire'[h] = wire[h] /\ at'[h] = at[h]
    BY <1>1, <2>1
  <2>3. WireInv'
    <3>1. \A h \in Gen : wire'[h] = wire[h] \/ (wire[h] # <<>> /\ wire'[h] = Tail(wire[h]))
      BY <2>1, <2>2
    <3>2. \A h \in Gen : at'[h] \in {"send", "close"} => Head(wire'[h]).n # 0
      BY <2>1, <2>2 DEF WireInv
    <3>3. \A r \in Stream : pc'[r] = "idle" => pc[r] = "idle"
      BY <2>1
    <3> QED BY <2>1, <3>1, <3>2, <3>3, WireShrinks
  <2>4. \A s : Nums(wire'[g], s) = Nums(wire[g], s) \ (IF Head(wire[g]).id = s THEN {Head(wire[g]).n} ELSE {})
    BY <2>1, <2>2, TailNums
  <2>5. ASSUME NEW s \in Stream PROVE Ahead(s)' = Ahead(s)
    <3>1. conn[s] \in Gen /\ conn'[s] = conn[s]
      BY <2>1
    <3>2. CASE conn[s] = g
      BY <2>1, <2>2, <2>4, <3>1, <3>2 DEF Ahead, AtClose
    <3>3. CASE conn[s] # g
      <4>1. wire'[conn[s]] = wire[conn[s]] /\ at'[conn[s]] = at[conn[s]]
        BY <2>2, <3>1, <3>3
      <4> QED BY <3>1, <4>1, Zenon DEF Ahead, AtClose
    <3> QED BY <3>2, <3>3
  <2> QED BY <2>3, <2>5
<1>5. CASE ReadEOF(g)
  <2>1. at[g] = "read" /\ at' = [at EXCEPT ![g] = "eof"] /\ UNCHANGED <<plug, sent, wire, conn, pc>>
    BY <1>5 DEF ReadEOF
  <2>2. \A h \in Gen : at'[h] = at[h] \/ (at[h] = "read" /\ at'[h] = "eof")
    BY <2>1
  <2>3. WireInv'
    <3>1. \A h \in Gen : wire'[h] = wire[h] \/ (wire[h] # <<>> /\ wire'[h] = Tail(wire[h]))
      BY <2>1, <2>2
    <3>2. \A h \in Gen : at'[h] \in {"send", "close"} => Head(wire'[h]).n # 0
      BY <2>1, <2>2 DEF WireInv
    <3>3. \A r \in Stream : pc'[r] = "idle" => pc[r] = "idle"
      BY <2>1
    <3> QED BY <2>1, <3>1, <3>2, <3>3, WireShrinks
  <2>4. \A s \in Stream : Ahead(s)' = Ahead(s)
    BY <1>1, <2>1, <2>2 DEF Ahead, AtClose
  <2> QED BY <2>3, <2>4
<1> QED BY <1>2, <1>3, <1>4, <1>5

\* A step that does: it is the first that was ahead.
LEMMA ReaderGives ==
    ASSUME TypeOK, WireInv, NEW g \in Gen, LookupMiss(g) \/ SendEvent(g)
    PROVE  LET h == Head(wire[g]) IN
           /\ WireInv'
           /\ h.id \in Stream /\ h.n \in Ahead(h.id) /\ \A n \in Ahead(h.id) : h.n <= n
           /\ \A s \in Stream : Ahead(s)' = Ahead(s) \ (IF h.id = s THEN {h.n} ELSE {})
<1> USE DEF TypeOK, pluginVars, callVars, readVars
<1> DEFINE h == Head(wire[g])
<1>1. conn \in [Stream -> Gen] /\ wire \in [Gen -> Seq(Message)]
  OBVIOUS
<1>2. /\ wire[g] # <<>> /\ h.n # 0 /\ at[g] \in {"read", "send"}
      /\ UNCHANGED <<plug, sent, conn, pc>>
  BY DEF LookupMiss, SendEvent, WireInv
<1>3. h.id \in Stream
  BY <1>2, HeadMessage
<1>4. /\ h.n \in Nums(wire[g], h.id) /\ \A n \in Nums(wire[g], h.id) : h.n <= n
      /\ \A s : Nums(Tail(wire[g]), s) = Nums(wire[g], s) \ (IF h.id = s THEN {h.n} ELSE {})
  BY <1>2, TailNums, Zenon
<1>5. conn[h.id] = g
  BY <1>2, TailNums DEF WireInv
<1>6. \A k \in Gen \ {g} : wire'[k] = wire[k] /\ at'[k] = at[k]
  <2>1. CASE LookupMiss(g)
    BY <2>1 DEF LookupMiss
  <2>2. CASE SendEvent(g)
    <3>1. CASE IsTerminal(h.id, h.n)
      BY <2>2, <3>1 DEF SendEvent
    <3>2. CASE ~IsTerminal(h.id, h.n)
      BY <2>2, <3>2 DEF SendEvent
    <3> QED BY <3>1, <3>2
  <2> QED BY <2>1, <2>2
<1>7. \/ wire'[g] = Tail(wire[g]) /\ at'[g] = "read"
      \/ wire'[g] = wire[g] /\ at'[g] = "close"
  <2>1. CASE LookupMiss(g)
    BY <1>1, <2>1 DEF LookupMiss
  <2>2. CASE SendEvent(g)
    <3>1. CASE IsTerminal(h.id, h.n)
      BY <2>2, <3>1 DEF SendEvent
    <3>2. CASE ~IsTerminal(h.id, h.n)
      BY <2>2, <3>2 DEF SendEvent
    <3> QED BY <3>1, <3>2
  <2> QED BY <2>1, <2>2
<1> HIDE DEF h
<1>8. WireInv'
  <2>1. \A k \in Gen : wire'[k] = wire[k] \/ (wire[k] # <<>> /\ wire'[k] = Tail(wire[k]))
    BY <1>2, <1>6, <1>7
  <2>2. ASSUME NEW k \in Gen, at'[k] \in {"send", "close"} PROVE Head(wire'[k]).n # 0
    <3>1. CASE k = g
      BY <1>2, <1>7, <2>2, <3>1 DEF h
    <3>2. CASE k # g
      BY <1>6, <2>2, <3>2 DEF WireInv
    <3> QED BY <3>1, <3>2
  <2> QED BY <1>2, <2>1, <2>2, WireShrinks
<1>9. ASSUME NEW s \in Stream, conn[s] = g
      PROVE  /\ Ahead(s) = Nums(wire[g], s)
             /\ Ahead(s)' = Nums(wire[g], s) \ (IF h.id = s THEN {h.n} ELSE {})
  <2>1. conn'[s] = g
    BY <1>2, <1>9
  <2>2. Ahead(s) = Nums(wire[g], s)
    BY <1>2, <1>9 DEF Ahead, AtClose
  <2>3. CASE wire'[g] = Tail(wire[g]) /\ at'[g] = "read"
    BY <1>4, <2>1, <2>2, <2>3 DEF Ahead, AtClose
  <2>4. CASE wire'[g] = wire[g] /\ at'[g] = "close"
    BY <1>4, <2>1, <2>2, <2>4 DEF Ahead, AtClose, h
  <2> QED BY <1>7, <2>2, <2>3, <2>4
<1>10. ASSUME NEW s \in Stream, conn[s] # g PROVE Ahead(s)' = Ahead(s)
  BY <1>1, <1>2, <1>6, <1>10 DEF Ahead, AtClose
<1>11. h.n \in Ahead(h.id) /\ \A n \in Ahead(h.id) : h.n <= n
  <2>1. Ahead(h.id) = Nums(wire[g], h.id)
    BY <1>3, <1>5, <1>9, Zenon
  <2> QED BY <1>4, <2>1
<1>12. ASSUME NEW s \in Stream PROVE Ahead(s)' = Ahead(s) \ (IF h.id = s THEN {h.n} ELSE {})
  <2>1. CASE conn[s] = g
    BY <1>9, <2>1
  <2>2. CASE conn[s] # g
    <3>1. h.id # s
      BY <1>5, <2>2
    <3>2. Ahead(s)' = Ahead(s)
      BY <1>10, <2>2
    <3> QED BY <3>1, <3>2
  <2> QED BY <2>1, <2>2
<1> QED BY <1>3, <1>8, <1>11, <1>12 DEF h

-----------------------------------------------------------------------------
(* The line of a stream: what its handler has received and what its        *)
(* channel holds.                                                          *)

\* The events that have come to a stream's channel.
Line(s) == Els(got[s]) \cup Els(buf[s])

\* Handlers that have no channel yet, or never get one.
Before == {"idle", "calling", "answered", "stuck", "failed"}

\* Events that came before the stream was opened.
PendingOK(s) ==
    /\ Ordered(pending[s])
    /\ \A m \in Els(pending[s]) : m # 0 /\ m <= Len(sent[s]) /\ \A n \in Ahead(s) : m < n

\* Received, in the channel and ahead, the events of a stream are in the order
\* they were emitted; and a handler that has seen its channel's end has seen all
\* that was in it.
LineOK(s) ==
    /\ \A n \in Line(s) : n <= Len(sent[s])
    /\ Ordered(buf[s])
    /\ \A m \in Els(got[s]), n \in Els(buf[s]) : n = 0 \/ m < n
    /\ \A m \in Line(s), n \in Ahead(s) : m < n
    /\ chan[s] = "none" <=> pc[s] \in Before
    /\ chan[s] = "none" => got[s] = <<>> /\ buf[s] = <<>> /\ PendingOK(s)
    /\ pc[s] \in {"drained", "done"} => chan[s] = "closed" /\ buf[s] = <<>>

\* So it is for every stream.
LineInv == WireInv /\ \A s \in Stream : LineOK(s)

\* What these sequences and sets consist of.
LEMMA LineTypes ==
    ASSUME TypeOK, NEW s \in Stream
    PROVE  /\ got[s] \in Seq(Nat) /\ buf[s] \in Seq(Nat) /\ pending[s] \in Seq(Nat)
           /\ sent[s] \in Seq(Kind) /\ Len(sent[s]) \in Nat
           /\ Els(got[s]) \subseteq Nat /\ Els(buf[s]) \subseteq Nat /\ Els(pending[s]) \subseteq Nat
           /\ Line(s) \subseteq Nat /\ Ahead(s) \subseteq Nat \ {0}
<1>1. /\ got[s] \in Seq(Nat) /\ buf[s] \in Seq(Nat) /\ pending[s] \in Seq(Nat)
      /\ sent[s] \in Seq(Kind)
  BY DEF TypeOK
<1>2. ASSUME NEW q \in Seq(Nat) PROVE Els(q) \subseteq Nat
  BY LenProperties DEF Els
<1>3. Len(sent[s]) \in Nat
  BY <1>1, LenProperties
<1>4. Ahead(s) \subseteq Nat \ {0}
  BY DEF Ahead, Nums
<1> QED BY <1>1, <1>2, <1>3, <1>4 DEF Line

\* At first there are no events.
LEMMA InitLineInv == Init => LineInv
<1> SUFFICES ASSUME Init PROVE LineInv
  OBVIOUS
<1>1. \A s \in Stream : /\ got[s] = <<>> /\ buf[s] = <<>> /\ pending[s] = <<>>
                        /\ chan[s] = "none" /\ pc[s] = "idle"
  BY DEF Init
<1> QED BY <1>1, InitWireInv, ElsEmpty DEF LineInv, LineOK, PendingOK, Line, Before

\* A step that neither moves an event of s nor emits one.
LEMMA LineStays ==
    ASSUME TypeOK, NEW s \in Stream, LineOK(s),
           got'[s] = got[s], buf'[s] = buf[s], sent'[s] = sent[s], Ahead(s)' = Ahead(s),
           pending'[s] \in {pending[s], <<>>},
           chan'[s] = chan[s] \/ (chan[s] # "none" /\ chan'[s] = "closed"),
           pc'[s] \in Before <=> pc[s] \in Before,
           pc'[s] \in {"drained", "done"} => chan[s] = "closed" /\ buf[s] = <<>>
    PROVE  LineOK(s)'
<1>1. Line(s)' = Line(s)
  BY DEF Line
<1>2. PendingOK(s) => PendingOK(s)'
  BY ElsEmpty DEF PendingOK
<1> QED BY <1>1, <1>2 DEF LineOK

\* What happens elsewhere does not move the events of s.
LEMMA Elsewhere ==
    ASSUME TypeOK, NEW s \in Stream, LineOK(s), Ahead(s)' = Ahead(s),
           got'[s] = got[s], buf'[s] = buf[s], sent'[s] = sent[s], pending'[s] = pending[s],
           chan'[s] = chan[s], pc'[s] = pc[s]
    PROVE  LineOK(s)'
BY LineStays DEF LineOK

\* The connections are left alone.
LEMMA WireStays ==
    ASSUME TypeOK, WireInv, UNCHANGED <<wire, at, conn, sent>>,
           \A s \in Stream : pc'[s] = "idle" => pc[s] = "idle",
           \A s \in Stream : \/ plug'[s] = plug[s]
                             \/ plug[s] # "none" /\ plug'[s] = "opened"
    PROVE  WireInv' /\ \A s \in Stream : Ahead(s)' = Ahead(s)
<1>1. \A s : Ahead(s)' = Ahead(s)
  BY DEF Ahead, AtClose
<1>2. WireInv'
  BY WireMessages DEF WireInv
<1> QED BY <1>1, <1>2

\* closeStreamLocked closes or leaves a channel that was made.
LEMMA CloseLockedLine ==
    ASSUME TypeOK, ChannelInv, NEW s \in Stream, CloseLocked(s)
    PROVE  \A r \in Stream :
              /\ pending'[r] \in {pending[r], <<>>}
              /\ chan'[r] = chan[r] \/ (chan[r] # "none" /\ chan'[r] = "closed")
<1>1. chan' = chan \/ (s \in streams /\ chan' = [chan EXCEPT ![s] = "closed"])
  BY DEF CloseLocked
<1>2. s \in streams => chan[s] = "open"
  BY DEF ChannelInv, CloseOnce
<1>3. pending' = [pending EXCEPT ![s] = <<>>]
  BY DEF CloseLocked, WithoutPending
<1>4. /\ pending \in [Stream -> Seq(Nat)]
      /\ chan \in [Stream -> {"none", "open", "closed"}]
  BY DEF TypeOK
<1>5. \A r \in Stream : pending'[r] \in {pending[r], <<>>}
  BY <1>3, <1>4
<1>6. \A r \in Stream : chan'[r] = chan[r] \/ (chan[r] # "none" /\ chan'[r] = "closed")
  BY <1>1, <1>2, <1>4
<1> QED BY <1>5, <1>6

\* The steps of a handler and its canceller.
LEMMA HandlerLine ==
    ASSUME TypeOK, ChannelInv, LineInv, NEW s \in Stream,
           CallStream(s) \/ Disconnect(s) \/ HandlerStep(s) \/ CancelStep(s)
    PROVE  LineInv'
<1> USE DEF pluginVars, mapVars, callVars, faultVars, readVars
<1>0. /\ pc \in [Stream -> {"idle", "calling", "answered", "stuck", "reading",
                            "drained", "done", "failed"}]
      /\ got \in [Stream -> Seq(Nat)] /\ buf \in [Stream -> Seq(Nat)]
      /\ pending \in [Stream -> Seq(Nat)] /\ chan \in [Stream -> {"none", "open", "closed"}]
  BY DEF TypeOK
<1>a. WireInv /\ \A r \in Stream : LineOK(r)
  BY DEF LineInv
<1>1. CASE CallStream(s)
  <2>1. pc[s] = "idle" /\ pc'[s] \in Before /\ \A r \in Stream \ {s} : pc'[r] = pc[r]
    <3>1. CASE closed[gen]
      BY <1>0, <1>1, <3>1 DEF CallStream, Before
    <3>2. CASE ~closed[gen]
      BY <1>0, <1>1, <3>2 DEF CallStream, Before
    <3> QED BY <3>1, <3>2
  <2>2. UNCHANGED <<got, buf, sent, pending, chan>>
    BY <1>1 DEF CallStream
  <2>3. WireInv' /\ \A r \in Stream : Ahead(r)' = Ahead(r)
    BY <1>1, <1>a, CallWireInv
  <2>4. pc[s] \in Before /\ pc'[s] \notin {"drained", "done"}
    BY <2>1 DEF Before
  <2>5. LineOK(s)'
    BY <1>a, <2>1, <2>2, <2>3, <2>4, LineStays
  <2>6. \A r \in Stream \ {s} : LineOK(r)'
    BY <1>a, <2>1, <2>2, <2>3, Elsewhere
  <2> QED BY <2>3, <2>5, <2>6 DEF LineInv
<1>2. ASSUME UNCHANGED <<sent, wire, at, conn, plug, got, buf, pending, chan>>, NEW l,
             pc' = [pc EXCEPT ![s] = l], l # "idle", l \in Before <=> pc[s] \in Before,
             l \in {"drained", "done"} => chan[s] = "closed" /\ buf[s] = <<>>
      PROVE  LineInv'
  <2>1. pc'[s] = l /\ \A r \in Stream \ {s} : pc'[r] = pc[r]
    BY <1>0, <1>2
  <2>2. \A r \in Stream : pc'[r] = "idle" => pc[r] = "idle"
    BY <1>2, <2>1
  <2>3. WireInv' /\ \A r \in Stream : Ahead(r)' = Ahead(r)
    BY <1>2, <1>a, <2>2, WireStays
  <2>4. LineOK(s)'
    BY <1>2, <1>a, <2>1, <2>3, LineStays
  <2>5. \A r \in Stream \ {s} : LineOK(r)'
    BY <1>2, <1>a, <2>1, <2>3, Elsewhere
  <2> QED BY <2>3, <2>4, <2>5 DEF LineInv
<1>3. CASE Disconnect(s) \/ CancelCall(s)
  <2>1. UNCHANGED <<sent, wire, at, conn, plug, got, buf, pending, chan, pc>>
    BY <1>3 DEF Disconnect, CancelCall
  <2>2. WireInv' /\ \A r \in Stream : Ahead(r)' = Ahead(r)
    BY <1>a, <2>1, WireStays
  <2>3. \A r \in Stream : LineOK(r)'
    BY <1>a, <2>1, <2>2, Elsewhere
  <2> QED BY <2>2, <2>3 DEF LineInv
<1>4. CASE CallFail(s)
  BY <1>2, <1>4 DEF CallFail, Before
<1>5. CASE RejectedReturn(s)
  BY <1>2, <1>5 DEF RejectedReturn, Before
<1>6. CASE OpenStream(s)
  <2>1. /\ pc[s] = "answered" /\ pc' = [pc EXCEPT ![s] = "reading"]
        /\ buf' = [buf EXCEPT ![s] = pending[s]]
        /\ pending' = [pending EXCEPT ![s] = <<>>]
        /\ chan' = [chan EXCEPT ![s] = IF EndedPending(s) THEN "closed" ELSE "open"]
        /\ UNCHANGED <<sent, wire, at, conn, plug, got>>
    BY <1>6 DEF OpenStream, WithoutPending
  <2>2. /\ pc'[s] = "reading" /\ buf'[s] = pending[s] /\ chan'[s] \in {"closed", "open"}
        /\ \A r \in Stream \ {s} : /\ pc'[r] = pc[r] /\ buf'[r] = buf[r]
                                   /\ pending'[r] = pending[r] /\ chan'[r] = chan[r]
    BY <1>0, <2>1
  <2>3. WireInv' /\ \A r \in Stream : Ahead(r)' = Ahead(r)
    <3>1. \A r \in Stream : pc'[r] = "idle" => pc[r] = "idle"
      BY <2>2
    <3> QED BY <1>a, <2>1, <3>1, WireStays
  <2>4. LineOK(s)'
    <3>1. chan[s] = "none" /\ got[s] = <<>> /\ PendingOK(s)
      BY <1>a, <2>1 DEF LineOK, Before
    <3>2. Els(got'[s]) = {} /\ Line(s)' = Els(pending[s])
      BY <2>1, <2>2, <3>1, ElsEmpty DEF Line
    <3> QED BY <2>1, <2>2, <2>3, <3>1, <3>2 DEF LineOK, PendingOK, Before
  <2>5. \A r \in Stream \ {s} : LineOK(r)'
    BY <1>a, <2>1, <2>2, <2>3, Elsewhere
  <2> QED BY <2>3, <2>4, <2>5 DEF LineInv
<1>7. CASE DrainBlocks(s)
  BY <1>2, <1>7 DEF DrainBlocks, Before
<1>8. CASE Consume(s)
  <2> DEFINE h == Head(buf[s])
  <2>1. /\ pc[s] = "reading" /\ buf[s] # <<>>
        /\ got' = [got EXCEPT ![s] = Append(@, h)] /\ buf' = [buf EXCEPT ![s] = Tail(@)]
        /\ UNCHANGED <<sent, wire, at, conn, plug, pending, chan, pc>>
    BY <1>8 DEF Consume
  <2>2. /\ got'[s] = Append(got[s], h) /\ buf'[s] = Tail(buf[s])
        /\ \A r \in Stream \ {s} : got'[r] = got[r] /\ buf'[r] = buf[r]
    BY <1>0, <2>1
  <2>3. WireInv' /\ \A r \in Stream : Ahead(r)' = Ahead(r)
    BY <1>a, <2>1, WireStays
  <2>4. LineOK(s)'
    <3>1. h \in Nat
      BY <1>0, <2>1, NatSeqs
    <3> HIDE DEF h
    <3>2. Els(got'[s]) = Els(got[s]) \cup {h}
      BY <1>0, <2>2, <3>1, ElsAppend
    <3>3. /\ Els(buf[s]) = {h} \cup Els(buf'[s])
          /\ Ordered(buf'[s]) /\ \A n \in Els(buf'[s]) : n = 0 \/ h < n
      BY <1>0, <1>a, <2>1, <2>2, ElsTail DEF LineOK, h
    <3>4. Line(s)' = Line(s)
      BY <3>2, <3>3 DEF Line
    <3>5. \A m \in Els(got'[s]), n \in Els(buf'[s]) : n = 0 \/ m < n
      BY <1>a, <3>2, <3>3 DEF LineOK
    <3>6. pc[s] \notin Before \cup {"drained", "done"} /\ chan[s] # "none"
      BY <1>a, <2>1 DEF LineOK, Before
    <3> QED BY <1>a, <2>1, <2>3, <3>3, <3>4, <3>5, <3>6 DEF LineOK
  <2>5. \A r \in Stream \ {s} : LineOK(r)'
    BY <1>a, <2>1, <2>2, <2>3, Elsewhere
  <2> QED BY <2>3, <2>4, <2>5 DEF LineInv
<1>9. CASE RangeEnd(s)
  BY <1>2, <1>9 DEF RangeEnd, Before
<1>10. CASE HandlerReturn(s)
  <2>1. chan[s] = "closed" /\ buf[s] = <<>>
    BY <1>10, <1>a DEF HandlerReturn, LineOK
  <2> QED BY <1>2, <1>10, <2>1 DEF HandlerReturn, Before
<1>11. CASE CancelClose(s)
  <2>1. CloseLocked(s) /\ UNCHANGED <<sent, wire, at, conn, plug, got, buf, pc>>
    BY <1>11 DEF CancelClose
  <2>2. WireInv' /\ \A r \in Stream : Ahead(r)' = Ahead(r)
    BY <1>a, <2>1, WireStays
  <2>3. \A r \in Stream : LineOK(r)'
    <3> SUFFICES ASSUME NEW r \in Stream PROVE LineOK(r)'
      OBVIOUS
    <3>1. pc[r] \in {"drained", "done"} => chan[r] = "closed" /\ buf[r] = <<>>
      BY <1>a DEF LineOK
    <3> QED BY <1>a, <2>1, <2>2, <3>1, CloseLockedLine, LineStays
  <2> QED BY <2>2, <2>3 DEF LineInv
<1> QED BY <1>1, <1>3, <1>4, <1>5, <1>6, <1>7, <1>8, <1>9, <1>10, <1>11
        DEF HandlerStep, CancelStep

\* One event of s leaves the wire, for its channel or for pending.
LEMMA LineMoves ==
    ASSUME NEW s \in Stream, NEW n, LineOK(s),
           got'[s] = got[s], chan'[s] = chan[s], pc'[s] = pc[s], sent'[s] = sent[s],
           Ahead(s)' \subseteq Ahead(s),
           \A m \in Line(s)' : m \in Line(s) \/ m = n,
           n \in Line(s)' => n <= Len(sent[s]) /\ \A m \in Ahead(s)' : n < m,
           Ordered(buf'[s]),
           \A m \in Els(got[s]), k \in Els(buf'[s]) : k = 0 \/ m < k,
           buf'[s] = buf[s] \/ chan[s] = "open",
           PendingOK(s) => PendingOK(s)'
    PROVE  LineOK(s)'
<1>1. \A m \in Line(s)' : m <= Len(sent'[s]) /\ \A k \in Ahead(s)' : m < k
  BY DEF LineOK
<1>2. \A m \in Els(got'[s]), k \in Els(buf'[s]) : k = 0 \/ m < k
  OBVIOUS
<1>3. chan'[s] = "none" <=> pc'[s] \in Before
  BY DEF LineOK
<1>4. chan'[s] = "none" => got'[s] = <<>> /\ buf'[s] = <<>> /\ PendingOK(s)'
  BY DEF LineOK
<1>5. pc'[s] \in {"drained", "done"} => chan'[s] = "closed" /\ buf'[s] = <<>>
  BY DEF LineOK
<1> QED BY <1>1, <1>2, <1>3, <1>4, <1>5 DEF LineOK

\* The steps of a reader.
LEMMA ReaderLine ==
    ASSUME TypeOK, ChannelInv, LineInv, NEW g \in Gen, ReaderStep(g)
    PROVE  LineInv'
<1> USE DEF pluginVars, mapVars, callVars, faultVars, readVars
<1> DEFINE h == Head(wire[g])
<1>0. /\ pc \in [Stream -> {"idle", "calling", "answered", "stuck", "reading",
                            "drained", "done", "failed"}]
      /\ buf \in [Stream -> Seq(Nat)] /\ pending \in [Stream -> Seq(Nat)]
  BY DEF TypeOK
<1>a. WireInv /\ \A r \in Stream : LineOK(r)
  BY DEF LineInv
<1>1. CASE ReadReply(g)
  <2>1. WireInv' /\ \A r \in Stream : Ahead(r)' = Ahead(r)
    BY <1>1, <1>a, ReaderPasses
  <2>2. UNCHANGED <<got, buf, sent, pending, chan>>
    BY <1>1 DEF ReadReply
  <2>3. \A r \in Stream : pc'[r] = pc[r] \/ (pc[r] = "calling" /\ pc'[r] = "answered")
    <3>1. h.id \in Stream
      BY <1>1, HeadMessage DEF ReadReply
    <3> QED BY <1>0, <1>1, <3>1 DEF ReadReply
  <2>4. \A r \in Stream : LineOK(r)'
    <3> SUFFICES ASSUME NEW r \in Stream PROVE LineOK(r)'
      OBVIOUS
    <3>1. CASE pc'[r] = pc[r]
      BY <1>a, <2>1, <2>2, <3>1, Elsewhere
    <3>2. CASE pc[r] = "calling" /\ pc'[r] = "answered"
      BY <1>a, <2>1, <2>2, <3>2, LineStays DEF Before
    <3> QED BY <2>3, <3>1, <3>2
  <2> QED BY <2>1, <2>4 DEF LineInv
<1>2. CASE LookupHit(g) \/ ReadEOF(g)
  <2>1. WireInv' /\ \A r \in Stream : Ahead(r)' = Ahead(r)
    BY <1>2, <1>a, ReaderPasses
  <2>2. UNCHANGED <<got, buf, sent, pending, chan, pc>>
    BY <1>2 DEF LookupHit, ReadEOF
  <2> QED BY <1>a, <2>1, <2>2, Elsewhere DEF LineInv
<1>3. CASE CloseTerminal(g)
  <2>1. WireInv' /\ \A r \in Stream : Ahead(r)' = Ahead(r)
    BY <1>3, <1>a, ReaderPasses
  <2>2. h.id \in Stream /\ CloseLocked(h.id) /\ UNCHANGED <<got, buf, sent, pc>>
    BY <1>3, HeadMessage DEF CloseTerminal, TypeOK
  <2>3. \A r \in Stream : LineOK(r)'
    <3> SUFFICES ASSUME NEW r \in Stream PROVE LineOK(r)'
      OBVIOUS
    <3>1. pc[r] \in {"drained", "done"} => chan[r] = "closed" /\ buf[r] = <<>>
      BY <1>a DEF LineOK
    <3>2. /\ pending'[r] \in {pending[r], <<>>}
          /\ chan'[r] = chan[r] \/ (chan[r] # "none" /\ chan'[r] = "closed")
      BY <2>2, CloseLockedLine
    <3> QED BY <1>a, <2>1, <2>2, <3>1, <3>2, LineStays
  <2> QED BY <2>1, <2>3 DEF LineInv
<1>4. CASE LookupMiss(g) \/ SendEvent(g)
  <2> DEFINE s == h.id
  <2> DEFINE n == h.n
  <2>1. /\ WireInv' /\ s \in Stream /\ n \in Ahead(s) /\ \A m \in Ahead(s) : n <= m
        /\ \A r \in Stream : Ahead(r)' = Ahead(r) \ (IF s = r THEN {n} ELSE {})
    BY <1>4, <1>a, ReaderGives
  <2>2. wire[g] # <<>> /\ UNCHANGED <<got, sent, chan, pc>>
    BY <1>4 DEF LookupMiss, SendEvent, TypeOK
  <2>3. n <= Len(sent[s]) /\ n \in Nat \ {0}
    <3>1. h \in Els(wire[g])
      BY <1>a, <2>2, TailNums
    <3> QED BY <1>a, <2>1, <3>1, LineTypes DEF WireInv
  <2>4. \/ pending' = [pending EXCEPT ![s] = Append(@, n)] /\ buf' = buf
        \/ pending' = pending /\ buf' = buf
        \/ pending' = pending /\ chan[s] = "open" /\ buf' = [buf EXCEPT ![s] = Append(@, n)]
    BY <1>4 DEF LookupMiss, SendEvent, BlockingSend
  <2> HIDE DEF s, n
  <2>5. ASSUME NEW r \in Stream, r # s PROVE LineOK(r)'
    <3>1. Ahead(r)' = Ahead(r)
      BY <2>1, <2>5
    <3>2. pending'[r] = pending[r] /\ buf'[r] = buf[r]
      BY <1>0, <2>4, <2>5
    <3> QED BY <1>a, <2>2, <3>1, <3>2, Elsewhere
  <2>6. s \in Stream /\ Ahead(s) \subseteq Nat
    BY <2>1, LineTypes
  <2>7. /\ \A m \in Line(s) : m < n
        /\ \A m \in Ahead(s) \ {n} : n < m
    BY <1>a, <2>1, <2>3, <2>6 DEF LineOK
  <2>8. \A q : q = s => Ahead(q)' = Ahead(s) \ {n}
    BY <2>1, <2>6
  <2>9. PICK x \in Stream, k \in Nat \ {0} : x = s /\ k = n
    BY <2>3, <2>6
  <2>10. /\ LineOK(x) /\ Ahead(x)' = Ahead(x) \ {k} /\ got'[x] = got[x] /\ sent'[x] = sent[x]
         /\ chan'[x] = chan[x] /\ pc'[x] = pc[x] /\ k <= Len(sent[x])
         /\ (\A m \in Line(x) : m < k) /\ (\A m \in Ahead(x) \ {k} : k < m)
         /\ k \in Ahead(x)
    BY <1>a, <2>1, <2>2, <2>3, <2>7, <2>8, <2>9
  <2>11. got[x] \in Seq(Nat) /\ buf[x] \in Seq(Nat) /\ pending[x] \in Seq(Nat)
    BY LineTypes
  <2>12. ASSUME pending' = [pending EXCEPT ![s] = Append(@, n)] /\ buf' = buf
         PROVE  LineOK(x)'
    <3>1. pending'[x] = Append(pending[x], k) /\ buf'[x] = buf[x]
      BY <1>0, <2>9, <2>12
    <3>2. PendingOK(x) => PendingOK(x)'
      <4> SUFFICES ASSUME PendingOK(x) PROVE PendingOK(x)'
        OBVIOUS
      <4>1. \A m \in Els(pending[x]) : m < k
        BY <2>10 DEF PendingOK
      <4>2. Els(pending'[x]) = Els(pending[x]) \cup {k} /\ Ordered(pending'[x])
        BY <2>3, <2>11, <3>1, <4>1, ElsAppend DEF PendingOK
      <4> QED BY <2>3, <2>10, <4>2 DEF PendingOK
    <3>3. Line(x)' = Line(x)
      BY <2>10, <3>1 DEF Line
    <3>4. Ordered(buf'[x]) /\ \A m \in Els(got[x]), j \in Els(buf'[x]) : j = 0 \/ m < j
      BY <2>10, <3>1 DEF LineOK
    <3>5. k \in Line(x)' => k <= Len(sent[x]) /\ \A m \in Ahead(x)' : k < m
      BY <2>10
    <3>6. /\ Ahead(x)' \subseteq Ahead(x) /\ \A m \in Line(x)' : m \in Line(x) \/ m = k
          /\ buf'[x] = buf[x] \/ chan[x] = "open"
      BY <2>10, <3>1, <3>3
    <3> QED BY <2>10, <3>2, <3>4, <3>5, <3>6, LineMoves, Zenon
  <2>13. ASSUME pending' = pending /\ buf' = buf
         PROVE  LineOK(x)'
    <3>1. PendingOK(x) => PendingOK(x)'
      BY <2>10, <2>13 DEF PendingOK
    <3>2. Line(x)' = Line(x)
      BY <2>10, <2>13 DEF Line
    <3>3. Ordered(buf'[x]) /\ \A m \in Els(got[x]), j \in Els(buf'[x]) : j = 0 \/ m < j
      BY <2>10, <2>13 DEF LineOK
    <3>4. k \in Line(x)' => k <= Len(sent[x]) /\ \A m \in Ahead(x)' : k < m
      BY <2>10
    <3>5. /\ Ahead(x)' \subseteq Ahead(x) /\ \A m \in Line(x)' : m \in Line(x) \/ m = k
          /\ buf'[x] = buf[x] \/ chan[x] = "open"
      BY <2>10, <2>13, <3>2
    <3> QED BY <2>10, <3>1, <3>3, <3>4, <3>5, LineMoves, Zenon
  <2>14. ASSUME pending' = pending /\ chan[s] = "open" /\ buf' = [buf EXCEPT ![s] = Append(@, n)]
         PROVE  LineOK(x)'
    <3>1. buf'[x] = Append(buf[x], k) /\ chan[x] = "open"
      BY <1>0, <2>9, <2>14
    <3>2. \A m \in Els(got[x]) \cup Els(buf[x]) : m < k
      BY <2>10 DEF Line
    <3>3. Els(buf'[x]) = Els(buf[x]) \cup {k} /\ Ordered(buf'[x])
      BY <2>3, <2>10, <2>11, <3>1, <3>2, ElsAppend DEF LineOK
    <3>4. Line(x)' = Line(x) \cup {k}
      BY <2>10, <3>3 DEF Line
    <3>5. \A m \in Els(got[x]), j \in Els(buf'[x]) : j = 0 \/ m < j
      BY <2>10, <3>2, <3>3 DEF LineOK
    <3>6. PendingOK(x) => PendingOK(x)'
      BY <2>10, <2>14 DEF PendingOK
    <3>7. k \in Line(x)' => k <= Len(sent[x]) /\ \A m \in Ahead(x)' : k < m
      BY <2>10
    <3>8. /\ Ahead(x)' \subseteq Ahead(x) /\ \A m \in Line(x)' : m \in Line(x) \/ m = k
          /\ buf'[x] = buf[x] \/ chan[x] = "open"
          /\ Ordered(buf'[x])
      BY <2>10, <3>1, <3>3, <3>4
    <3> QED BY <2>10, <3>5, <3>6, <3>7, <3>8, LineMoves, Zenon
  <2>15. LineOK(x)'
    BY <2>4, <2>12, <2>13, <2>14
  <2>16. \A r \in Stream : LineOK(r)'
    BY <2>5, <2>9, <2>15
  <2> QED BY <2>1, <2>16 DEF LineInv
<1> QED BY <1>1, <1>2, <1>3, <1>4 DEF ReaderStep

\* The steps of the plugin.
LEMMA PluginLine ==
    ASSUME TypeOK, TypeOK', LineInv, NEW s \in Stream, PluginStep(s) \/ \E k \in Kind : Emit(s, k)
    PROVE  LineInv'
<1> USE DEF mapVars, callVars, faultVars, readVars
<1>a. WireInv /\ \A r \in Stream : LineOK(r)
  BY DEF LineInv
<1>0. plug \in [Stream -> {"none", "asked", "opened", "replied", "rejected"}] /\ sent \in [Stream -> Seq(Kind)]
  BY DEF TypeOK
<1>1. CASE Accept(s)
  <2>1. UNCHANGED <<wire, at, conn, sent, pc, got, buf, pending, chan>>
    BY <1>1 DEF Accept
  <2>2. \A r \in Stream : plug'[r] = plug[r] \/ (plug[r] # "none" /\ plug'[r] = "opened")
    BY <1>0, <1>1 DEF Accept
  <2>3. WireInv' /\ \A r \in Stream : Ahead(r)' = Ahead(r)
    BY <1>a, <2>1, <2>2, WireStays
  <2> QED BY <1>a, <2>1, <2>3, Elsewhere DEF LineInv
<1>2. CASE Reject(s) \/ Reply(s)
  <2>1. /\ UNCHANGED <<at, conn, sent, pc, got, buf, pending, chan>>
        /\ wire' = [wire EXCEPT ![conn[s]] = Written(@, [id |-> s, n |-> 0])]
        /\ plug[s] # "none" /\ plug'[s] \notin {"none", "asked"}
        /\ plug'[s] = "rejected" => plug[s] = "asked"
        /\ \A r \in Stream \ {s} : plug'[r] = plug[r]
    BY <1>0, <1>2 DEF Reject, Reply
  <2>2. plug'[s] = "rejected" => sent'[s] = <<>>
    BY <1>a, <2>1 DEF WireInv
  <2>3. /\ \A r \in Stream : Len(sent[r]) <= Len(sent'[r]) /\ sent'[r] \in Seq(Kind) /\ sent'[r] = sent[r]
        /\ 0 \in Nat /\ 0 <= Len(sent'[s])
    BY <1>0, <2>1, LineTypes
  <2>4. /\ WireInv' /\ Ahead(s)' = Ahead(s) \cup ({0} \ {0})
        /\ \A r \in Stream \ {s} : Ahead(r)' = Ahead(r)
    BY <1>a, <2>1, <2>2, <2>3, WireGrows
  <2>5. \A r \in Stream : Ahead(r)' = Ahead(r)
    BY <2>4
  <2> QED BY <1>a, <2>1, <2>4, <2>5, Elsewhere DEF LineInv
<1>3. ASSUME NEW k \in Kind, Emit(s, k) PROVE LineInv'
  <2> DEFINE n == Len(sent[s]) + 1
  <2>1. /\ UNCHANGED <<at, conn, plug, pc, got, buf, pending, chan>>
        /\ wire' = [wire EXCEPT ![conn[s]] = Written(@, [id |-> s, n |-> n])]
        /\ sent' = [sent EXCEPT ![s] = Append(@, k)]
        /\ plug[s] \in {"opened", "replied"}
    BY <1>3 DEF Emit
  <2>2. /\ sent'[s] = Append(sent[s], k) /\ \A r \in Stream \ {s} : sent'[r] = sent[r]
        /\ \A r \in Stream : sent'[r] \in Seq(Kind) /\ Len(sent[r]) \in Nat
    <3>1. sent' \in [Stream -> Seq(Kind)]
      BY DEF TypeOK
    <3>2. \A r \in Stream : Len(sent[r]) \in Nat
      BY LineTypes
    <3> HIDE DEF Kind
    <3> QED BY <1>0, <2>1, <3>1, <3>2
  <2>3. Len(sent'[s]) = n /\ n \in Nat \ {0}
    BY <2>2, AppendProperties
  <2>4. \A r \in Stream : Len(sent[r]) <= Len(sent'[r])
    BY <2>2, <2>3
  <2>5. n = Len(sent[s]) + 1
    OBVIOUS
  <2> HIDE DEF n
  <2>j. PICK t \in Nat \ {0} : t = n
    BY <2>3
  <2>i. /\ wire' = [wire EXCEPT ![conn[s]] = Written(@, [id |-> s, n |-> t])]
        /\ plug[s] # "none" /\ plug'[s] \notin {"none", "asked"}
        /\ plug'[s] = "rejected" => sent'[s] = <<>>
        /\ \A r \in Stream \ {s} : plug'[r] = plug[r] /\ sent'[r] = sent[r]
        /\ t <= Len(sent'[s]) /\ (t # 0 => t = Len(sent[s]) + 1) /\ t \in Nat
        /\ UNCHANGED <<at, conn, pc>>
    BY <2>1, <2>2, <2>3, <2>5, <2>j
  <2>6. /\ WireInv' /\ Ahead(s)' = Ahead(s) \cup ({n} \ {0})
        /\ \A r \in Stream \ {s} : Ahead(r)' = Ahead(r)
    BY <1>a, <2>i, <2>j, <2>2, <2>4, WireGrows
  <2>7. Ahead(s)' = Ahead(s) \cup {n}
    BY <2>3, <2>6
  <2>8. LineOK(s)'
    <3>1. Line(s)' = Line(s)
      BY <2>1 DEF Line
    <3>2. Line(s) \subseteq Nat /\ Els(pending[s]) \subseteq Nat
      BY LineTypes
    <3>3. \A m \in Line(s) : m < n
      BY <1>a, <2>2, <2>5, <3>2 DEF LineOK
    <3>4. \A m \in Line(s) : m <= Len(sent'[s])
      BY <2>2, <2>3, <3>2, <3>3
    <3>5. PendingOK(s) => PendingOK(s)'
      BY <2>1, <2>2, <2>3, <2>5, <2>7, <3>2 DEF PendingOK
    <3>6. \A m \in Line(s), j \in Ahead(s)' : m < j
      BY <1>a, <2>7, <3>3 DEF LineOK
    <3> QED BY <1>a, <2>1, <3>1, <3>4, <3>5, <3>6 DEF LineOK
  <2>9. \A r \in Stream \ {s} : LineOK(r)'
    BY <1>a, <2>1, <2>2, <2>6, Elsewhere
  <2> QED BY <2>6, <2>8, <2>9 DEF LineInv
<1> QED BY <1>1, <1>2, <1>3 DEF PluginStep

\* Crash, watcher, restart and Stop.
LEMMA FaultLine ==
    ASSUME TypeOK, ChannelInv, LineInv,
           (\E a \in Actor : FailStep(a)) \/ Crash \/ StopBegin \/ WatchStep \/ StopStep
    PROVE  LineInv'
<1> USE DEF pluginVars, mapVars, callVars, faultVars, readVars
<1>a. WireInv /\ \A r \in Stream : LineOK(r)
  BY DEF LineInv
<1>0. UNCHANGED <<wire, at, conn, sent, plug, pc, got>>
  BY DEF FailStep, FailSend, FailClose, Crash, StopBegin, WatchStep, WatchExit, WatchSnapshot,
         WatchWake, StartReset, StartConnect, HandshakeOk, StartFail, StopStep, StopSnapshot,
         StopClose, StopKill, Snapshot
<1>1. WireInv' /\ \A r \in Stream : Ahead(r)' = Ahead(r)
  BY <1>0, <1>a, WireStays
<1>2. ASSUME NEW a \in Actor, NEW s \in Stream, FailSend(a, s) PROVE LineInv'
  <2>1. UNCHANGED <<pending, chan>> /\ NonBlockingSend(s, 0) /\ buf \in [Stream -> Seq(Nat)]
    BY <1>2 DEF FailSend, TypeOK
  <2>2. CASE buf' = buf
    BY <1>0, <1>1, <1>a, <2>1, <2>2, Elsewhere DEF LineInv
  <2>3. CASE chan[s] = "open" /\ buf' = [buf EXCEPT ![s] = Append(@, 0)]
    <3>1. buf'[s] = Append(buf[s], 0) /\ \A r \in Stream \ {s} : buf'[r] = buf[r]
      BY <2>1, <2>3
    <3>2. Els(buf'[s]) = Els(buf[s]) \cup {0} /\ Ordered(buf'[s])
      BY <1>a, <2>1, <3>1, ElsAppend DEF LineOK
    <3>3. Line(s)' = Line(s) \cup {0}
      BY <1>0, <3>2 DEF Line
    <3>4. Ahead(s) \subseteq Nat \ {0} /\ Len(sent[s]) \in Nat
      BY LineTypes
    <3>5. pc[s] \notin {"drained", "done"}
      BY <1>a, <2>3 DEF LineOK
    <3>6. \A m \in Line(s)', k \in Ahead(s) : m < k
      BY <1>a, <3>3, <3>4 DEF LineOK
    <3>7. \A m \in Els(got[s]), k \in Els(buf'[s]) : k = 0 \/ m < k
      BY <1>a, <3>2 DEF LineOK
    <3>8. LineOK(s)'
      BY <1>0, <1>1, <1>a, <2>1, <2>3, <3>2, <3>3, <3>4, <3>5, <3>6, <3>7 DEF LineOK
    <3>9. \A r \in Stream \ {s} : LineOK(r)'
      BY <1>0, <1>1, <1>a, <2>1, <3>1, Elsewhere
    <3> QED BY <1>1, <3>8, <3>9 DEF LineInv
  <2> QED BY <2>1, <2>2, <2>3 DEF NonBlockingSend
<1>3. ASSUME buf' = buf, \A r \in Stream : pending'[r] \in {pending[r], <<>>},
             \A r \in Stream : chan'[r] = chan[r] \/ (chan[r] # "none" /\ chan'[r] = "closed")
      PROVE  LineInv'
  <2> SUFFICES ASSUME NEW r \in Stream PROVE LineOK(r)'
    BY <1>1 DEF LineInv
  <2>1. pc[r] \in {"drained", "done"} => chan[r] = "closed" /\ buf[r] = <<>>
    BY <1>a DEF LineOK
  <2> QED BY <1>0, <1>1, <1>3, <1>a, <2>1, LineStays
<1>4. ASSUME NEW a \in Actor, NEW s \in Stream, FailClose(a, s) PROVE LineInv'
  <2>1. chan[s] = "open" /\ chan' = [chan EXCEPT ![s] = "closed"] /\ UNCHANGED <<buf, pending>>
    BY <1>4 DEF FailClose, ChannelInv, CloseOnce
  <2> QED BY <1>3, <2>1 DEF TypeOK
<1>5. CASE WatchSnapshot \/ StopSnapshot \/ StartReset
  BY <1>3, <1>5 DEF WatchSnapshot, StopSnapshot, StartReset, Snapshot
<1>6. CASE Crash \/ StopBegin \/ WatchExit \/ WatchWake \/ StartConnect \/ HandshakeOk
           \/ StartFail \/ StopClose \/ StopKill
  BY <1>3, <1>6 DEF Crash, StopBegin, WatchExit, WatchWake, StartConnect, HandshakeOk,
        StartFail, StopClose, StopKill
<1> QED BY <1>2, <1>4, <1>5, <1>6 DEF FailStep, WatchStep, StopStep

\* Every step keeps the lines in order.
LEMMA NextLineInv == TypeOK /\ TypeOK' /\ ChannelInv /\ LineInv /\ [Next]_vars => LineInv'
<1> SUFFICES ASSUME TypeOK, TypeOK', ChannelInv, LineInv, [Next]_vars PROVE LineInv'
  OBVIOUS
<1>1. CASE UNCHANGED vars
  <2>1. UNCHANGED <<wire, at, conn, sent, plug, pc, got, buf, pending, chan>>
    BY <1>1 DEF vars
  <2>2. WireInv' /\ \A r \in Stream : Ahead(r)' = Ahead(r)
    BY <2>1, WireStays DEF LineInv
  <2> QED BY <2>1, <2>2, Elsewhere DEF LineInv
<1>2. ASSUME NEW g \in 1 .. gen, ReaderStep(g) PROVE LineInv'
  <2>1. g \in Gen BY DEF TypeOK
  <2> QED BY <1>2, <2>1, ReaderLine
<1> QED BY <1>1, <1>2, HandlerLine, PluginLine, FaultLine DEF Next

-----------------------------------------------------------------------------
(* What holds whatever fails.                                              *)

\* Only the process last started may live; it is dead when its watcher does not
\* wait for it; and until Stop its connection is open.
ProcessInv ==
    /\ \A g \in Gen : alive[g] => g = gen
    /\ watch \notin {"wait", "handshake"} => ~alive[gen]
    /\ \A g \in Gen : closed[g] => g <= gen
    /\ stop = "run" => \A g \in Gen : alive[g] => ~closed[g]

\* At first.
LEMMA InitProcessInv == Init => ProcessInv
BY DEF Init, ProcessInv

\* Each step keeps that.
LEMMA NextProcessInv ==
    ASSUME TypeOK, ProcessInv, [Next]_vars
    PROVE  ProcessInv'
<1> USE DEF pluginVars, mapVars, callVars, faultVars, readVars
<1>0. /\ alive \in [Gen -> BOOLEAN] /\ closed \in [Gen -> BOOLEAN] /\ gen \in Gen
  BY DEF TypeOK
<1>1. ASSUME UNCHANGED <<alive, gen, closed, watch, stop>> PROVE ProcessInv'
  BY <1>1 DEF ProcessInv
<1>2. UNCHANGED vars => ProcessInv'
  BY <1>1 DEF vars
<1>3. ASSUME NEW s \in Stream,
             \/ CallStream(s) \/ Disconnect(s) \/ HandlerStep(s) \/ CancelStep(s)
             \/ PluginStep(s) \/ \E k \in Kind : Emit(s, k)
      PROVE  ProcessInv'
  BY <1>1, <1>3 DEF CallStream, Disconnect, HandlerStep, CallFail, RejectedReturn, OpenStream, DrainBlocks,
        Consume, RangeEnd, HandlerReturn, CancelStep, CancelCall, CancelClose, PluginStep, Accept, Reject,
        Reply, Emit
<1>4. ASSUME NEW g \in 1 .. gen, ReaderStep(g) PROVE ProcessInv'
  <2>1. CASE ReadEOF(g)
    <3>1. /\ closed' = [closed EXCEPT ![g] = TRUE] /\ UNCHANGED <<alive, gen, watch, stop>>
          /\ g \in Gen /\ g <= gen /\ (closed[g] \/ ~alive[g])
      BY <1>0, <2>1 DEF ReadEOF
    <3> QED BY <1>0, <3>1 DEF ProcessInv
  <2>2. CASE ~ReadEOF(g)
    BY <1>1, <1>4, <2>2 DEF ReaderStep, ReadReply, LookupMiss, LookupHit, SendEvent, CloseTerminal
  <2> QED BY <2>1, <2>2
<1>5. ASSUME NEW a \in Actor, FailStep(a) PROVE ProcessInv'
  BY <1>1, <1>5 DEF FailStep, FailSend, FailClose
<1>6. CASE Crash
  BY <1>0, <1>6 DEF Crash, ProcessInv
<1>7. CASE StopBegin
  BY <1>7 DEF StopBegin, ProcessInv
<1>8. CASE WatchExit \/ WatchSnapshot \/ WatchWake \/ StartReset
  <2>1. UNCHANGED <<alive, gen, closed, stop>> /\ (watch \notin {"wait", "handshake"} \/ ~alive[gen])
    BY <1>8 DEF WatchExit, WatchSnapshot, Snapshot, WatchWake, StartReset
  <2> QED BY <2>1 DEF ProcessInv
<1>9. CASE StartConnect
  <2>1. /\ gen' = gen + 1 /\ alive' = [alive EXCEPT ![gen + 1] = TRUE] /\ watch' = "handshake"
        /\ UNCHANGED <<closed, stop>> /\ ~alive[gen] /\ gen + 1 \in Gen
    BY <1>0, <1>9 DEF StartConnect, ProcessInv
  <2>2. \A g \in Gen : alive'[g] <=> g = gen + 1
    BY <1>0, <2>1 DEF ProcessInv
  <2>3. \A g \in Gen : closed[g] => g <= gen /\ g <= gen + 1 /\ g # gen + 1
    BY <1>0 DEF ProcessInv
  <2> QED BY <2>1, <2>2, <2>3 DEF ProcessInv
<1>10. CASE HandshakeOk
  BY <1>10 DEF HandshakeOk, ProcessInv
<1>11. CASE StartFail
  <2>1. UNCHANGED <<gen, closed, stop>>
    BY <1>11 DEF StartFail
  <2>2. ~alive'[gen] /\ \A g \in Gen : alive'[g] => alive[g]
    BY <1>0, <1>11 DEF StartFail, ProcessInv
  <2> QED BY <2>1, <2>2 DEF ProcessInv
<1>12. CASE StopSnapshot
  BY <1>12 DEF StopSnapshot, Snapshot, ProcessInv
<1>13. CASE StopClose
  <2>1. \A g \in Gen : closed'[g] => closed[g] \/ g <= gen
    BY <1>0, <1>13 DEF StopClose
  <2> QED BY <1>13, <2>1 DEF StopClose, ProcessInv
<1>14. CASE StopKill
  BY <1>0, <1>14 DEF StopKill, ProcessInv
<1> QED BY <1>2, <1>3, <1>4, <1>5, <1>6, <1>7, <1>8, <1>9, <1>10, <1>11, <1>12, <1>13, <1>14
        DEF Next, WatchStep, StopStep

\* A stream whose cancel function runs or whose terminal event is being handled
\* was opened, and no stream has events both in its channel's hands and in
\* pending.
OpenedInv ==
    /\ \A s \in Stream : AtClose(s) \/ cx[s] # "none" => chan[s] # "none"
    /\ \A s \in streams : pending[s] = <<>>

\* At first.
LEMMA InitOpenedInv == Init => OpenedInv
BY DEF Init, OpenedInv, AtClose

\* closeStreamLocked touches no other stream.
LEMMA CloseLockedKeeps ==
    ASSUME TypeOK, ChannelInv, NEW s \in Stream, CloseLocked(s)
    PROVE  /\ streams' \subseteq streams
           /\ \A r \in Stream : pending'[r] \in {pending[r], <<>>}
           /\ \A r \in Stream : chan'[r] = chan[r] \/ (chan[r] = "open" /\ chan'[r] = "closed" /\ r = s)
           /\ \A r \in Stream \ {s} : pending'[r] = pending[r]
<1>1. chan' = chan \/ (s \in streams /\ chan' = [chan EXCEPT ![s] = "closed"])
  BY DEF CloseLocked
<1>2. s \in streams => chan[s] = "open"
  BY DEF ChannelInv, CloseOnce
<1>3. pending' = [pending EXCEPT ![s] = <<>>] /\ streams' = streams \ {s}
  BY DEF CloseLocked, WithoutPending
<1>4. \A r \in Stream : chan'[r] = chan[r] \/ (chan[r] = "open" /\ chan'[r] = "closed" /\ r = s)
  BY <1>1, <1>2 DEF TypeOK
<1>5. /\ \A r \in Stream : pending'[r] \in {pending[r], <<>>}
      /\ \A r \in Stream \ {s} : pending'[r] = pending[r]
  BY <1>3 DEF TypeOK
<1> QED BY <1>3, <1>4, <1>5

\* What the plugin writes goes behind what the reader has in hand.
LEMMA WriteClose ==
    ASSUME TypeOK, NEW s \in Stream, NEW n \in Nat, UNCHANGED <<conn, at>>,
           wire' = [wire EXCEPT ![conn[s]] = Written(@, [id |-> s, n |-> n])]
    PROVE  \A r \in Stream : AtClose(r)' => AtClose(r)
<1> DEFINE m == [id |-> s, n |-> n]
<1>1. m \in Message /\ conn \in [Stream -> Gen] /\ wire \in [Gen -> Seq(Message)]
  BY DEF TypeOK, Message
<1> HIDE DEF m
<1>2. \A g \in Gen : wire'[g] = wire[g] \/ wire'[g] = Append(wire[g], m)
  BY <1>1 DEF Written, m
<1> SUFFICES ASSUME NEW r \in Stream, AtClose(r)' PROVE AtClose(r)
  OBVIOUS
<1>3. conn[r] \in Gen /\ at[conn[r]] = "close" /\ Head(wire'[conn[r]]).id = r
  BY <1>1 DEF AtClose
<1>4. wire[conn[r]] # <<>> /\ wire[conn[r]] \in Seq(Message)
  BY <1>1, <1>3 DEF TypeOK
<1>5. Head(wire'[conn[r]]) = Head(wire[conn[r]])
  <2>1. Head(Append(wire[conn[r]], m)) = Head(wire[conn[r]])
    BY <1>1, <1>4, NumsAppend, Zenon
  <2> QED BY <1>2, <1>3, <2>1
<1> QED BY <1>3, <1>5 DEF AtClose

\* Each step keeps that.
LEMMA NextOpenedInv ==
    ASSUME TypeOK, ChannelInv, LineInv, OpenedInv, [Next]_vars
    PROVE  OpenedInv'
<1> USE DEF pluginVars, mapVars, callVars, faultVars, readVars
<1>a. WireInv /\ \A r \in Stream : LineOK(r)
  BY DEF LineInv
<1>0. /\ chan \in [Stream -> {"none", "open", "closed"}] /\ pending \in [Stream -> Seq(Nat)]
      /\ cx \in [Stream -> {"none", "calling", "done"}] /\ conn \in [Stream -> Gen]
      /\ at \in [Gen -> {"read", "send", "close", "eof"}] /\ wire \in [Gen -> Seq(Message)]
  BY DEF TypeOK
<1>1. ASSUME \A r \in Stream : AtClose(r)' => AtClose(r) \/ chan[r] # "none",
             \A r \in Stream : cx'[r] # "none" => cx[r] # "none" \/ chan[r] # "none",
             \A r \in Stream : chan[r] # "none" => chan'[r] # "none",
             \A r \in streams' : pending'[r] = <<>> \/ (r \in streams /\ pending'[r] = pending[r])
      PROVE  OpenedInv'
  BY <1>1 DEF OpenedInv
<1>2. ASSUME UNCHANGED <<conn, at, wire>>
      PROVE  \A r \in Stream : AtClose(r)' => AtClose(r)
  BY <1>2 DEF AtClose
<1>3. CASE UNCHANGED vars
  BY <1>1, <1>2, <1>3 DEF vars
<1>4. ASSUME NEW s \in Stream, CallStream(s) PROVE OpenedInv'
  <2>1. \A r \in Stream : AtClose(r)' => AtClose(r)
    BY <1>a, <1>4, CallWireInv
  <2> QED BY <1>1, <1>4, <2>1 DEF CallStream
<1>5. ASSUME NEW s \in Stream,
             Disconnect(s) \/ CallFail(s) \/ RejectedReturn(s) \/ DrainBlocks(s) \/ Consume(s)
             \/ RangeEnd(s) \/ HandlerReturn(s)
      PROVE  OpenedInv'
  BY <1>1, <1>2, <1>5 DEF Disconnect, CallFail, RejectedReturn, DrainBlocks, Consume, RangeEnd, HandlerReturn
<1>6. ASSUME NEW s \in Stream, OpenStream(s) PROVE OpenedInv'
  <2>1. /\ UNCHANGED <<conn, at, wire, cx>>
        /\ chan'[s] # "none" /\ \A r \in Stream \ {s} : chan'[r] = chan[r]
        /\ streams' \subseteq streams \cup {s}
        /\ pending'[s] = <<>> /\ \A r \in Stream \ {s} : pending'[r] = pending[r]
    BY <1>0, <1>6 DEF OpenStream, WithoutPending
  <2>2. \A r \in streams' : pending'[r] = <<>> \/ (r \in streams /\ pending'[r] = pending[r])
    BY <2>1 DEF TypeOK
  <2> QED BY <1>1, <1>2, <2>1, <2>2
<1>7. ASSUME NEW s \in Stream, CancelCall(s) PROVE OpenedInv'
  <2>1. chan[s] # "none"
    BY <1>7, <1>a DEF CancelCall, LineOK, Before
  <2>2. \A r \in Stream \ {s} : cx'[r] = cx[r]
    BY <1>0, <1>7 DEF CancelCall
  <2> QED BY <1>1, <1>2, <1>7, <2>1, <2>2 DEF CancelCall
<1>8. ASSUME NEW s \in Stream, CancelClose(s) PROVE OpenedInv'
  <2>1. CloseLocked(s) /\ cx[s] # "none" /\ cx' = [cx EXCEPT ![s] = "done"] /\ UNCHANGED <<conn, at, wire>>
    BY <1>8 DEF CancelClose
  <2>2. \A r \in Stream : cx'[r] # "none" => cx[r] # "none"
    BY <1>0, <2>1
  <2> QED BY <1>1, <1>2, <2>1, <2>2, CloseLockedKeeps DEF TypeOK
<1>9. ASSUME NEW s \in Stream, PluginStep(s) \/ \E k \in Kind : Emit(s, k) PROVE OpenedInv'
  <2>1. UNCHANGED <<conn, at, cx, chan, streams, pending>>
    BY <1>9 DEF PluginStep, Accept, Reject, Reply, Emit
  <2>2. \A r \in Stream : AtClose(r)' => AtClose(r)
    <3>1. CASE Accept(s)
      BY <1>2, <3>1 DEF Accept
    <3>2. CASE Reject(s) \/ Reply(s)
      <4>1. wire' = [wire EXCEPT ![conn[s]] = Written(@, [id |-> s, n |-> 0])] /\ 0 \in Nat
        BY <3>2 DEF Reject, Reply
      <4> QED BY <2>1, <4>1, WriteClose
    <3>3. CASE \E k \in Kind : Emit(s, k)
      <4>1. wire' = [wire EXCEPT ![conn[s]] = Written(@, [id |-> s, n |-> Len(sent[s]) + 1])]
        BY <3>3 DEF Emit
      <4>2. Len(sent[s]) + 1 \in Nat
        BY LineTypes
      <4> QED BY <2>1, <4>1, <4>2, WriteClose
    <3> QED BY <1>9, <3>1, <3>2, <3>3 DEF PluginStep
  <2> QED BY <1>1, <2>1, <2>2
<1>10. ASSUME NEW g \in 1 .. gen, ReaderStep(g) PROVE OpenedInv'
  <2>0. g \in Gen
    BY DEF TypeOK
  <2>1. CASE ReadReply(g) \/ LookupHit(g) \/ ReadEOF(g)
    <3>1. UNCHANGED <<conn, cx, chan, streams, pending>>
      BY <2>1 DEF ReadReply, LookupHit, ReadEOF
    <3>2. \A k \in Gen : at'[k] = "close" => at[k] = "close" /\ wire'[k] = wire[k]
      BY <1>0, <2>0, <2>1 DEF ReadReply, LookupHit, ReadEOF
    <3>3. \A r \in Stream : AtClose(r)' => AtClose(r)
      BY <1>0, <3>1, <3>2 DEF AtClose
    <3> QED BY <1>1, <3>1, <3>3
  <2>2. CASE CloseTerminal(g)
    <3>1. /\ Head(wire[g]).id \in Stream /\ CloseLocked(Head(wire[g]).id) /\ UNCHANGED <<conn, cx>>
      BY <2>0, <2>2, HeadMessage DEF CloseTerminal, TypeOK
    <3>2. \A k \in Gen : at'[k] = "close" => at[k] = "close" /\ wire'[k] = wire[k]
      BY <1>0, <2>0, <2>2 DEF CloseTerminal
    <3>3. \A r \in Stream : AtClose(r)' => AtClose(r)
      BY <1>0, <3>1, <3>2 DEF AtClose
    <3> QED BY <1>1, <3>1, <3>3, CloseLockedKeeps DEF TypeOK
  <2>3. CASE LookupMiss(g)
    <3>1. /\ UNCHANGED <<conn, cx, chan, streams, at>> /\ at[g] # "close"
          /\ \A k \in Gen \ {g} : wire'[k] = wire[k]
          /\ \A r \in streams : pending'[r] = pending[r]
      BY <1>0, <2>0, <2>3 DEF LookupMiss, TypeOK
    <3>2. \A r \in Stream : AtClose(r)' => AtClose(r)
      BY <1>0, <3>1 DEF AtClose
    <3> QED BY <1>1, <3>1, <3>2
  <2>4. CASE SendEvent(g)
    <3>1. /\ UNCHANGED <<conn, cx, chan, streams, pending>>
          /\ chan[Head(wire[g]).id] # "none"
          /\ \A k \in Gen \ {g} : wire'[k] = wire[k] /\ at'[k] = at[k]
          /\ at'[g] = "close" => wire'[g] = wire[g]
      <4>1. CASE IsTerminal(Head(wire[g]).id, Head(wire[g]).n)
        BY <1>0, <2>0, <2>4, <4>1 DEF SendEvent, BlockingSend
      <4>2. CASE ~IsTerminal(Head(wire[g]).id, Head(wire[g]).n)
        BY <1>0, <2>0, <2>4, <4>2 DEF SendEvent, BlockingSend
      <4> QED BY <4>1, <4>2
    <3>2. \A r \in Stream : AtClose(r)' => AtClose(r) \/ chan[r] # "none"
      BY <1>0, <3>1 DEF AtClose
    <3> QED BY <1>1, <3>1, <3>2
  <2> QED BY <1>10, <2>1, <2>2, <2>3, <2>4 DEF ReaderStep
<1>11. ASSUME NEW a \in Actor, FailStep(a) PROVE OpenedInv'
  <2>1. UNCHANGED <<conn, at, wire, cx, streams, pending>> /\ \A r \in Stream : chan[r] # "none" => chan'[r] # "none"
    BY <1>0, <1>11 DEF FailStep, FailSend, FailClose
  <2> QED BY <1>1, <1>2, <2>1
<1>12. CASE Crash \/ StopBegin \/ WatchStep \/ StopStep
  <2>1. /\ UNCHANGED <<conn, at, wire, cx, chan>>
        /\ streams' = {} \/ UNCHANGED <<streams, pending>>
    BY <1>12 DEF Crash, StopBegin, WatchStep, WatchExit, WatchSnapshot,
         WatchWake, StartReset, StartConnect, HandshakeOk, StartFail, StopStep, StopSnapshot,
         StopClose, StopKill, Snapshot
  <2> QED BY <1>1, <1>2, <2>1
<1> QED BY <1>3, <1>4, <1>5, <1>6, <1>7, <1>8, <1>9, <1>10, <1>11, <1>12 DEF Next, HandlerStep, CancelStep

-----------------------------------------------------------------------------
(* Where no fault strikes, nothing is lost.                                *)

\* A stream that no fault has touched: not called yet, or its process lives and
\* the instance is not being stopped.
Untouched(s) == pc[s] = "idle" \/ Spared(s)

\* Of the events of a stream, all that are not ahead are in pending or, once the
\* stream is open, on its line; what comes too late for the line stays behind it
\* in pending; only a terminal event or the client's leaving ends a stream; its
\* handler has the first events, each at its place, and goes without a stream
\* only if the plugin refused it or the client left.
WholeOK(s) ==
    /\ chan[s] = "none" => Els(pending[s]) \cup Ahead(s) = 1 .. Len(sent[s])
    /\ chan[s] = "open" => Line(s) \cup Ahead(s) = 1 .. Len(sent[s])
    /\ \A n \in Line(s) : n >= 1 /\ 1 .. n \subseteq Line(s)
    /\ chan[s] = "closed" \/ cx[s] # "none" \/ AtClose(s)
          => gone[s] \/ \E n \in Line(s) : IsTerminal(s, n)
    /\ chan[s] # "none" =>
          \A m \in Els(pending[s]) : m <= Len(sent[s]) /\ \A n \in Line(s) : n < m
    /\ \A i \in DOMAIN got[s] : got[s][i] = i
    /\ pc[s] = "failed" => gone[s] \/ plug[s] = "rejected"

\* So it is for every stream that no fault has touched.
WholeInv == \A s \in Stream : Untouched(s) => WholeOK(s)

\* At first.
LEMMA InitWholeOK == ASSUME Init, NEW s \in Stream PROVE WholeOK(s)
<1>1. /\ got[s] = <<>> /\ buf[s] = <<>> /\ pending[s] = <<>> /\ sent[s] = <<>>
      /\ chan[s] = "none" /\ cx[s] = "none" /\ pc[s] = "idle" /\ ~AtClose(s)
  BY DEF Init, AtClose
<1>2. Line(s) = {} /\ Els(pending[s]) = {} /\ Ahead(s) = {} /\ 1 .. Len(sent[s]) = {}
  BY <1>1, ElsEmpty, InitWireInv DEF Line
<1> QED BY <1>1, <1>2 DEF WholeOK

\* The step gives s no stream only if its client left or the plugin refused it.
FailsDuly(s) == pc'[s] = "failed" => gone[s] \/ plug'[s] = "rejected"

\* Once touched by a fault, a stream stays so; and a handler that goes without a
\* stream has its reason.
LEMMA TouchedStays ==
    ASSUME TypeOK, ChannelInv, ProcessInv, [Next]_vars, NEW s \in Stream, Untouched(s)'
    PROVE  Untouched(s) /\ (WholeOK(s) => FailsDuly(s))
<1> USE DEF pluginVars, mapVars, callVars, faultVars, readVars
<1>0. /\ alive \in [Gen -> BOOLEAN] /\ conn \in [Stream -> Gen] /\ gen \in Gen /\ conn[s] <= gen
      /\ plug \in [Stream -> {"none", "asked", "opened", "replied", "rejected"}]
      /\ pc \in [Stream -> {"idle", "calling", "answered", "stuck", "reading",
                            "drained", "done", "failed"}]
  BY DEF TypeOK, ChannelInv
<1>1. ASSUME pc[s] = "idle" \/ pc'[s] # "idle",
             conn'[s] = conn[s], alive'[conn[s]] => alive[conn[s]], stop' = "run" => stop = "run",
             pc'[s] = "failed" => \/ pc[s] = "failed" /\ (plug[s] = "rejected" => plug'[s] = "rejected")
                                  \/ gone[s] \/ plug'[s] = "rejected" \/ closed[conn[s]]
      PROVE  Untouched(s) /\ (WholeOK(s) => FailsDuly(s))
  <2>1. Untouched(s)
    BY <1>1 DEF Untouched, Spared
  <2>2. pc'[s] = "failed" => stop = "run" /\ alive[conn[s]]
    BY <1>1 DEF Untouched, Spared
  <2>3. pc'[s] = "failed" => ~closed[conn[s]]
    BY <1>0, <2>2 DEF ProcessInv
  <2> QED BY <1>1, <2>1, <2>3 DEF WholeOK, FailsDuly
<1>2. CASE UNCHANGED vars
  BY <1>1, <1>2 DEF vars
<1>3. ASSUME NEW r \in Stream, CallStream(r) PROVE Untouched(s) /\ (WholeOK(s) => FailsDuly(s))
  <2>1. CASE r = s
    <3>1. pc[s] = "idle" /\ conn'[s] = gen /\ UNCHANGED <<alive, stop>>
      BY <1>0, <1>3, <2>1 DEF CallStream
    <3>2. ASSUME pc'[s] = "failed" PROVE FALSE
      <4>1. closed[gen]
        BY <1>0, <1>3, <2>1, <3>2 DEF CallStream
      <4>2. stop = "run" /\ alive[gen]
        BY <3>1, <3>2 DEF Untouched, Spared
      <4> QED BY <1>0, <4>1, <4>2 DEF ProcessInv
    <3> QED BY <3>1, <3>2 DEF Untouched, FailsDuly
  <2>2. CASE r # s
    <3>1. conn'[s] = conn[s] /\ pc'[s] = pc[s] /\ plug'[s] = plug[s] /\ UNCHANGED <<alive, stop>>
      BY <1>0, <1>3, <2>2 DEF CallStream
    <3> QED BY <1>1, <3>1
  <2> QED BY <2>1, <2>2
<1>4. ASSUME NEW r \in Stream, Disconnect(r) \/ HandlerStep(r) \/ CancelStep(r)
      PROVE  Untouched(s) /\ (WholeOK(s) => FailsDuly(s))
  <2>1. UNCHANGED <<conn, alive, stop, plug>>
    BY <1>4 DEF Disconnect, HandlerStep, CallFail, RejectedReturn, OpenStream, DrainBlocks,
        Consume, RangeEnd, HandlerReturn, CancelStep, CancelCall, CancelClose
  <2>2. /\ pc[s] = "idle" \/ pc'[s] # "idle"
        /\ pc'[s] = "failed" => pc[s] = "failed" \/ gone[s] \/ plug[s] = "rejected" \/ closed[conn[s]]
    <3>1. CASE Disconnect(r) \/ CancelStep(r) \/ Consume(r)
      BY <3>1 DEF Disconnect, CancelStep, CancelCall, CancelClose, Consume
    <3>2. CASE CallFail(r) \/ RejectedReturn(r)
      BY <1>0, <3>2 DEF CallFail, RejectedReturn
    <3>3. CASE OpenStream(r) \/ DrainBlocks(r) \/ RangeEnd(r) \/ HandlerReturn(r)
      BY <1>0, <3>3 DEF OpenStream, DrainBlocks, RangeEnd, HandlerReturn
    <3> QED BY <1>4, <3>1, <3>2, <3>3 DEF HandlerStep
  <2> QED BY <1>1, <2>1, <2>2
<1>5. ASSUME NEW r \in Stream, PluginStep(r) \/ \E k \in Kind : Emit(r, k)
      PROVE  Untouched(s) /\ (WholeOK(s) => FailsDuly(s))
  <2>1. UNCHANGED <<conn, alive, stop, pc>> /\ (plug[s] = "rejected" => plug'[s] = "rejected")
    BY <1>0, <1>5 DEF PluginStep, Accept, Reject, Reply, Emit
  <2> QED BY <1>1, <2>1
<1>6. ASSUME NEW g \in 1 .. gen, ReaderStep(g) PROVE Untouched(s) /\ (WholeOK(s) => FailsDuly(s))
  <2>1. UNCHANGED <<conn, alive, stop, plug>>
    BY <1>6 DEF ReaderStep, ReadReply, LookupMiss, LookupHit, SendEvent, CloseTerminal, ReadEOF
  <2>2. pc'[s] = pc[s] \/ (pc[s] = "calling" /\ pc'[s] = "answered")
    BY <1>0, <1>6 DEF ReaderStep, ReadReply, LookupMiss, LookupHit, SendEvent, CloseTerminal, ReadEOF
  <2> QED BY <1>1, <2>1, <2>2
<1>7. CASE (\E a \in Actor : FailStep(a)) \/ Crash \/ StopBegin \/ WatchStep \/ StopStep
  <2>1. UNCHANGED <<conn, plug, pc>> /\ (stop' = "run" => stop = "run")
    BY <1>7 DEF FailStep, FailSend, FailClose, Crash, StopBegin, WatchStep, WatchExit, WatchSnapshot,
         WatchWake, StartReset, StartConnect, HandshakeOk, StartFail, StopStep, StopSnapshot,
         StopClose, StopKill, Snapshot
  <2>2. alive'[conn[s]] => alive[conn[s]]
    <3>1. CASE StartConnect
      BY <1>0, <3>1 DEF StartConnect
    <3>2. CASE ~StartConnect
      BY <1>0, <1>7, <3>2 DEF FailStep, FailSend, FailClose, Crash, StopBegin, WatchStep, WatchExit,
         WatchSnapshot, WatchWake, StartReset, HandshakeOk, StartFail, StopStep, StopSnapshot,
         StopClose, StopKill, Snapshot
    <3> QED BY <3>1, <3>2
  <2> QED BY <1>1, <2>1, <2>2
<1> QED BY <1>2, <1>3, <1>4, <1>5, <1>6, <1>7 DEF Next

\* The channel of a stream that no fault has touched is in the map while it is open.
LEMMA UntouchedOpen ==
    ASSUME TypeOK, ChannelInv, ProcessInv, NEW s \in Stream, Untouched(s), chan[s] = "open"
    PROVE  s \in streams /\ failing["watch"] = {} /\ failing["stop"] = {}
<1>1. pc[s] # "idle"
  BY DEF ChannelInv
<1>2. stop = "run" /\ alive[conn[s]] /\ conn[s] \in Gen /\ gen \in Gen
  BY <1>1 DEF Untouched, Spared, TypeOK
<1>3. conn[s] = gen /\ alive[gen] /\ ~(conn[s] < gen)
  BY <1>2 DEF ProcessInv, Gen
<1>4. watch \in {"wait", "handshake"}
  BY <1>3 DEF ProcessInv
<1>5. failing["watch"] = {} /\ failing["stop"] = {}
  BY <1>2, <1>4 DEF ChannelInv
<1> QED BY <1>3, <1>4, <1>5 DEF ChannelInv, CloseOnce

\* What the handler takes next is the event that follows those it has.
LEMMA HeadNext ==
    ASSUME TypeOK, NEW s \in Stream, LineOK(s), WholeOK(s), buf[s] # <<>>
    PROVE  Head(buf[s]) = Len(got[s]) + 1
<1> DEFINE n == Head(buf[s])
<1> DEFINE l == Len(got[s])
<1>1. /\ got[s] \in Seq(Nat) /\ buf[s] \in Seq(Nat) /\ l \in Nat /\ DOMAIN got[s] = 1 .. l
      /\ Els(buf[s]) \subseteq Nat
  BY LineTypes, LenProperties
<1>2. Els(got[s]) = 1 .. l
  <2>1. \A i \in 1 .. l : got[s][i] = i
    BY <1>1 DEF WholeOK
  <2> HIDE DEF l
  <2>2. Els(got[s]) = {got[s][i] : i \in 1 .. l}
    BY <1>1 DEF Els
  <2> QED BY <2>1, <2>2
<1>3. Els(buf[s]) = {n} \cup Els(Tail(buf[s])) /\ \A m \in Els(Tail(buf[s])) : m = 0 \/ n < m
  BY <1>1, ElsTail DEF LineOK
<1> HIDE DEF n, l
<1>4. n \in Nat /\ n >= 1 /\ 1 .. n \subseteq Line(s) /\ \A m \in Line(s) : m >= 1
  BY <1>1, <1>3 DEF WholeOK, Line
<1>5. \A m \in 1 .. l : m < n
  BY <1>2, <1>3, <1>4 DEF LineOK
<1>6. \A m \in 1 .. n : m = n \/ m \in 1 .. l
  <2> SUFFICES ASSUME NEW m \in 1 .. n, m # n PROVE m \in 1 .. l
    OBVIOUS
  <2>1. m \in Line(s) /\ m \in Nat /\ m # 0 /\ ~(n < m)
    BY <1>4
  <2>2. m \notin Els(buf[s])
    BY <1>3, <2>1
  <2> QED BY <1>2, <2>1, <2>2 DEF Line
<1>7. n = l + 1
  <2>1. l < n
    <3>1. CASE l = 0
      BY <1>4, <3>1
    <3>2. CASE l # 0
      <4>1. l \in 1 .. l
        BY <1>1, <3>2
      <4> QED BY <1>5, <4>1
    <3> QED BY <3>1, <3>2
  <2>2. n - 1 <= l
    <3>1. CASE n = 1
      BY <1>1, <3>1
    <3>2. CASE n # 1
      <4>1. n - 1 \in 1 .. n /\ n - 1 # n
        BY <1>4, <3>2
      <4> QED BY <1>1, <1>6, <4>1
    <3> QED BY <3>1, <3>2
  <2> QED BY <1>1, <1>4, <2>1, <2>2
<1> QED BY <1>7 DEF n, l

\* A step that moves no event of s, nor emits one.
LEMMA WholeStays ==
    ASSUME TypeOK, NEW s \in Stream, WholeOK(s),
           got'[s] = got[s], buf'[s] = buf[s], sent'[s] = sent[s], Ahead(s)' = Ahead(s),
           pending'[s] = pending[s] \/ (pending'[s] = <<>> /\ chan[s] # "none"),
           \/ chan'[s] = chan[s]
           \/ chan[s] = "open" /\ chan'[s] = "closed" /\ (AtClose(s) \/ cx[s] # "none"),
           cx'[s] = cx[s] \/ cx[s] # "none" \/ chan[s] = "closed" \/ (gone[s] /\ chan[s] # "none"),
           gone[s] => gone'[s], AtClose(s)' => AtClose(s), FailsDuly(s)
    PROVE  WholeOK(s)'
<1>1. Line(s)' = Line(s)
  BY DEF Line
<1>2. \A n : IsTerminal(s, n)' <=> IsTerminal(s, n)
  BY DEF IsTerminal
<1>3. Els(pending'[s]) \subseteq Els(pending[s])
  BY ElsEmpty
<1>4. \/ chan'[s] = "none" /\ chan[s] = "none" /\ pending'[s] = pending[s]
      \/ chan'[s] # "none" /\ chan[s] # "none"
  OBVIOUS
<1>5. /\ chan'[s] = "none" => Els(pending'[s]) \cup Ahead(s)' = 1 .. Len(sent'[s])
      /\ chan'[s] = "open" => Line(s)' \cup Ahead(s)' = 1 .. Len(sent'[s])
  BY <1>1, <1>4 DEF WholeOK
<1>6. chan'[s] = "closed" \/ cx'[s] # "none" \/ AtClose(s)'
          => gone'[s] \/ \E n \in Line(s)' : IsTerminal(s, n)'
  <2> SUFFICES ASSUME chan'[s] = "closed" \/ cx'[s] # "none" \/ AtClose(s)'
               PROVE  gone'[s] \/ \E n \in Line(s) : IsTerminal(s, n)
    BY <1>1, <1>2
  <2>1. chan[s] = "closed" \/ cx[s] # "none" \/ AtClose(s) \/ gone[s]
    OBVIOUS
  <2> QED BY <2>1 DEF WholeOK
<1>7. \A i \in DOMAIN got'[s] : got'[s][i] = i
  BY DEF WholeOK
<1>8. pc'[s] = "failed" => gone'[s] \/ plug'[s] = "rejected"
  BY DEF FailsDuly
<1>9. chan'[s] # "none" =>
          \A m \in Els(pending'[s]) : m <= Len(sent'[s]) /\ \A n \in Line(s)' : n < m
  BY <1>1, <1>3, <1>4 DEF WholeOK
<1>10. \A n \in Line(s)' : n >= 1 /\ 1 .. n \subseteq Line(s)'
  BY <1>1 DEF WholeOK
<1> QED BY <1>5, <1>6, <1>7, <1>8, <1>9, <1>10 DEF WholeOK

\* What happens elsewhere.
LEMMA WholeElsewhere ==
    ASSUME TypeOK, NEW s \in Stream, WholeOK(s),
           got'[s] = got[s], buf'[s] = buf[s], sent'[s] = sent[s], Ahead(s)' = Ahead(s),
           pending'[s] = pending[s], chan'[s] = chan[s], cx'[s] = cx[s], gone'[s] = gone[s],
           AtClose(s)' => AtClose(s), FailsDuly(s)
    PROVE  WholeOK(s)'
BY WholeStays

\* closeStreamLocked, for a stream whose end is due.
LEMMA CloseLockedWhole ==
    ASSUME TypeOK, ChannelInv, NEW s \in Stream, CloseLocked(s), chan[s] # "none",
           AtClose(s) \/ cx[s] # "none"
    PROVE  \A r \in Stream :
              /\ pending'[r] = pending[r] \/ (pending'[r] = <<>> /\ chan[r] # "none")
              /\ \/ chan'[r] = chan[r]
                 \/ chan[r] = "open" /\ chan'[r] = "closed" /\ (AtClose(r) \/ cx[r] # "none")
BY CloseLockedKeeps

\* The steps of a handler and its canceller.
LEMMA HandlerWhole ==
    ASSUME TypeOK, ChannelInv, OpenedInv, LineInv, NEW safe \in SUBSET Stream,
           \A r \in safe : WholeOK(r) /\ FailsDuly(r), NEW s \in Stream,
           CallStream(s) \/ Disconnect(s) \/ HandlerStep(s) \/ CancelStep(s)
    PROVE  \A r \in safe : WholeOK(r)'
<1> USE DEF pluginVars, mapVars, callVars, faultVars, readVars
<1>1. /\ pc \in [Stream -> {"idle", "calling", "answered", "stuck", "reading",
                            "drained", "done", "failed"}]
      /\ got \in [Stream -> Seq(Nat)] /\ buf \in [Stream -> Seq(Nat)]
      /\ pending \in [Stream -> Seq(Nat)] /\ chan \in [Stream -> {"none", "open", "closed"}]
      /\ gone \in [Stream -> BOOLEAN] /\ cx \in [Stream -> {"none", "calling", "done"}]
      /\ conn \in [Stream -> Gen]
  BY DEF TypeOK
<1>2. WireInv /\ \A r \in Stream : LineOK(r)
  BY DEF LineInv
<1>3. UNCHANGED <<sent, wire, at>>
  BY DEF CallStream, Disconnect, HandlerStep, CallFail, RejectedReturn, OpenStream, DrainBlocks,
        Consume, RangeEnd, HandlerReturn, CancelStep, CancelCall, CancelClose
<1>4. \A r \in Stream : Ahead(r)' = Ahead(r) /\ (AtClose(r)' => AtClose(r))
  <2>1. CASE CallStream(s)
    BY <1>2, <2>1, CallWireInv
  <2>2. CASE ~CallStream(s)
    <3>1. conn' = conn
      BY <2>2 DEF Disconnect, HandlerStep, CallFail, RejectedReturn, OpenStream, DrainBlocks,
        Consume, RangeEnd, HandlerReturn, CancelStep, CancelCall, CancelClose
    <3> QED BY <1>3, <3>1 DEF Ahead, AtClose
  <2> QED BY <2>1, <2>2
<1>5. ASSUME UNCHANGED <<got, buf, pending, chan>>,
             \A r \in Stream : gone[r] => gone'[r],
             \A r \in Stream : \/ cx'[r] = cx[r] \/ cx[r] # "none" \/ chan[r] = "closed"
                               \/ gone[r] /\ chan[r] # "none"
      PROVE  \A r \in safe : WholeOK(r)'
  BY <1>3, <1>4, <1>5, WholeStays
<1>6. CASE CallStream(s) \/ CallFail(s) \/ RejectedReturn(s) \/ DrainBlocks(s) \/ RangeEnd(s)
           \/ HandlerReturn(s)
  BY <1>5, <1>6 DEF CallStream, CallFail, RejectedReturn, DrainBlocks, RangeEnd, HandlerReturn
<1>7. CASE Disconnect(s)
  BY <1>1, <1>5, <1>7 DEF Disconnect
<1>8. CASE CancelCall(s)
  <2>1. chan[s] = "closed" \/ (gone[s] /\ chan[s] # "none")
    <3>1. pc[s] = "drained" \/ (pc[s] = "reading" /\ gone[s])
      BY <1>8 DEF CancelCall
    <3> QED BY <1>2, <3>1 DEF LineOK, Before
  <2>2. \A r \in Stream \ {s} : cx'[r] = cx[r]
    BY <1>1, <1>8 DEF CancelCall
  <2> QED BY <1>5, <1>8, <2>1, <2>2 DEF CancelCall
<1>9. CASE CancelClose(s)
  <2>1. /\ CloseLocked(s) /\ cx[s] = "calling" /\ cx' = [cx EXCEPT ![s] = "done"]
        /\ UNCHANGED <<got, buf, gone>>
    BY <1>9 DEF CancelClose
  <2>2. chan[s] # "none"
    BY <2>1 DEF OpenedInv
  <2>3. \A r \in Stream :
              /\ pending'[r] = pending[r] \/ (pending'[r] = <<>> /\ chan[r] # "none")
              /\ \/ chan'[r] = chan[r]
                 \/ chan[r] = "open" /\ chan'[r] = "closed" /\ (AtClose(r) \/ cx[r] # "none")
    BY <2>1, <2>2, CloseLockedWhole
  <2>4. \A r \in Stream : cx'[r] = cx[r] \/ cx[r] # "none"
    BY <1>1, <2>1
  <2> QED BY <1>3, <1>4, <2>1, <2>3, <2>4, WholeStays
<1>10. CASE Consume(s)
  <2>1. /\ buf[s] # <<>> /\ UNCHANGED <<pending, chan, streams, gone, cx>>
        /\ got' = [got EXCEPT ![s] = Append(@, Head(buf[s]))]
        /\ buf' = [buf EXCEPT ![s] = Tail(@)]
    BY <1>10 DEF Consume
  <2>2. /\ got'[s] = Append(got[s], Head(buf[s])) /\ buf'[s] = Tail(buf[s])
        /\ \A r \in Stream \ {s} : got'[r] = got[r] /\ buf'[r] = buf[r]
    BY <1>1, <2>1
  <2>3. buf[s] \in Seq(Nat) /\ got[s] \in Seq(Nat) /\ Head(buf[s]) \in Nat
    BY <1>1, <2>1, HeadTailProperties
  <2>4. Line(s)' = Line(s)
    <3>1. Els(got'[s]) = Els(got[s]) \cup {Head(buf[s])}
      BY <2>2, <2>3, ElsAppend
    <3>2. Els(buf[s]) = {Head(buf[s])} \cup Els(buf'[s])
      BY <2>1, <2>2, <2>3, ElsTail
    <3> QED BY <3>1, <3>2 DEF Line
  <2>5. ASSUME s \in safe PROVE WholeOK(s)'
    <3>1. \A i \in DOMAIN got'[s] : got'[s][i] = i
      <4>1. Head(buf[s]) = Len(got[s]) + 1
        BY <1>2, <2>1, <2>5, HeadNext
      <4>2. /\ Len(got'[s]) = Len(got[s]) + 1 /\ Len(got[s]) \in Nat
            /\ DOMAIN got'[s] = 1 .. Len(got'[s]) /\ DOMAIN got[s] = 1 .. Len(got[s])
            /\ \A i \in 1 .. Len(got[s]) : got'[s][i] = got[s][i]
            /\ got'[s][Len(got[s]) + 1] = Head(buf[s])
        BY <2>2, <2>3, AppendProperties, LenProperties
      <4>3. \A i \in DOMAIN got[s] : got[s][i] = i
        BY <2>5 DEF WholeOK
      <4> QED BY <4>1, <4>2, <4>3
    <3>2. pc'[s] = pc[s] /\ plug' = plug
      BY <1>10 DEF Consume
    <3>3. UNCHANGED <<sent, pending, chan, gone, cx>> /\ Ahead(s)' = Ahead(s) /\ (AtClose(s)' => AtClose(s))
      BY <1>3, <1>4, <2>1
    <3>4. \A n : IsTerminal(s, n)' <=> IsTerminal(s, n)
      BY <3>3 DEF IsTerminal
    <3> QED BY <2>4, <2>5, <3>1, <3>2, <3>3, <3>4 DEF WholeOK
  <2>6. \A r \in safe \ {s} : WholeOK(r)'
    BY <1>3, <1>4, <2>1, <2>2, WholeElsewhere
  <2> QED BY <2>5, <2>6
<1>11. CASE OpenStream(s)
  <2>1. /\ UNCHANGED <<got, gone, cx>> /\ pc[s] = "answered"
        /\ chan' = [chan EXCEPT ![s] = IF EndedPending(s) THEN "closed" ELSE "open"]
        /\ streams' = IF EndedPending(s) THEN streams ELSE streams \cup {s}
        /\ buf' = [buf EXCEPT ![s] = pending[s]]
        /\ pending' = [pending EXCEPT ![s] = <<>>]
    BY <1>11 DEF OpenStream, WithoutPending
  <2>2. /\ chan'[s] = (IF EndedPending(s) THEN "closed" ELSE "open")
        /\ buf'[s] = pending[s] /\ pending'[s] = <<>>
        /\ \A r \in Stream \ {s} : chan'[r] = chan[r] /\ buf'[r] = buf[r] /\ pending'[r] = pending[r]
    BY <1>1, <2>1
  <2>3. chan[s] = "none" /\ got[s] = <<>> /\ PendingOK(s)
    BY <1>2, <2>1 DEF LineOK, Before
  <2>4. Line(s)' = Els(pending[s])
    BY <2>1, <2>2, <2>3, ElsEmpty DEF Line
  <2>5. Els(pending[s]) \subseteq Nat /\ Ahead(s) \subseteq Nat /\ Len(sent[s]) \in Nat
    BY LineTypes
  <2>6. s \in safe => Els(pending[s]) \cup Ahead(s) = 1 .. Len(sent[s])
    BY <2>3 DEF WholeOK
  <2>7. ASSUME s \in safe
        PROVE  \A n \in Els(pending[s]) : n >= 1 /\ n <= Len(sent[s]) /\ 1 .. n \subseteq Els(pending[s])
    <3> SUFFICES ASSUME NEW n \in Els(pending[s])
                 PROVE  n >= 1 /\ n <= Len(sent[s]) /\ 1 .. n \subseteq Els(pending[s])
      OBVIOUS
    <3>1. n \in 1 .. Len(sent[s]) /\ \A m \in Ahead(s) : n < m
      BY <2>3, <2>6, <2>7 DEF PendingOK
    <3>2. \A m \in 1 .. n : m \in 1 .. Len(sent[s]) /\ ~(n < m)
      BY <2>5, <3>1
    <3> QED BY <2>6, <2>7, <3>1, <3>2
  <2>8. EndedPending(s) => \E n \in Els(pending[s]) : IsTerminal(s, n)
    BY DEF EndedPending, Els
  <2>9. ~AtClose(s) /\ cx[s] = "none"
    BY <1>1, <2>3 DEF OpenedInv
  <2>10. \A n : IsTerminal(s, n)' <=> IsTerminal(s, n)
    BY <1>3 DEF IsTerminal
  <2>11. ASSUME s \in safe PROVE WholeOK(s)'
    <3>1. chan'[s] = "closed" => \E n \in Line(s)' : IsTerminal(s, n)'
      BY <2>2, <2>4, <2>8, <2>10
    <3>2. ~AtClose(s)' /\ cx'[s] = "none" /\ chan'[s] # "none" /\ Ahead(s)' = Ahead(s)
      BY <1>4, <2>1, <2>2, <2>9
    <3>3. Els(pending'[s]) = {}
      BY <2>2, ElsEmpty
    <3>4. got'[s] = got[s] /\ (pc'[s] = "failed" => gone'[s] \/ plug'[s] = "rejected")
      BY <2>1, <2>11 DEF FailsDuly
    <3> QED BY <1>3, <2>2, <2>4, <2>6, <2>7, <2>11, <3>1, <3>2, <3>3, <3>4 DEF WholeOK
  <2>12. \A r \in safe \ {s} : WholeOK(r)'
    BY <1>3, <1>4, <2>1, <2>2, WholeElsewhere
  <2> QED BY <2>11, <2>12
<1> QED BY <1>6, <1>7, <1>8, <1>9, <1>10, <1>11 DEF HandlerStep, CancelStep

\* The steps of a reader.
LEMMA ReaderWhole ==
    ASSUME TypeOK, ChannelInv, OpenedInv, LineInv, NEW safe \in SUBSET Stream,
           \A r \in safe : WholeOK(r) /\ FailsDuly(r) /\ (chan[r] = "open" => r \in streams),
           NEW g \in Gen, ReaderStep(g)
    PROVE  \A r \in safe : WholeOK(r)'
<1> USE DEF pluginVars, mapVars, callVars, faultVars, readVars
<1> DEFINE h == Head(wire[g])
<1>0. /\ buf \in [Stream -> Seq(Nat)] /\ pending \in [Stream -> Seq(Nat)]
      /\ chan \in [Stream -> {"none", "open", "closed"}] /\ conn \in [Stream -> Gen]
      /\ at \in [Gen -> {"read", "send", "close", "eof"}] /\ wire \in [Gen -> Seq(Message)]
  BY DEF TypeOK
<1>a. WireInv /\ \A r \in Stream : LineOK(r)
  BY DEF LineInv
<1>1. CASE ReadReply(g) \/ LookupHit(g) \/ ReadEOF(g)
  <2>1. \A r \in Stream : Ahead(r)' = Ahead(r)
    BY <1>1, <1>a, ReaderPasses
  <2>2. UNCHANGED <<got, buf, sent, pending, chan, streams, cx, gone, conn>>
    BY <1>1 DEF ReadReply, LookupHit, ReadEOF
  <2>3. \A k \in Gen : at'[k] = "close" => at[k] = "close" /\ wire'[k] = wire[k]
    BY <1>0, <1>1 DEF ReadReply, LookupHit, ReadEOF
  <2>4. \A r \in Stream : AtClose(r)' => AtClose(r)
    BY <1>0, <2>2, <2>3 DEF AtClose
  <2> QED BY <2>1, <2>2, <2>4, WholeElsewhere
<1>2. CASE CloseTerminal(g)
  <2>1. \A r \in Stream : Ahead(r)' = Ahead(r)
    BY <1>2, <1>a, ReaderPasses
  <2>2. /\ h.id \in Stream /\ at[g] = "close" /\ wire[g] # <<>> /\ CloseLocked(h.id)
        /\ UNCHANGED <<got, buf, sent, cx, gone, conn>>
    BY <1>2, HeadMessage DEF CloseTerminal, TypeOK
  <2>3. conn[h.id] = g
    BY <1>a, <2>2, TailNums DEF WireInv
  <2>4. \A q : q = h.id => AtClose(q)
    BY <2>2, <2>3 DEF AtClose
  <2>5. PICK x \in Stream : x = h.id
    BY <2>2
  <2>6. AtClose(x) /\ CloseLocked(x)
    BY <2>2, <2>4, <2>5
  <2>7. chan[x] # "none"
    BY <2>6 DEF OpenedInv
  <2>8. \A r \in Stream :
              /\ pending'[r] = pending[r] \/ (pending'[r] = <<>> /\ chan[r] # "none")
              /\ \/ chan'[r] = chan[r]
                 \/ chan[r] = "open" /\ chan'[r] = "closed" /\ (AtClose(r) \/ cx[r] # "none")
    BY <2>6, <2>7, CloseLockedWhole
  <2>9. \A k \in Gen : at'[k] = "close" => at[k] = "close" /\ wire'[k] = wire[k]
    BY <1>0, <1>2 DEF CloseTerminal
  <2>10. \A r \in Stream : AtClose(r)' => AtClose(r)
    BY <1>0, <2>2, <2>9 DEF AtClose
  <2> QED BY <2>1, <2>2, <2>8, <2>10, WholeStays
<1>3. CASE LookupMiss(g) \/ SendEvent(g)
  <2> DEFINE s == h.id
  <2> DEFINE n == h.n
  <2>1. /\ s \in Stream /\ n \in Ahead(s) /\ \A m \in Ahead(s) : n <= m
        /\ \A r \in Stream : Ahead(r)' = Ahead(r) \ (IF s = r THEN {n} ELSE {})
    BY <1>3, <1>a, ReaderGives
  <2>2. wire[g] # <<>> /\ at[g] # "close" /\ UNCHANGED <<got, sent, chan, streams, cx, gone, conn>>
    BY <1>3 DEF LookupMiss, SendEvent, TypeOK
  <2>3. n <= Len(sent[s]) /\ n \in Nat \ {0}
    <3>1. h \in Els(wire[g])
      BY <1>a, <2>2, TailNums
    <3> QED BY <1>a, <2>1, <3>1, LineTypes DEF WireInv
  <2>4. \/ /\ s \notin streams
           /\ pending' = [pending EXCEPT ![s] = Append(@, n)] /\ buf' = buf
        \/ pending' = pending /\ chan[s] = "closed" /\ buf' = buf
        \/ pending' = pending /\ chan[s] = "open" /\ buf' = [buf EXCEPT ![s] = Append(@, n)]
    BY <1>3 DEF LookupMiss, SendEvent, BlockingSend
  <2>5. /\ \A k \in Gen \ {g} : at'[k] = at[k] /\ wire'[k] = wire[k]
        /\ at'[g] = "close" => wire'[g] = wire[g] /\ IsTerminal(s, n) /\ pending' = pending
    <3>1. CASE LookupMiss(g)
      BY <1>0, <2>2, <3>1 DEF LookupMiss
    <3>2. CASE SendEvent(g) /\ IsTerminal(s, n)
      BY <1>0, <3>2 DEF SendEvent
    <3>3. CASE SendEvent(g) /\ ~IsTerminal(s, n)
      BY <1>0, <3>3 DEF SendEvent
    <3> QED BY <1>3, <3>1, <3>2, <3>3
  <2>6. conn[s] = g
    BY <1>a, <2>2, TailNums DEF WireInv
  <2>7. PICK x \in Stream, k \in Nat \ {0} : x = s /\ k = n
    BY <2>1, <2>3
  <2>8. /\ at'[g] = "close" => Head(wire'[g]).id = x /\ IsTerminal(x, k) /\ pending' = pending
        /\ \A r \in Stream \ {x} : Ahead(r)' = Ahead(r)
        /\ Ahead(x)' = Ahead(x) \ {k}
    <3>1. at'[g] = "close" => Head(wire'[g]).id = x
      BY <2>5, <2>7
    <3>2. at'[g] = "close" => IsTerminal(x, k) /\ pending' = pending
      BY <2>5, <2>7, Zenon
    <3>3. \A r \in Stream : Ahead(r)' = Ahead(r) \ (IF x = r THEN {k} ELSE {})
      <4> SUFFICES ASSUME NEW r \in Stream PROVE Ahead(r)' = Ahead(r) \ (IF x = r THEN {k} ELSE {})
        OBVIOUS
      <4>1. Ahead(r)' = Ahead(r) \ (IF s = r THEN {n} ELSE {})
        BY <2>1
      <4> HIDE DEF s, n
      <4> QED BY <2>7, <4>1
    <3> QED BY <3>1, <3>2, <3>3
  <2>9. /\ conn[x] = g /\ k \in Ahead(x) /\ (\A m \in Ahead(x) : k <= m) /\ k <= Len(sent[x])
        /\ \/ x \notin streams /\ pending' = [pending EXCEPT ![x] = Append(@, k)] /\ buf' = buf
           \/ pending' = pending /\ chan[x] = "closed" /\ buf' = buf
           \/ pending' = pending /\ chan[x] = "open" /\ buf' = [buf EXCEPT ![x] = Append(@, k)]
    BY <2>1, <2>3, <2>4, <2>6, <2>7, Zenon
  <2> HIDE DEF h, s, n
  <2>10. ASSUME NEW r \in safe \ {x} PROVE WholeOK(r)'
    <3>1. pending'[r] = pending[r] /\ buf'[r] = buf[r]
      BY <1>0, <2>9
    <3>2. AtClose(r)' => AtClose(r)
      BY <1>0, <2>2, <2>5, <2>8 DEF AtClose
    <3> QED BY <2>2, <2>8, <3>1, <3>2, WholeElsewhere
  <2>11. /\ Line(x) \subseteq Nat /\ Ahead(x) \subseteq Nat /\ Len(sent[x]) \in Nat
         /\ Els(pending[x]) \subseteq Nat
         /\ got[x] \in Seq(Nat) /\ buf[x] \in Seq(Nat) /\ pending[x] \in Seq(Nat)
    BY LineTypes
  <2>12. \A m \in Line(x) : m < k
    BY <1>a, <2>9 DEF LineOK
  <2>13. ~AtClose(x) /\ (AtClose(x)' => at'[g] = "close")
    BY <2>2, <2>9 DEF AtClose
  <2>14. \A m : IsTerminal(x, m)' <=> IsTerminal(x, m)
    BY <2>2 DEF IsTerminal
  <2>15. x \in safe => /\ \A i \in DOMAIN got'[x] : got'[x][i] = i
                       /\ pc'[x] = "failed" => gone'[x] \/ plug'[x] = "rejected"
    BY <2>2 DEF WholeOK, FailsDuly
  <2>16. ASSUME x \in safe, x \notin streams, pending' = [pending EXCEPT ![x] = Append(@, k)], buf' = buf
         PROVE  WholeOK(x)'
    <3>1. pending'[x] = Append(pending[x], k)
      BY <1>0, <2>16
    <3>2. Els(pending'[x]) = Els(pending[x]) \cup {k}
      BY <2>11, <3>1, ElsAppend
    <3>3. Line(x)' = Line(x)
      BY <2>2, <2>16 DEF Line
    <3>4. chan[x] # "open"
      BY <2>16
    <3>5. ~AtClose(x)'
      <4>1. Len(pending'[x]) # Len(pending[x])
        BY <2>11, <3>1, AppendProperties
      <4> QED BY <2>8, <2>13, <4>1
    <3>6. chan[x] = "none" => Els(pending'[x]) \cup Ahead(x)' = 1 .. Len(sent[x])
      BY <2>8, <2>9, <2>16, <3>2 DEF WholeOK
    <3>7. chan[x] # "none" =>
              \A m \in Els(pending'[x]) : m <= Len(sent[x]) /\ \A j \in Line(x) : j < m
      BY <2>9, <2>12, <2>16, <3>2 DEF WholeOK
    <3> QED BY <2>2, <2>14, <2>16, <2>15, <3>3, <3>4, <3>5, <3>6, <3>7 DEF WholeOK
  <2>17. ASSUME x \in safe, pending' = pending, chan[x] = "closed", buf' = buf
         PROVE  WholeOK(x)'
    <3>1. Line(x)' = Line(x)
      BY <2>2, <2>17 DEF Line
    <3> QED BY <2>2, <2>14, <2>17, <2>15, <3>1 DEF WholeOK
  <2>18. ASSUME x \in safe, pending' = pending, chan[x] = "open", buf' = [buf EXCEPT ![x] = Append(@, k)]
         PROVE  WholeOK(x)'
    <3>1. Line(x)' = Line(x) \cup {k}
      <4>1. buf'[x] = Append(buf[x], k)
        BY <1>0, <2>18
      <4>2. Els(buf'[x]) = Els(buf[x]) \cup {k}
        BY <2>11, <4>1, ElsAppend
      <4> QED BY <2>2, <4>2 DEF Line
    <3>2. Line(x) \cup Ahead(x) = 1 .. Len(sent[x])
      BY <2>18 DEF WholeOK
    <3>3. 1 .. k \subseteq Line(x)'
      <4> SUFFICES ASSUME NEW m \in 1 .. k PROVE m \in Line(x)'
        OBVIOUS
      <4>1. m \in 1 .. Len(sent[x])
        BY <2>9, <2>11
      <4>2. CASE m \in Ahead(x)
        BY <2>9, <3>1, <4>2
      <4> QED BY <3>1, <3>2, <4>1, <4>2
    <3>4. \A m \in Line(x)' : m >= 1 /\ 1 .. m \subseteq Line(x)'
      BY <2>18, <3>1, <3>3 DEF WholeOK
    <3>5. pending[x] = <<>> /\ Els(pending[x]) = {}
      BY <2>18, ElsEmpty DEF OpenedInv
    <3>6. AtClose(x)' => \E m \in Line(x)' : IsTerminal(x, m)'
      BY <2>8, <2>13, <2>14, <3>1
    <3>7. cx[x] # "none" => gone[x] \/ \E m \in Line(x)' : IsTerminal(x, m)'
      BY <2>14, <2>18, <3>1 DEF WholeOK
    <3>8. Line(x)' \cup Ahead(x)' = 1 .. Len(sent[x])
      BY <2>8, <2>9, <3>1, <3>2
    <3> QED BY <2>2, <2>18, <2>15, <3>4, <3>5, <3>6, <3>7, <3>8 DEF WholeOK
  <2> QED BY <2>9, <2>10, <2>16, <2>17, <2>18
<1> QED BY <1>1, <1>2, <1>3 DEF ReaderStep

\* The steps of the plugin.
LEMMA PluginWhole ==
    ASSUME TypeOK, TypeOK', LineInv, NEW safe \in SUBSET Stream,
           \A r \in safe : WholeOK(r) /\ FailsDuly(r), NEW s \in Stream,
           PluginStep(s) \/ \E k \in Kind : Emit(s, k)
    PROVE  \A r \in safe : WholeOK(r)'
<1> USE DEF mapVars, callVars, faultVars, readVars
<1>a. WireInv /\ \A r \in Stream : LineOK(r)
  BY DEF LineInv
<1>0. /\ plug \in [Stream -> {"none", "asked", "opened", "replied", "rejected"}]
      /\ sent \in [Stream -> Seq(Kind)]
  BY DEF TypeOK
<1>1. CASE Accept(s)
  <2>1. UNCHANGED <<wire, at, conn, sent, pc, got, buf, pending, chan, streams, cx, gone>>
    BY <1>1 DEF Accept
  <2>2. \A r \in Stream : Ahead(r)' = Ahead(r) /\ (AtClose(r)' => AtClose(r))
    BY <2>1 DEF Ahead, AtClose
  <2> QED BY <2>1, <2>2, WholeElsewhere
<1>2. CASE Reject(s) \/ Reply(s)
  <2>1. /\ UNCHANGED <<at, conn, sent, pc, got, buf, pending, chan, streams, cx, gone>>
        /\ wire' = [wire EXCEPT ![conn[s]] = Written(@, [id |-> s, n |-> 0])]
        /\ plug[s] # "none" /\ plug'[s] \notin {"none", "asked"}
        /\ plug'[s] = "rejected" => plug[s] = "asked"
        /\ \A r \in Stream \ {s} : plug'[r] = plug[r]
    BY <1>0, <1>2 DEF Reject, Reply
  <2>2. plug'[s] = "rejected" => sent'[s] = <<>>
    BY <1>a, <2>1 DEF WireInv
  <2>3. /\ \A r \in Stream : Len(sent[r]) <= Len(sent'[r]) /\ sent'[r] \in Seq(Kind) /\ sent'[r] = sent[r]
        /\ 0 \in Nat /\ 0 <= Len(sent'[s])
    BY <1>0, <2>1, LineTypes
  <2>4. /\ Ahead(s)' = Ahead(s) \cup ({0} \ {0})
        /\ \A r \in Stream \ {s} : Ahead(r)' = Ahead(r)
    BY <1>a, <2>1, <2>2, <2>3, WireGrows
  <2>5. \A r \in Stream : Ahead(r)' = Ahead(r) /\ (AtClose(r)' => AtClose(r))
    BY <2>1, <2>4, WriteClose
  <2> QED BY <2>1, <2>5, WholeElsewhere
<1>3. ASSUME NEW k \in Kind, Emit(s, k) PROVE \A r \in safe : WholeOK(r)'
  <2>1. /\ UNCHANGED <<at, conn, plug, pc, got, buf, pending, chan, streams, cx, gone>>
        /\ wire' = [wire EXCEPT ![conn[s]] = Written(@, [id |-> s, n |-> Len(sent[s]) + 1])]
        /\ sent' = [sent EXCEPT ![s] = Append(@, k)]
        /\ plug[s] \in {"opened", "replied"}
    BY <1>3 DEF Emit
  <2>2. /\ sent'[s] = Append(sent[s], k) /\ \A r \in Stream \ {s} : sent'[r] = sent[r]
        /\ \A r \in Stream : sent'[r] \in Seq(Kind) /\ Len(sent[r]) \in Nat
    <3>1. sent' \in [Stream -> Seq(Kind)]
      BY DEF TypeOK
    <3>2. \A r \in Stream : Len(sent[r]) \in Nat
      BY LineTypes
    <3> HIDE DEF Kind
    <3> QED BY <1>0, <2>1, <3>1, <3>2
  <2>3. PICK n \in Nat \ {0} : n = Len(sent[s]) + 1
    BY <2>2
  <2>4. Len(sent'[s]) = n /\ \A i \in 1 .. Len(sent[s]) : sent'[s][i] = sent[s][i]
    BY <1>0, <2>2, <2>3, AppendProperties
  <2>5. \A r \in Stream : Len(sent[r]) <= Len(sent'[r])
    BY <2>2, <2>3, <2>4
  <2>6. /\ wire' = [wire EXCEPT ![conn[s]] = Written(@, [id |-> s, n |-> n])]
        /\ plug[s] # "none" /\ plug'[s] \notin {"none", "asked"}
        /\ plug'[s] = "rejected" => sent'[s] = <<>>
        /\ \A r \in Stream \ {s} : plug'[r] = plug[r] /\ sent'[r] = sent[r]
        /\ n <= Len(sent'[s]) /\ (n # 0 => n = Len(sent[s]) + 1)
        /\ UNCHANGED <<at, conn, pc>>
    BY <2>1, <2>2, <2>3, <2>4
  <2>7. /\ Ahead(s)' = Ahead(s) \cup ({n} \ {0})
        /\ \A r \in Stream \ {s} : Ahead(r)' = Ahead(r)
    BY <1>a, <2>6, <2>2, <2>5, WireGrows
  <2>8. \A r \in Stream : AtClose(r)' => AtClose(r)
    BY <2>6, WriteClose
  <2>9. ASSUME s \in safe PROVE WholeOK(s)'
    <3>1. Line(s)' = Line(s) /\ pending' = pending
      BY <2>1 DEF Line
    <3>2. Line(s) \subseteq Nat /\ Els(pending[s]) \subseteq Nat /\ Len(sent[s]) \in Nat
      BY LineTypes
    <3>3. Ahead(s)' = Ahead(s) \cup {n} /\ 1 .. Len(sent'[s]) = (1 .. Len(sent[s])) \cup {n}
      BY <2>3, <2>4, <2>7, <3>2
    <3>4. \A m \in Line(s) : m \in 1 .. Len(sent[s])
      BY <1>a, <2>9, <3>2 DEF WholeOK, LineOK
    <3>5. \A m \in Line(s) : IsTerminal(s, m) => IsTerminal(s, m)'
      BY <2>4, <3>4 DEF IsTerminal
    <3>6. /\ chan'[s] = "none" => Els(pending'[s]) \cup Ahead(s)' = 1 .. Len(sent'[s])
          /\ chan'[s] = "open" => Line(s)' \cup Ahead(s)' = 1 .. Len(sent'[s])
      <4>1. chan[s] = "none" => Els(pending[s]) \cup Ahead(s) = 1 .. Len(sent[s])
        BY <2>9 DEF WholeOK
      <4>2. chan[s] = "open" => Line(s) \cup Ahead(s) = 1 .. Len(sent[s])
        BY <2>9 DEF WholeOK
      <4> QED BY <2>1, <3>1, <3>3, <4>1, <4>2
    <3>7. chan'[s] = "closed" \/ cx'[s] # "none" \/ AtClose(s)'
              => gone'[s] \/ \E m \in Line(s)' : IsTerminal(s, m)'
      BY <2>1, <2>8, <2>9, <3>1, <3>5 DEF WholeOK
    <3>8. chan'[s] # "none" =>
              \A m \in Els(pending'[s]) : m <= Len(sent'[s]) /\ \A j \in Line(s)' : j < m
      BY <2>1, <2>3, <2>4, <2>9, <3>1, <3>2 DEF WholeOK
    <3>9. \A m \in Line(s)' : m >= 1 /\ 1 .. m \subseteq Line(s)'
      BY <2>9, <3>1 DEF WholeOK
    <3>10. /\ \A i \in DOMAIN got'[s] : got'[s][i] = i
           /\ pc'[s] = "failed" => gone'[s] \/ plug'[s] = "rejected"
      BY <2>1, <2>9 DEF WholeOK, FailsDuly
    <3> QED BY <3>6, <3>7, <3>8, <3>9, <3>10 DEF WholeOK
  <2>10. \A r \in safe \ {s} : WholeOK(r)'
    BY <2>1, <2>2, <2>7, <2>8, WholeElsewhere
  <2> QED BY <2>9, <2>10
<1> QED BY <1>1, <1>2, <1>3 DEF PluginStep

\* A reader that stops, a crash, a restart and Stop: what they take away belongs to
\* streams that they touch.
LEMMA FaultWhole ==
    ASSUME TypeOK, ChannelInv, ProcessInv, LineInv, NEW s \in Stream, Untouched(s), Untouched(s)',
           WholeOK(s), FailsDuly(s),
           (\E a \in Actor : FailStep(a)) \/ Crash \/ StopBegin \/ WatchStep \/ StopStep
    PROVE  WholeOK(s)'
<1> USE DEF pluginVars, mapVars, callVars, faultVars, readVars
<1>0. /\ chan \in [Stream -> {"none", "open", "closed"}] /\ buf \in [Stream -> Seq(Nat)]
      /\ conn \in [Stream -> Gen]
  BY DEF TypeOK
<1>1. UNCHANGED <<wire, at, conn, sent, got, cx, gone, pc>>
  BY DEF FailStep, FailSend, FailClose, Crash, StopBegin, WatchStep, WatchExit, WatchSnapshot,
         WatchWake, StartReset, StartConnect, HandshakeOk, StartFail, StopStep, StopSnapshot,
         StopClose, StopKill, Snapshot
<1>2. Ahead(s)' = Ahead(s) /\ (AtClose(s)' => AtClose(s))
  BY <1>1 DEF Ahead, AtClose
<1>3. ASSUME buf'[s] = buf[s], pending'[s] = pending[s], chan'[s] = chan[s] PROVE WholeOK(s)'
  BY <1>1, <1>2, <1>3, WholeElsewhere
<1>4. ASSUME NEW a \in Actor, FailStep(a) PROVE WholeOK(s)'
  <2>1. PICK r \in Stream : FailSend(a, r) \/ FailClose(a, r)
    BY <1>4 DEF FailStep
  <2>2. r \in failing[a] /\ chan[r] = "open"
    BY <2>1 DEF FailSend, FailClose, ChannelInv, CloseOnce
  <2>3. r # s
    BY <2>2, UntouchedOpen DEF Actor
  <2>4. buf'[s] = buf[s] /\ pending' = pending /\ chan'[s] = chan[s]
    BY <1>0, <2>1, <2>3 DEF FailSend, FailClose, NonBlockingSend
  <2> QED BY <1>3, <2>4
<1>5. CASE Crash \/ StopBegin \/ WatchExit \/ WatchWake \/ StartConnect \/ HandshakeOk \/ StartFail
           \/ StopClose \/ StopKill
  BY <1>3, <1>5 DEF Crash, StopBegin, WatchExit, WatchWake, StartConnect, HandshakeOk, StartFail,
     StopClose, StopKill
<1>6. CASE WatchSnapshot \/ StartReset \/ StopSnapshot
  <2>1. UNCHANGED <<buf, chan>> /\ pending'[s] = <<>>
    BY <1>6 DEF WatchSnapshot, StartReset, StopSnapshot, Snapshot
  <2>2. pc[s] = "idle"
    <3>1. CASE StopSnapshot
      BY <3>1 DEF StopSnapshot, Untouched, Spared
    <3>2. CASE WatchSnapshot \/ StartReset
      <4>1. ~alive[gen]
        BY <3>2 DEF WatchSnapshot, StartReset, ProcessInv
      <4>2. ~alive[conn[s]]
        BY <1>0, <4>1 DEF ProcessInv
      <4> QED BY <4>2 DEF Untouched, Spared
    <3> QED BY <1>6, <3>1, <3>2
  <2>3. plug[s] = "none" /\ chan[s] = "none"
    BY <2>2 DEF LineInv, WireInv, ChannelInv
  <2>4. sent[s] = <<>> /\ PendingOK(s)
    BY <2>3 DEF LineInv, WireInv, LineOK
  <2>5. Els(pending[s]) = {} /\ pending[s] \in Seq(Nat)
    <3>1. Len(sent[s]) = 0 /\ Els(pending[s]) \subseteq Nat /\ pending[s] \in Seq(Nat)
      BY <2>4, LineTypes
    <3>2. \A m \in Els(pending[s]) : m # 0 /\ m <= 0
      BY <2>4, <3>1 DEF PendingOK
    <3>3. \A m \in Els(pending[s]) : FALSE
      BY <3>1, <3>2
    <3> QED BY <3>1, <3>3, Zenon
  <2>6. ASSUME pending[s] # <<>> PROVE FALSE
    <3>1. Els(pending[s]) = {Head(pending[s])} \cup Els(Tail(pending[s]))
      BY <2>5, <2>6, ElsTail
    <3> QED BY <2>5, <3>1, Zenon
  <2> QED BY <1>3, <2>1, <2>6
<1> QED BY <1>4, <1>5, <1>6 DEF WatchStep, StopStep

\* No step takes anything from a stream that no fault has touched.
LEMMA NextWholeInv ==
    ASSUME TypeOK, TypeOK', ChannelInv, ProcessInv, OpenedInv, LineInv, WholeInv, [Next]_vars
    PROVE  WholeInv'
<1> DEFINE safe == {s \in Stream : Untouched(s)'}
<1>1. \A s \in safe : Untouched(s) /\ WholeOK(s) /\ FailsDuly(s)
  BY TouchedStays DEF WholeInv
<1>2. \A s \in safe : chan[s] = "open" => s \in streams
  BY <1>1, UntouchedOpen
<1>3. safe \in SUBSET Stream /\ \A s \in safe : Untouched(s)'
  OBVIOUS
<1> SUFFICES \A s \in safe : WholeOK(s)'
  BY DEF WholeInv
<1> HIDE DEF safe
<1>4. CASE UNCHANGED vars
  <2>1. UNCHANGED <<wire, at, conn, sent, got, buf, pending, chan, cx, gone>>
    BY <1>4 DEF vars
  <2>2. \A s \in Stream : Ahead(s)' = Ahead(s) /\ (AtClose(s)' => AtClose(s))
    BY <2>1 DEF Ahead, AtClose
  <2> QED BY <1>1, <1>3, <2>1, <2>2, WholeElsewhere
<1>5. ASSUME NEW g \in 1 .. gen, ReaderStep(g) PROVE \A s \in safe : WholeOK(s)'
  <2>1. g \in Gen
    BY DEF TypeOK, Gen
  <2> QED BY <1>1, <1>2, <1>3, <1>5, <2>1, ReaderWhole
<1>6. ASSUME NEW s \in Stream, CallStream(s) \/ Disconnect(s) \/ HandlerStep(s) \/ CancelStep(s)
      PROVE  \A r \in safe : WholeOK(r)'
  BY <1>1, <1>3, <1>6, HandlerWhole
<1>7. ASSUME NEW s \in Stream, PluginStep(s) \/ \E k \in Kind : Emit(s, k)
      PROVE  \A r \in safe : WholeOK(r)'
  BY <1>1, <1>3, <1>7, PluginWhole
<1>8. CASE (\E a \in Actor : FailStep(a)) \/ Crash \/ StopBegin \/ WatchStep \/ StopStep
  BY <1>1, <1>3, <1>8, FaultWhole
<1> QED BY <1>4, <1>5, <1>6, <1>7, <1>8 DEF Next

\* The inductive invariant of the streams, whatever fails.
StreamsInv == TypeOK /\ ChannelInv /\ ProcessInv /\ LineInv /\ OpenedInv /\ WholeInv

\* It holds in every behaviour.
LEMMA AllStreams == Spec => []StreamsInv
<1>1. Init => StreamsInv
  BY InitTypeOK, InitChannelInv, InitProcessInv, InitLineInv, InitOpenedInv, InitWholeOK
     DEF StreamsInv, WholeInv
<1>2. StreamsInv /\ [Next]_vars => StreamsInv'
  <2> SUFFICES ASSUME StreamsInv, [Next]_vars PROVE StreamsInv'
    OBVIOUS
  <2>1. TypeOK /\ ChannelInv /\ ProcessInv /\ LineInv /\ OpenedInv /\ WholeInv
    BY DEF StreamsInv
  <2>2. TypeOK' /\ ChannelInv' /\ ProcessInv'
    BY <2>1, NextTypeOK, NextChannelInv, NextProcessInv
  <2>3. LineInv' /\ OpenedInv'
    BY <2>1, <2>2, NextLineInv, NextOpenedInv
  <2>4. WholeInv'
    BY <2>1, <2>2, NextWholeInv
  <2> QED BY <2>2, <2>3, <2>4 DEF StreamsInv
<1> QED BY <1>1, <1>2, PTL DEF Spec

\* What ends a stream that no fault has touched.
LEMMA WholeEnd ==
    ASSUME NEW s \in Stream, LineOK(s), WholeOK(s), Finished(s), ~gone[s]
    PROVE  \E i \in DOMAIN got[s] : IsTerminal(s, got[s][i])
<1>1. chan[s] = "closed" /\ buf[s] = <<>>
  BY DEF LineOK, Finished
<1>2. PICK n \in Line(s) : IsTerminal(s, n)
  BY <1>1 DEF WholeOK
<1>3. n \in Els(got[s])
  BY <1>1, ElsEmpty DEF Line
<1> QED BY <1>2, <1>3 DEF Els

\* A fault harms only the streams of the process that it ends, for any number of
\* streams, processes and faults: while the process of a stream lives and Stop has
\* not begun, the handler has the plugin's events from the first one on without a
\* gap, ends only on a terminal one or because its client left, and goes without a
\* stream only if the plugin refused it or the client left.
THEOREM FaultsStayContained == Spec => []FaultsContained
<1>1. StreamsInv => FaultsContained
  <2> SUFFICES ASSUME StreamsInv, NEW s \in Stream, Spared(s)
               PROVE  /\ \A i \in DOMAIN got[s] : got[s][i] = i
                      /\ chan[s] # "closed" => \A n \in DOMAIN sent[s] :
                            \/ \E q \in {got[s], buf[s], pending[s]} : \E i \in DOMAIN q : q[i] = n
                            \/ \E i \in DOMAIN wire[conn[s]] : wire[conn[s]][i] = [id |-> s, n |-> n]
                      /\ Finished(s) /\ ~gone[s] => \E i \in DOMAIN got[s] : IsTerminal(s, got[s][i])
                      /\ pc[s] = "failed" /\ ~gone[s] => plug[s] = "rejected"
    BY DEF FaultsContained
  <2>1. LineOK(s) /\ WholeOK(s)
    BY DEF StreamsInv, LineInv, WholeInv, Untouched
  <2>2. Finished(s) /\ ~gone[s] => \E i \in DOMAIN got[s] : IsTerminal(s, got[s][i])
    BY <2>1, WholeEnd
  <2>3. ASSUME chan[s] # "closed", NEW n \in DOMAIN sent[s]
        PROVE  \/ \E q \in {got[s], buf[s], pending[s]} : \E i \in DOMAIN q : q[i] = n
               \/ \E i \in DOMAIN wire[conn[s]] : wire[conn[s]][i] = [id |-> s, n |-> n]
    <3>1. chan[s] \in {"none", "open"} /\ DOMAIN sent[s] = 1 .. Len(sent[s])
      BY <2>3, LineTypes, LenProperties DEF StreamsInv, TypeOK
    <3>2. n \in Els(pending[s]) \cup Els(got[s]) \cup Els(buf[s]) \cup Ahead(s)
      BY <2>1, <3>1 DEF WholeOK, Line
    <3>3. n \in Ahead(s) => n \in Nums(wire[conn[s]], s)
      BY DEF Ahead
    <3> QED BY <3>2, <3>3, Zenon DEF Els, Nums
  <2> QED BY <2>1, <2>2, <2>3 DEF WholeOK
<1> QED BY <1>1, AllStreams, PTL

\* Whatever fails, no stream has events both in the hands of its channel and in
\* pending, and one of a living process that ended with its last event leaves
\* nothing in the map.
THEOREM PendingLeftClean == Spec => []PendingHygiene
<1>1. StreamsInv => PendingHygiene
  <2> SUFFICES ASSUME StreamsInv, NEW s \in Stream
               PROVE  /\ s \in streams => pending[s] = <<>>
                      /\ /\ pc[s] = "done" /\ ~gone[s] /\ Spared(s)
                         /\ \A i \in DOMAIN sent[s] : sent[s][i] # "data" => i = Len(sent[s])
                         => pending[s] = <<>>
    BY DEF PendingHygiene
  <2>0. TypeOK /\ LineOK(s)
    BY DEF StreamsInv, LineInv
  <2>1. s \in streams => pending[s] = <<>>
    BY DEF StreamsInv, OpenedInv
  <2>2. ASSUME pc[s] = "done", ~gone[s], Spared(s),
               \A i \in DOMAIN sent[s] : sent[s][i] # "data" => i = Len(sent[s])
        PROVE  pending[s] = <<>>
    <3>0. WholeOK(s)
      BY <2>2 DEF StreamsInv, WholeInv, Untouched
    <3>1. chan[s] = "closed"
      BY <2>0, <2>2 DEF LineOK
    <3>2. PICK n \in Line(s) : IsTerminal(s, n)
      BY <2>2, <3>0, <3>1 DEF WholeOK
    <3>3. n \in 1 .. Len(sent[s]) /\ n # 0 /\ Len(sent[s]) \in Nat /\ Els(pending[s]) \subseteq Nat
      BY <2>0, <3>0, <3>2, LineTypes DEF WholeOK, LineOK
    <3>4. n = Len(sent[s])
      <4>1. DOMAIN sent[s] = 1 .. Len(sent[s])
        BY <2>0, LineTypes, LenProperties
      <4> QED BY <2>2, <3>2, <3>3, <4>1 DEF IsTerminal
    <3>5. \A m \in Els(pending[s]) : m <= Len(sent[s]) /\ n < m
      BY <3>0, <3>1, <3>2 DEF WholeOK
    <3>6. Els(pending[s]) = {}
      BY <3>3, <3>4, <3>5
    <3>7. pending[s] \in Seq(Nat)
      BY <2>0, LineTypes
    <3>8. pending[s] # <<>> => Head(pending[s]) \in Els(pending[s])
      BY <3>7, ElsTail
    <3> QED BY <3>6, <3>8
  <2> QED BY <2>1, <2>2
<1> QED BY <1>1, AllStreams, PTL

\* Each step is one of Supervision, or none.
LEMMA SuperviseStep ==
    ASSUME TypeOK, ProcessInv, [Next]_vars
    PROVE  [Supervisor!Next]_(Supervisor!vars)
<1> USE DEF pluginVars, mapVars, callVars, faultVars, readVars
<1>1. /\ alive \in [Gen -> BOOLEAN] /\ gen \in Gen
      /\ watch \in {"wait", "fail", "failing", "reset", "starting", "handshake", "gone"}
      /\ stop \in {"run", "stopping", "failing", "killing", "stopped"}
  BY DEF TypeOK
<1>2. ASSUME UNCHANGED <<alive, gen, watch, stop>> PROVE UNCHANGED Supervisor!vars
  BY <1>2 DEF Supervisor!vars, Phase, Stopping
<1>3. CASE UNCHANGED vars
  BY <1>2, <1>3 DEF vars
<1>4. Supervisor!Stopped <=> stop # "run"
  BY <1>1 DEF Supervisor!Stopped, Stopping
<1>5. ASSUME NEW s \in Stream,
             \/ CallStream(s) \/ Disconnect(s) \/ HandlerStep(s) \/ CancelStep(s)
             \/ PluginStep(s) \/ \E k \in Kind : Emit(s, k)
      PROVE  UNCHANGED Supervisor!vars
  BY <1>2, <1>5 DEF CallStream, Disconnect, HandlerStep, CallFail, RejectedReturn, OpenStream, DrainBlocks,
        Consume, RangeEnd, HandlerReturn, CancelStep, CancelCall, CancelClose, PluginStep, Accept, Reject,
        Reply, Emit
<1>6. ASSUME NEW g \in 1 .. gen, ReaderStep(g) PROVE UNCHANGED Supervisor!vars
  BY <1>2, <1>6 DEF ReaderStep, ReadReply, LookupMiss, LookupHit, SendEvent, CloseTerminal, ReadEOF
<1>7. ASSUME NEW a \in Actor, FailStep(a) PROVE UNCHANGED Supervisor!vars
  BY <1>2, <1>7 DEF FailStep, FailSend, FailClose
<1>8. CASE Crash
  <2>1. Supervisor!Dies
    BY <1>1, <1>8 DEF Crash, Supervisor!Dies, Phase, Stopping
  <2> QED BY <2>1 DEF Supervisor!Next
<1>9. CASE WatchExit
  <2>1. UNCHANGED <<alive, gen, stop>> /\ ~alive[gen] /\ Phase = "watched"
        /\ Phase' = IF stop = "run" THEN "noticed" ELSE "left"
    BY <1>9 DEF WatchExit, Phase
  <2>2. Supervisor!Notices
    BY <1>4, <2>1 DEF Supervisor!Notices, Stopping
  <2> QED BY <2>2 DEF Supervisor!Next
<1>10. CASE WatchSnapshot \/ StartReset
  <2>1. UNCHANGED <<alive, gen, stop>> /\ Phase' = Phase
    BY <1>10 DEF WatchSnapshot, StartReset, Snapshot, Phase
  <2> QED BY <2>1 DEF Supervisor!vars, Stopping
<1>11. CASE WatchWake
  <2>1. UNCHANGED <<alive, gen, stop>> /\ Phase = "noticed"
        /\ Phase' = IF stop = "run" THEN "restarting" ELSE "left"
    BY <1>11 DEF WatchWake, Phase
  <2>2. Supervisor!Restarts
    BY <1>4, <2>1 DEF Supervisor!Restarts, Stopping
  <2> QED BY <2>2 DEF Supervisor!Next
<1>12. CASE StartConnect
  <2>1. gen' = gen + 1 /\ stop' = stop /\ Phase = "restarting" /\ Phase' = "greeting"
    BY <1>12 DEF StartConnect, Phase
  <2>2. ~alive[gen]
    BY <1>12 DEF StartConnect, ProcessInv
  <2>3. gen + 1 \in Gen
    BY <1>1, <1>12, BoundsAssumption DEF StartConnect, Gen
  <2>4. alive'[gen'] = TRUE
    BY <1>1, <1>12, <2>1, <2>3 DEF StartConnect
  <2>5. Supervisor!Connects
    BY <2>1, <2>2, <2>4 DEF Supervisor!Connects, Stopping
  <2> QED BY <2>5 DEF Supervisor!Next
<1>13. CASE HandshakeOk
  <2>1. Supervisor!Greets
    BY <1>13 DEF HandshakeOk, Supervisor!Greets, Phase, Stopping
  <2> QED BY <2>1 DEF Supervisor!Next
<1>14. CASE StartFail
  <2>1. UNCHANGED <<gen, stop>> /\ Phase \in {"restarting", "greeting"} /\ Phase' = "left"
    BY <1>14 DEF StartFail, Phase
  <2>2. alive'[gen] = FALSE
    BY <1>1, <1>14 DEF StartFail, ProcessInv
  <2>3. Supervisor!GivesUp
    BY <2>1, <2>2 DEF Supervisor!GivesUp, Stopping
  <2> QED BY <2>3 DEF Supervisor!Next
<1>15. CASE StopBegin
  <2>1. Supervisor!StopBegins
    BY <1>4, <1>15 DEF StopBegin, Supervisor!StopBegins, Phase, Stopping
  <2> QED BY <2>1 DEF Supervisor!Next
<1>16. CASE StopSnapshot \/ StopClose
  <2>1. UNCHANGED <<alive, gen, watch>> /\ Stopping' = Stopping
    BY <1>16 DEF StopSnapshot, StopClose, Snapshot, Stopping
  <2> QED BY <2>1 DEF Supervisor!vars, Phase
<1>17. CASE StopKill
  <2>1. UNCHANGED <<gen, watch>> /\ Stopping = "stopping" /\ Stopping' = "stopped" /\ alive'[gen] = FALSE
    BY <1>1, <1>17 DEF StopKill, Stopping
  <2>2. Supervisor!StopEnds
    BY <2>1 DEF Supervisor!StopEnds, Phase
  <2> QED BY <2>2 DEF Supervisor!Next
<1> QED
  BY <1>3, <1>5, <1>6, <1>7, <1>8, <1>9, <1>10, <1>11, <1>12, <1>13, <1>14, <1>15, <1>16, <1>17
  DEF Next, WatchStep, StopStep

\* The streams meet only such processes as module Supervision allows, which
\* PluginLifecycle implements in detail.
THEOREM ProcessesAreSupervised == Spec => ProcessesSupervised
<1>1. ASSUME Init PROVE Supervisor!Init
  <2>1. 1 \in Gen
    BY BoundsAssumption DEF Gen
  <2>2. alive[1] = TRUE
    BY <1>1, <2>1 DEF Init
  <2> QED BY <1>1, <2>2 DEF Init, Supervisor!Init, Phase, Stopping
<1>2. StreamsInv /\ [Next]_vars => [Supervisor!Next]_(Supervisor!vars)
  BY SuperviseStep DEF StreamsInv
<1> QED BY <1>1, <1>2, AllStreams, PTL DEF Spec, ProcessesSupervised, Supervisor!Spec

\* With no fault the plugin runs, and nobody fails its streams.
Quiet ==
    /\ stop = "run" /\ watch = "wait" /\ gen = 1 /\ alive[1] /\ ~closed[1]
    /\ \A a \in Actor : failing[a] = {} /\ flagged[a] = {}

\* At first.
LEMMA InitQuiet == Init => Quiet
<1>1. 1 \in Gen
  BY BoundsAssumption DEF Gen
<1> SUFFICES ASSUME Init PROVE Quiet
  OBVIOUS
<1>2. alive[1] /\ ~closed[1]
  BY <1>1 DEF Init
<1>3. \A a \in Actor : failing[a] = {} /\ flagged[a] = {}
  BY DEF Init
<1> QED BY <1>2, <1>3 DEF Init, Quiet

\* What cannot happen then.
LEMMA NoFault ==
    ASSUME Faults = {}, Quiet
    PROVE  /\ ~(\E a \in Actor : FailStep(a)) /\ ~Crash /\ ~StopBegin /\ ~WatchStep /\ ~StopStep
           /\ \A g \in 1 .. gen : g = 1 /\ ~ReadEOF(g)
<1>1. \A a \in Actor : ~FailStep(a)
  BY DEF Quiet, FailStep, FailSend, FailClose
<1>2. ~Crash /\ ~StopBegin
  BY DEF Quiet, Crash, StopBegin
<1>3. ~WatchStep
  BY DEF Quiet, WatchStep, WatchExit, WatchSnapshot, WatchWake, StartReset, StartConnect,
         HandshakeOk, StartFail
<1>4. ~StopStep
  BY DEF Quiet, StopStep, StopSnapshot, StopClose, StopKill
<1>5. \A g \in 1 .. gen : g = 1 /\ ~ReadEOF(g)
  BY DEF Quiet, ReadEOF
<1> QED BY <1>1, <1>2, <1>3, <1>4, <1>5

\* The other steps leave that so.
LEMMA NextQuiet ==
    ASSUME Faults = {}, Quiet, [Next]_vars
    PROVE  Quiet'
<1> USE DEF pluginVars, mapVars, callVars, faultVars, readVars
<1>1. CASE UNCHANGED vars
  BY <1>1 DEF vars, Quiet
<1>2. ASSUME NEW s \in Stream, CallStream(s) \/ Disconnect(s) \/ HandlerStep(s) \/ CancelStep(s)
      PROVE  Quiet'
  BY <1>2 DEF CallStream, Disconnect, HandlerStep, CallFail, RejectedReturn, OpenStream, DrainBlocks,
        Consume, RangeEnd, HandlerReturn, CancelStep, CancelCall, CancelClose, Quiet
<1>3. ASSUME NEW s \in Stream, PluginStep(s) \/ \E k \in Kind : Emit(s, k) PROVE Quiet'
  BY <1>3 DEF PluginStep, Accept, Reject, Reply, Emit, Quiet
<1>4. ASSUME NEW g \in 1 .. gen, ReaderStep(g) PROVE Quiet'
  <2>1. ~ReadEOF(g)
    BY NoFault
  <2> QED BY <1>4, <2>1 DEF ReaderStep, ReadReply, LookupMiss, LookupHit, SendEvent, CloseTerminal, Quiet
<1> QED BY <1>1, <1>2, <1>3, <1>4, NoFault DEF Next

\* With no fault every stream is untouched.
QuietInv == Quiet /\ \A s \in Stream : WholeOK(s)

\* So it is in every behaviour.
LEMMA AllQuiet == Spec => [](Faults = {} => QuietInv)
<1>1. Spec => [](Faults = {} => Quiet)
  <2>1. Init => (Faults = {} => Quiet)
    BY InitQuiet
  <2>2. (Faults = {} => Quiet) /\ [Next]_vars => (Faults = {} => Quiet)'
    BY NextQuiet
  <2> QED BY <2>1, <2>2, PTL DEF Spec
<1>2. StreamsInv /\ Quiet => QuietInv
  <2> SUFFICES ASSUME StreamsInv, Quiet, NEW s \in Stream PROVE WholeOK(s)
    BY DEF QuietInv
  <2>1. conn[s] \in Gen /\ conn[s] <= 1
    BY DEF StreamsInv, TypeOK, ChannelInv, Quiet
  <2>2. conn[s] = 1
    BY <2>1 DEF Gen
  <2>3. Untouched(s)
    BY <2>2 DEF Untouched, Spared, Quiet
  <2> QED BY <2>3 DEF StreamsInv, WholeInv
<1> QED BY <1>1, <1>2, AllStreams, PTL

\* When nothing fails, a handler whose client stayed comes to the end of its
\* stream only after a terminal event of the plugin: "ok" is then true.
THEOREM EndsHonestly == Faults = {} => (Spec => []HonestEnd)
<1> SUFFICES ASSUME Faults = {} PROVE Spec => []HonestEnd
  OBVIOUS
<1>1. StreamsInv /\ (Faults = {} => QuietInv) => HonestEnd
  BY WholeEnd DEF StreamsInv, LineInv, QuietInv, HonestEnd
<1> QED BY <1>1, AllStreams, AllQuiet, PTL

-----------------------------------------------------------------------------
(* The streams keep what StreamDelivery promises.                          *)

\* What StreamDelivery calls the place a handler is at.
OverOf(l) == IF l = "failed" THEN "refused" ELSE IF l \in {"drained", "done"} THEN "ended" ELSE "no"

Over == [s \in Stream |-> IF pc[s] = "failed" THEN "refused"
                          ELSE IF pc[s] \in {"drained", "done"} THEN "ended" ELSE "no"]

\* All that the refinement rests on.
DeliverInv == StreamsInv /\ (Faults = {} => QuietInv)

\* A handler moves.
LEMMA OverMoves ==
    ASSUME TypeOK, NEW s \in Stream, NEW l, pc' = [pc EXCEPT ![s] = l]
    PROVE  Over' = [Over EXCEPT ![s] = OverOf(l)] /\ Over[s] = OverOf(pc[s])
<1>1. \A r \in Stream : pc'[r] = IF r = s THEN l ELSE pc[r]
  BY DEF TypeOK
<1> QED BY <1>1 DEF Over, OverOf

\* What the handler takes from its channel is what may come next.
LEMMA HeadDeliverable ==
    ASSUME DeliverInv, NEW s \in Stream, buf[s] # <<>>
    PROVE  Head(buf[s]) \in Delivery!Deliverable(s)
<1> DEFINE n == Head(buf[s])
<1> DEFINE later == {k \in DOMAIN sent[s] : \A m \in Delivery!Delivered(s) : m < k}
<1>1. Delivery!Delivered(s) = Els(got[s])
  BY DEF Delivery!Delivered, Els
<1>2. buf[s] \in Seq(Nat) /\ Els(got[s]) \subseteq Nat /\ Els(buf[s]) \subseteq Nat /\ Len(sent[s]) \in Nat
      /\ DOMAIN sent[s] = 1 .. Len(sent[s])
  BY LineTypes, LenProperties DEF DeliverInv, StreamsInv
<1>3. /\ LineOK(s) /\ Ordered(buf[s])
  BY DEF DeliverInv, StreamsInv, LineInv, LineOK
<1>4. /\ Els(buf[s]) = {n} \cup Els(Tail(buf[s])) /\ \A m \in Els(Tail(buf[s])) : m = 0 \/ n < m
  BY <1>2, <1>3, ElsTail
<1> HIDE DEF n
<1>5. n \in Nat /\ n \in Line(s) /\ n <= Len(sent[s]) /\ \A m \in Els(got[s]) : n = 0 \/ m < n
  BY <1>2, <1>3, <1>4 DEF LineOK, Line
<1>6. n = 0 \/ n \in later
  BY <1>1, <1>2, <1>5
<1>7. CASE Faults # {}
  BY <1>6, <1>7 DEF Delivery!Deliverable, n
<1>8. CASE Faults = {}
  <2>1. n >= 1 /\ 1 .. n \subseteq Line(s) /\ \A m \in Line(s) : m >= 1
    BY <1>5, <1>8 DEF DeliverInv, QuietInv, WholeOK
  <2>2. \A m \in later : n <= m
    <3> SUFFICES ASSUME NEW m \in later, m < n PROVE FALSE
      BY <1>2, <1>5
    <3>1. m \in 1 .. n /\ m \notin Els(got[s])
      BY <1>1, <1>2, <1>5
    <3>2. m \in Els(buf[s]) /\ m >= 1
      BY <2>1, <3>1 DEF Line
    <3> QED BY <1>2, <1>4, <1>5, <3>2
  <2> QED BY <1>6, <1>8, <2>1, <2>2 DEF Delivery!Deliverable, n
<1> QED BY <1>7, <1>8

\* At first.
LEMMA DeliverInit == Init => Delivery!Init
BY DEF Init, Delivery!Init

\* Each step is one of the specification or is not seen by it.
LEMMA DeliverStep ==
    ASSUME DeliverInv, [Next]_vars
    PROVE  [Delivery!Next]_(Delivery!vars)
<1> USE DEF pluginVars, mapVars, callVars, faultVars, readVars
<1>0. /\ pc \in [Stream -> {"idle", "calling", "answered", "stuck", "reading",
                            "drained", "done", "failed"}]
      /\ got \in [Stream -> Seq(Nat)] /\ gone \in [Stream -> BOOLEAN] /\ TypeOK
      /\ WireInv /\ ChannelInv /\ \A s \in Stream : LineOK(s)
  BY DEF DeliverInv, StreamsInv, TypeOK, LineInv
<1>1. ASSUME UNCHANGED <<sent, got, gone>>, Over' = Over
      PROVE  UNCHANGED Delivery!vars
  BY <1>1 DEF Delivery!vars, Over
<1>2. ASSUME NEW s \in Stream, NEW l, pc' = [pc EXCEPT ![s] = l], UNCHANGED <<sent, got, gone>>,
             OverOf(l) = OverOf(pc[s])
      PROVE  UNCHANGED Delivery!vars
  <2>1. Over' = Over
    <3>1. Over' = [Over EXCEPT ![s] = Over[s]]
      BY <1>0, <1>2, OverMoves
    <3>2. Over = [Over EXCEPT ![s] = Over[s]]
      BY DEF Over
    <3> QED BY <3>1, <3>2
  <2> QED BY <1>1, <1>2, <2>1
<1>3. ASSUME NEW s \in Stream, pc' = [pc EXCEPT ![s] = "failed"], UNCHANGED <<sent, got, gone>>,
             pc[s] \in {"idle", "calling", "answered"}, Faults # {} \/ gone[s] \/ sent[s] = <<>>
      PROVE  Delivery!Next
  <2>1. got[s] = <<>>
    BY <1>0, <1>3 DEF LineOK, Before
  <2>2. Over' = [Over EXCEPT ![s] = "refused"] /\ Over[s] = "no"
    BY <1>0, <1>3, OverMoves DEF OverOf
  <2>3. Delivery!Refuse(s)
    BY <1>3, <2>1, <2>2 DEF Over, Delivery!Refuse
  <2> QED BY <2>3 DEF Delivery!Next
<1>4. ASSUME NEW s \in Stream, CallStream(s) \/ Disconnect(s) \/ HandlerStep(s) \/ CancelStep(s)
      PROVE  Delivery!Next \/ UNCHANGED Delivery!vars
  <2>1. CASE CallStream(s)
    <3>1. pc[s] = "idle" /\ UNCHANGED <<sent, got, gone>>
      BY <2>1 DEF CallStream
    <3>2. sent[s] = <<>>
      BY <1>0, <3>1 DEF WireInv
    <3>3. CASE closed[gen]
      BY <1>3, <2>1, <3>1, <3>2, <3>3 DEF CallStream
    <3>4. CASE ~closed[gen]
      BY <1>2, <2>1, <3>1, <3>4 DEF CallStream, OverOf
    <3> QED BY <3>3, <3>4
  <2>2. CASE CallFail(s)
    <3>1. Faults = {} => gone[s]
      <4> SUFFICES ASSUME Faults = {} PROVE ~closed[conn[s]]
        BY <2>2 DEF CallFail
      <4>1. conn[s] \in Gen /\ conn[s] <= 1
        BY <1>0 DEF TypeOK, ChannelInv, DeliverInv, QuietInv, Quiet
      <4>2. conn[s] = 1
        BY <4>1 DEF Gen
      <4> QED BY <4>2 DEF DeliverInv, QuietInv, Quiet
    <3> QED BY <1>3, <2>2, <3>1 DEF CallFail
  <2>3. CASE RejectedReturn(s)
    <3>1. sent[s] = <<>>
      BY <1>0, <2>3 DEF WireInv, RejectedReturn
    <3> QED BY <1>3, <2>3, <3>1 DEF RejectedReturn
  <2>4. CASE OpenStream(s) \/ DrainBlocks(s)
    BY <1>2, <2>4 DEF OpenStream, DrainBlocks, OverOf
  <2>5. CASE HandlerReturn(s)
    BY <1>2, <2>5 DEF HandlerReturn, OverOf
  <2>6. CASE Consume(s)
    <3>1. Head(buf[s]) \in Delivery!Deliverable(s)
      BY <2>6, HeadDeliverable DEF Consume
    <3>2. got' = [got EXCEPT ![s] = Append(@, Head(buf[s]))] /\ UNCHANGED <<sent, gone, pc>> /\ pc[s] = "reading"
      BY <2>6 DEF Consume
    <3>3. Delivery!Deliver(s)
      BY <3>1, <3>2 DEF Delivery!Deliver
    <3> QED BY <3>3 DEF Delivery!Next
  <2>7. CASE RangeEnd(s)
    <3>1. /\ pc' = [pc EXCEPT ![s] = "drained"] /\ UNCHANGED <<sent, got, gone>>
          /\ pc[s] = "reading" /\ buf[s] = <<>> /\ chan[s] = "closed"
      BY <2>7 DEF RangeEnd
    <3>2. Over' = [Over EXCEPT ![s] = "ended"] /\ Over[s] = "no"
      BY <1>0, <3>1, OverMoves DEF OverOf
    <3>3. Faults # {} \/ gone[s] \/ \E n \in Delivery!Delivered(s) : Delivery!Terminal(s, n)
      <4> SUFFICES ASSUME Faults = {}, ~gone[s]
                   PROVE  \E n \in Delivery!Delivered(s) : Delivery!Terminal(s, n)
        OBVIOUS
      <4>1. PICK n \in Line(s) : IsTerminal(s, n)
        BY <3>1 DEF DeliverInv, QuietInv, WholeOK
      <4>2. n \in Delivery!Delivered(s)
        BY <3>1, ElsEmpty DEF Line, Els, Delivery!Delivered
      <4> QED BY <4>1, <4>2 DEF IsTerminal, Delivery!Terminal
    <3>4. Delivery!End(s)
      BY <3>1, <3>2, <3>3 DEF Over, Delivery!End
    <3> QED BY <3>4 DEF Delivery!Next
  <2>8. CASE Disconnect(s)
    <3>1. Delivery!Leave(s)
      BY <2>8 DEF Disconnect, Delivery!Leave
    <3> QED BY <3>1 DEF Delivery!Next
  <2>9. CASE CancelStep(s)
    BY <1>1, <2>9 DEF CancelStep, CancelCall, CancelClose, Over
  <2> QED BY <1>4, <2>1, <2>2, <2>3, <2>4, <2>5, <2>6, <2>7, <2>8, <2>9 DEF HandlerStep
<1>5. ASSUME NEW s \in Stream, NEW k \in Kind, Emit(s, k) PROVE Delivery!Next
  <2>1. sent' = [sent EXCEPT ![s] = Append(@, k)] /\ UNCHANGED <<got, gone, pc>>
    BY <1>5 DEF Emit
  <2>2. Delivery!Emit(s)
    BY <2>1 DEF Delivery!Emit, Kind
  <2> QED BY <2>2 DEF Delivery!Next
<1>6. ASSUME NEW g \in 1 .. gen, ReaderStep(g) PROVE UNCHANGED Delivery!vars
  <2>1. CASE ReadReply(g)
    <3>1. PICK s \in Stream : s = Head(wire[g]).id
      <4>1. g \in Gen
        BY <1>0 DEF TypeOK, Gen
      <4> QED BY <1>0, <2>1, <4>1, HeadMessage DEF ReadReply
    <3>2. CASE pc[s] = "calling"
      BY <1>2, <2>1, <3>1, <3>2 DEF ReadReply, OverOf
    <3>3. CASE pc[s] # "calling"
      BY <1>1, <2>1, <3>1, <3>3 DEF ReadReply, Over
    <3> QED BY <3>2, <3>3
  <2>2. CASE ~ReadReply(g)
    BY <1>1, <1>6, <2>2 DEF ReaderStep, LookupMiss, LookupHit, SendEvent, CloseTerminal, ReadEOF, Over
  <2> QED BY <2>1, <2>2
<1>7. ASSUME UNCHANGED <<sent, got, gone, pc>> PROVE UNCHANGED Delivery!vars
  BY <1>1, <1>7 DEF Over
<1>8. (\E s \in Stream : PluginStep(s)) \/ UNCHANGED vars => UNCHANGED <<sent, got, gone, pc>>
  BY DEF PluginStep, Accept, Reject, Reply, vars
<1>9. (\E a \in Actor : FailStep(a)) \/ Crash \/ StopBegin \/ WatchStep \/ StopStep
         => UNCHANGED <<sent, got, gone, pc>>
  BY DEF FailStep, FailSend, FailClose, Crash, StopBegin, WatchStep, WatchExit, WatchSnapshot,
         WatchWake, StartReset, StartConnect, HandshakeOk, StartFail, StopStep, StopSnapshot,
         StopClose, StopKill, Snapshot
<1> QED BY <1>4, <1>5, <1>6, <1>7, <1>8, <1>9 DEF Next

\* For any streams, capacities, processes and faults, a handler receives the
\* events in the order they were emitted, none twice, none lost without a fault,
\* and its stream ends once: the streams implement StreamDelivery.
THEOREM StreamsDeliver == Spec => Promised
<1>1. StreamsInv /\ (Faults = {} => QuietInv) => DeliverInv
  BY DEF DeliverInv
<1>2. DeliverInv /\ [Next]_vars => [Delivery!Next]_(Delivery!vars)
  BY DeliverStep
<1> QED BY <1>1, <1>2, AllStreams, AllQuiet, DeliverInit, PTL DEF Spec, Promised, Delivery!Spec

=============================================================================
