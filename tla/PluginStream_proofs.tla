------------------------- MODULE PluginStream_proofs -------------------------
(***************************************************************************)
(* Proofs about PluginStream for any set of streams, any channel and       *)
(* socket capacity and bodies of any length.                               *)
(***************************************************************************)
EXTENDS PluginStream, SequenceTheorems, TLAPS

-----------------------------------------------------------------------------
(* Sequences of messages.                                                  *)

\* k occurs in q.
Has(q, k) == \E i \in DOMAIN q : q[i] = k

\* Nothing follows a stream_end.
EndLast(q) == \A i \in DOMAIN q : q[i] = "end" => i = Len(q)

\* The empty sequence has nothing.
LEMMA HasEmpty == EndLast(<<>>) /\ \A k : ~Has(<<>>, k)
BY DEF EndLast, Has

\* What a sequence of one element has.
LEMMA HasOne ==
    ASSUME NEW x
    PROVE  /\ <<x>> # <<>> /\ Head(<<x>>) = x /\ EndLast(<<x>>)
           /\ \A k : Has(<<x>>, k) <=> x = k
BY DEF EndLast, Has

\* What a sequence has after Append.
LEMMA HasAppend ==
    ASSUME NEW S, NEW q \in Seq(S), NEW x \in S
    PROVE  /\ Append(q, x) \in Seq(S) /\ Append(q, x) # <<>>
           /\ Len(Append(q, x)) = Len(q) + 1
           /\ \A k : Has(Append(q, x), k) <=> Has(q, k) \/ x = k
           /\ ~Has(q, "end") => EndLast(Append(q, x))
<1> DEFINE r == Append(q, x)
<1>1. /\ r \in Seq(S) /\ r # <<>> /\ Len(r) = Len(q) + 1
      /\ \A i \in 1 .. Len(q) : r[i] = q[i]
      /\ r[Len(q) + 1] = x
      /\ DOMAIN r = 1 .. Len(q) + 1 /\ DOMAIN q = 1 .. Len(q) /\ Len(q) \in Nat
  BY AppendProperties, LenProperties
<1> HIDE DEF r
<1>2. ASSUME NEW k PROVE Has(r, k) <=> Has(q, k) \/ x = k
  BY <1>1 DEF Has
<1>3. ~Has(q, "end") => EndLast(r)
  BY <1>1 DEF Has, EndLast
<1> QED BY <1>1, <1>2, <1>3 DEF r

\* What a sequence has, by its head and its tail.
LEMMA HasTail ==
    ASSUME NEW S, NEW q \in Seq(S), q # <<>>
    PROVE  /\ Head(q) \in S /\ Tail(q) \in Seq(S) /\ Len(Tail(q)) = Len(q) - 1
           /\ \A k : Has(q, k) <=> Has(Tail(q), k) \/ Head(q) = k
           /\ EndLast(q) => EndLast(Tail(q)) /\ (Head(q) = "end" => Tail(q) = <<>>)
<1> DEFINE r == Tail(q)
<1>1. /\ Head(q) \in S /\ r \in Seq(S) /\ Len(r) = Len(q) - 1
      /\ \A i \in 1 .. Len(r) : r[i] = q[i + 1]
      /\ DOMAIN r = 1 .. Len(r) /\ DOMAIN q = 1 .. Len(q)
      /\ Len(q) \in Nat /\ Len(q) > 0
  BY HeadTailProperties, LenProperties, EmptySeq
<1>2. Head(q) = q[1]
  OBVIOUS
<1> HIDE DEF r
<1>3. Len(r) = 0 => r = <<>>
  BY <1>1, EmptySeq
<1>4. ASSUME NEW k PROVE Has(q, k) <=> Has(r, k) \/ Head(q) = k
  <2>1. ASSUME Has(q, k) PROVE Has(r, k) \/ Head(q) = k
    <3>1. PICK i \in 1 .. Len(q) : q[i] = k
      BY <1>1, <2>1 DEF Has
    <3>2. CASE i = 1
      BY <3>1, <3>2, <1>2
    <3>3. CASE i # 1
      <4>1. i - 1 \in 1 .. Len(r) /\ r[i - 1] = k
        BY <3>1, <3>3, <1>1
      <4> QED BY <4>1, <1>1 DEF Has
    <3> QED BY <3>2, <3>3
  <2>2. Head(q) = k => Has(q, k)
    BY <1>1, <1>2 DEF Has
  <2>3. ASSUME NEW i \in 1 .. Len(r), r[i] = k PROVE Has(q, k)
    BY <1>1, <2>3, i + 1 \in 1 .. Len(q), q[i + 1] = k DEF Has
  <2> QED BY <2>1, <2>2, <2>3, <1>1 DEF Has
<1>5. EndLast(q) => EndLast(r) /\ (Head(q) = "end" => r = <<>>)
  BY <1>1, <1>2, <1>3 DEF EndLast
<1> QED BY <1>1, <1>4, <1>5 DEF r

\* The order of AuditsInTime, of one stream's messages.
InTime(q) ==
    \A i, j \in DOMAIN q :
        /\ q[i] = "end" /\ i < j => q[j] = "reply"
        /\ q[i] \in {"reply", "refusal"} /\ q[j] \in {"request", "response"} => j < i

\* It is kept by a message that may come now.
LEMMA InTimeAppend ==
    ASSUME NEW S, NEW q \in Seq(S), NEW x \in S, InTime(q),
           Has(q, "end") => x = "reply",
           x \in {"request", "response"} => ~Has(q, "reply") /\ ~Has(q, "refusal")
    PROVE  InTime(Append(q, x))
<1> DEFINE r == Append(q, x)
<1>1. /\ \A i \in 1 .. Len(q) : r[i] = q[i]
      /\ r[Len(q) + 1] = x
      /\ DOMAIN r = 1 .. Len(q) + 1 /\ DOMAIN q = 1 .. Len(q) /\ Len(q) \in Nat
  BY AppendProperties, LenProperties
<1> HIDE DEF r
<1> SUFFICES ASSUME NEW i \in DOMAIN r, NEW j \in DOMAIN r
             PROVE  /\ r[i] = "end" /\ i < j => r[j] = "reply"
                    /\ r[i] \in {"reply", "refusal"} /\ r[j] \in {"request", "response"} => j < i
  BY DEF InTime, r
<1>2. CASE i \in DOMAIN q /\ j \in DOMAIN q
  BY <1>1, <1>2 DEF InTime
<1>3. CASE i = Len(q) + 1
  BY <1>1, <1>3
<1>4. CASE i \in DOMAIN q /\ j = Len(q) + 1
  BY <1>1, <1>4 DEF Has
<1> QED BY <1>1, <1>2, <1>3, <1>4

-----------------------------------------------------------------------------
(* Type correctness.                                                       *)

Kinds    == {"data", "error", "end"}
Messages == Audits \cup Events \cup {"reply", "refusal"}

\* Initially every variable has its type.
LEMMA InitTypeOK == Init => TypeOK
BY EmptySeq, CapAssumption, LenProperties DEF Init, TypeOK

\* A message written leaves the history and the socket what they are.
LEMMA SayTypes ==
    ASSUME TypeOK, NEW s \in Stream, NEW x \in Messages, Say(s, x)
    PROVE  /\ wire' \in 0 .. SockCap
           /\ said' \in [Stream -> Seq(Messages)]
<1>1. wire \in 0 .. SockCap /\ said \in [Stream -> Seq(Messages)]
  BY DEF TypeOK, Messages
<1>2. Append(said[s], x) \in Seq(Messages)
  BY <1>1, HasAppend
<1> QED BY <1>1, <1>2, CapAssumption DEF Say

\* The steps of the goroutine that serves the request.
LEMMA ServingTypeOK ==
    ASSUME TypeOK, NEW s \in Stream, Register(s) \/ HostCancels(s) \/ Serving(s)
    PROVE  TypeOK'
<1> USE DEF TypeOK, Goto, ctxVars, bodyVars, prodVars, chanVars, fwdVars, outVars
<1>1. CASE Register(s) BY <1>1 DEF Register
<1>2. CASE HostCancels(s) BY <1>2 DEF HostCancels
<1>3. CASE BuildFails(s) BY <1>3 DEF BuildFails
<1>4. CASE AuditRequest(s) BY <1>4, SayTypes DEF AuditRequest, Messages, Audits
<1>5. CASE Do(s) BY <1>5, SMTT(20) DEF Do
<1>6. CASE AuditFailure(s) BY <1>6, SayTypes DEF AuditFailure, Messages, Audits
<1>7. CASE Refuse(s) BY <1>7 DEF Refuse
<1>8. CASE WriteRefusal(s) BY <1>8, SayTypes DEF WriteRefusal, Messages
<1>9. CASE AuditResponse(s)
  <2>1. <<"started", "start">> \in Seq(Audits \cup Events)
    BY DEF Audits, Events
  <2> QED BY <1>9, <2>1, SayTypes DEF AuditResponse, Messages, Audits
<1>10. CASE Forward(s) BY <1>10 DEF Forward
<1>11. CASE WriteReply(s) BY <1>11, SayTypes DEF WriteReply, Messages
<1> QED BY <1>1, <1>2, <1>3, <1>4, <1>5, <1>6, <1>7, <1>8, <1>9, <1>10, <1>11 DEF Serving

\* What the producer may have to do is done one by one.
LEMMA PerformTypeOK ==
    ASSUME TypeOK, NEW s \in Stream, Perform(s)
    PROVE  TypeOK'
<1>1. todo[s] \in Seq(Audits \cup Events) /\ ch[s] \in Seq(Events) /\ Len(ch[s]) <= ChCap
  BY DEF TypeOK
<1>2. Head(todo[s]) \in Audits \cup Events /\ Tail(todo[s]) \in Seq(Audits \cup Events)
  BY <1>1, HasTail DEF Perform
<1>3. /\ todo' = [todo EXCEPT ![s] = Tail(@)]
      /\ UNCHANGED <<streams, ctx, serve, prod, lines, first, usage, body, open, fwd, held, ended, cancel>>
  BY DEF Perform, ctxVars, bodyVars, fwdVars
<1>4. CASE Head(todo[s]) \in Audits
  <2>1. Say(s, Head(todo[s])) /\ UNCHANGED <<ch, sent>>
    BY <1>4 DEF Perform
  <2> QED BY <1>2, <1>3, <1>4, <2>1, SayTypes DEF TypeOK, Messages
<1>5. CASE Head(todo[s]) \notin Audits
  <2>1. /\ Len(ch[s]) < ChCap /\ ch' = [ch EXCEPT ![s] = Append(@, Head(todo[s]))]
        /\ UNCHANGED <<wire, said, sent>>
    BY <1>5 DEF Perform, outVars
  <2>2. /\ Append(ch[s], Head(todo[s])) \in Seq(Events)
        /\ Len(Append(ch[s], Head(todo[s]))) = Len(ch[s]) + 1
    BY <1>1, <1>2, <1>5, HasAppend
  <2>3. Len(ch[s]) \in Nat /\ ChCap \in Nat
    BY <1>1, LenProperties, CapAssumption
  <2>4. ch' \in [Stream -> Seq(Events)] /\ \A r \in Stream : Len(ch'[r]) <= ChCap
    BY <1>1, <2>1, <2>2, <2>3, SMTT(20) DEF TypeOK
  <2> QED BY <1>2, <1>3, <2>1, <2>4 DEF TypeOK
<1> QED BY <1>4, <1>5

\* What Finish and ScanChunk leave the producer to do.
LEMMA TodoTypes ==
    /\ \A s : Ending(s) \in Seq(Audits \cup Events)
    /\ <<>> \in Seq(Audits \cup Events) /\ <<"error">> \in Seq(Audits \cup Events)
    /\ <<"text">> \in Seq(Audits \cup Events) /\ <<"first", "text">> \in Seq(Audits \cup Events)
<1>1. /\ <<"usage", "finished", "end">> \in Seq(Audits \cup Events)
      /\ <<"finished", "end">> \in Seq(Audits \cup Events)
  BY DEF Audits, Events
<1>2. \A s : Ending(s) \in Seq(Audits \cup Events)
  BY <1>1, Zenon DEF Ending
<1>3. /\ <<"error">> \in Seq(Audits \cup Events) /\ <<"text">> \in Seq(Audits \cup Events)
      /\ <<"first", "text">> \in Seq(Audits \cup Events)
  BY DEF Audits, Events
<1>4. <<>> \in Seq(Audits \cup Events)
  BY EmptySeq
<1> QED BY <1>2, <1>3, <1>4, Zenon

\* Leaving the loop.
LEMMA FinishTypeOK ==
    ASSUME TypeOK, NEW s \in Stream,
           NEW how \in {"done", "eof", "bad", "cut", "cancelled"},
           NEW rest \in Seq(Audits \cup Events),
           Finish(s, how, rest),
           UNCHANGED <<streams, ctx, serve, lines, first, usage, ch, open, fwd, held, ended,
                       cancel, wire, said, sent>>
    PROVE  TypeOK'
BY DEF TypeOK, Finish

\* The other steps of the producer.
LEMMA ProducerTypeOK ==
    ASSUME TypeOK, NEW s \in Stream, Upstream(s) \/ ScanCancelled(s) \/ ScanCut(s) \/ Producing(s)
    PROVE  TypeOK'
<1> USE DEF ctxVars, bodyVars, chanVars, fwdVars, outVars
<1>1. ASSUME NEW event \in {"text", "error"}, ScanChunk(s, event) PROVE TypeOK'
  <2>1. PICK now \in Seq(Audits \cup Events) : todo' = [todo EXCEPT ![s] = now]
    <3>1. CASE event = "text" /\ first[s]
      <4>1. todo' = [todo EXCEPT ![s] = <<"first", "text">>]
        BY <1>1, <3>1 DEF ScanChunk
      <4> QED BY <4>1, TodoTypes, Zenon
    <3>2. CASE ~(event = "text" /\ first[s])
      <4>1. todo' = [todo EXCEPT ![s] = <<event>>]
        BY <1>1, <3>2 DEF ScanChunk
      <4> QED BY <4>1, TodoTypes, Zenon
    <3> QED BY <3>1, <3>2
  <2>2. /\ lines' = [lines EXCEPT ![s] = @ + 1]
        /\ first' = [first EXCEPT ![s] = @ /\ event # "text"]
        /\ UNCHANGED <<streams, ctx, serve, prod, usage, body, ch, open, fwd, held, ended,
                       cancel, wire, said, sent>>
    BY <1>1 DEF ScanChunk
  <2>3. first' \in [Stream -> BOOLEAN]
    BY <2>2, Zenon DEF TypeOK
  <2>4. lines' \in [Stream -> Nat] /\ todo' \in [Stream -> Seq(Audits \cup Events)]
    BY <2>1, <2>2 DEF TypeOK
  <2> QED BY <2>2, <2>3, <2>4 DEF TypeOK
<1>2. CASE ScanUsage(s)
  <2>1. usage' \in [Stream -> BOOLEAN] /\ lines' \in [Stream -> Nat]
    BY <1>2 DEF ScanUsage, TypeOK
  <2> QED BY <1>2, <2>1 DEF ScanUsage, TypeOK
<1>3. CASE ScanBad(s) BY <1>3, TodoTypes, FinishTypeOK DEF ScanBad
<1>4. ASSUME NEW how \in {"done", "eof"}, ScanEnd(s, how) PROVE TypeOK'
  BY <1>4, TodoTypes, FinishTypeOK DEF ScanEnd
<1>5. CASE ScanCancelled(s) BY <1>5, TodoTypes, FinishTypeOK DEF ScanCancelled
<1>6. CASE ScanCut(s) BY <1>6 DEF ScanCut, TypeOK
<1>7. CASE CutSeen(s)
  <2>1. CASE ctx[s] BY <1>7, <2>1, TodoTypes, FinishTypeOK DEF CutSeen
  <2>2. CASE ~ctx[s] BY <1>7, <2>2, TodoTypes, FinishTypeOK DEF CutSeen
  <2> QED BY <2>1, <2>2
<1>8. CASE Leave(s) BY <1>8 DEF Leave, TypeOK
<1> QED BY <1>1, <1>2, <1>3, <1>4, <1>5, <1>6, <1>7, <1>8, PerformTypeOK DEF Upstream, Producing

\* forwardStream, completion.cancel and the host's reader.
LEMMA ForwardingTypeOK ==
    ASSUME TypeOK, NEW s \in Stream, Forwarding(s) \/ Cancelling(s)
    PROVE  TypeOK'
<1> USE DEF TypeOK, ctxVars, bodyVars, prodVars, chanVars, fwdVars, outVars
<1>1. CASE Receive(s)
  <2>1. ch[s] \in Seq(Events) /\ ch[s] # <<>> /\ Len(ch[s]) <= ChCap
    BY <1>1 DEF Receive
  <2>2. /\ Head(ch[s]) \in Events /\ Tail(ch[s]) \in Seq(Events)
        /\ Len(Tail(ch[s])) <= ChCap
    BY <2>1, HasTail, LenProperties, CapAssumption
  <2>3. <<Head(ch[s])>> \in Seq(Events)
    BY <2>2
  <2>4. (ended[s] \/ Head(ch[s]) \in {"error", "end"}) \in BOOLEAN
    OBVIOUS
  <2> QED BY <1>1, <2>2, <2>3, <2>4 DEF Receive
<1>2. CASE NotifyEvent(s)
  <2>1. Head(held[s]) \in Messages
    BY <1>2, HasTail DEF NotifyEvent, Messages
  <2>2. KindOf(Head(held[s])) \in Kinds
    BY DEF KindOf, Kinds
  <2>3. Append(sent[s], KindOf(Head(held[s]))) \in Seq(Kinds)
    BY <2>2, HasAppend DEF Kinds
  <2>4. <<>> \in Seq(Events)
    BY EmptySeq
  <2> QED BY <1>2, <2>1, <2>3, <2>4, SayTypes DEF NotifyEvent, Messages, Kinds
<1>3. CASE RangeEnds(s)
  <2>1. <<"end">> \in Seq(Events) /\ <<>> \in Seq(Events)
    BY DEF Events
  <2> QED BY <1>3, <2>1 DEF RangeEnds
<1>4. CASE CleanUp(s) BY <1>4 DEF CleanUp
<1>5. CASE CancelLookup(s) BY <1>5 DEF CancelLookup
<1>6. CASE CancelCall(s) BY <1>6 DEF CancelCall
<1>7. CASE CancelReply(s) BY <1>7, CapAssumption, SMTT(20) DEF CancelReply
<1> QED BY <1>1, <1>2, <1>3, <1>4, <1>5, <1>6, <1>7 DEF Forwarding, Cancelling

\* Every step keeps the types.
LEMMA NextTypeOK == TypeOK /\ [Next]_vars => TypeOK'
<1> SUFFICES ASSUME TypeOK, [Next]_vars PROVE TypeOK'
  OBVIOUS
<1>1. CASE HostReads
  BY <1>1, CapAssumption DEF HostReads, TypeOK, ctxVars, prodVars, chanVars, fwdVars
<1>2. CASE UNCHANGED vars
  BY <1>2 DEF vars, TypeOK
<1> QED BY <1>1, <1>2, ServingTypeOK, ProducerTypeOK, ForwardingTypeOK DEF Next

\* Type correctness; the producer never exceeds the capacity of its channel.
THEOREM TypeCorrect == Spec => []TypeOK
BY InitTypeOK, NextTypeOK, PTL DEF Spec

-----------------------------------------------------------------------------
(* A stream_end is the last message, and who is where around it.           *)

\* Requests whose stream the producer has accepted.
Accepted == {"streaming", "replying", "replied"}

\* The producer has nothing more to say.
Silent(s) == todo[s] = <<>> /\ prod[s] \in {"leave", "done"}

\* forwardStream has seen the producer's end, or has made one up.
Over(s) == ended[s] \/ fwd[s] \in {"clean", "done"}

\* An end is in one place at a time, and where it is nothing is left to come: what
\* the producer has to do, its channel, forwardStream's hand, or what was sent.
EndInv(s) ==
    /\ todo[s] \in Seq({"started", "first", "finished"} \cup Events)
    /\ EndLast(todo[s]) /\ EndLast(ch[s])
    /\ prod[s] \notin {"scan", "leave"} => todo[s] = <<>>
    /\ Has(todo[s], "end") => prod[s] = "leave"
    /\ Has(ch[s], "end") => Silent(s)
    /\ held[s] = <<>> \/ \E e \in Events : held[s] = <<e>>
    /\ held[s] = <<"end">> => Silent(s) /\ ch[s] = <<>> /\ Over(s)
    /\ Has(sent[s], "end") => Silent(s) /\ ch[s] = <<>> /\ held[s] = <<>> /\ Over(s)
    /\ open[s] <=> prod[s] # "done"
    /\ fwd[s] \in {"clean", "done"} => ~open[s] /\ ch[s] = <<>>
    /\ fwd[s] \in {"none", "done"} => held[s] = <<>>
    /\ fwd[s] # "none" => serve[s] \in {"replying", "replied"}
    /\ serve[s] \notin Accepted => prod[s] = "none"

\* So it is for every stream.
EndInvs == \A s \in Stream : EndInv(s)

\* The variables EndInv speaks of, of one stream.
SameStream(s) ==
    /\ todo'[s] = todo[s] /\ ch'[s] = ch[s] /\ prod'[s] = prod[s] /\ held'[s] = held[s]
    /\ sent'[s] = sent[s] /\ open'[s] = open[s] /\ fwd'[s] = fwd[s] /\ serve'[s] = serve[s]
    /\ ended'[s] = ended[s]

\* A step on other streams disturbs nothing.
LEMMA EndFrame == \A s : EndInv(s) /\ SameStream(s) => EndInv(s)'
BY DEF EndInv, SameStream, Silent, Over

\* Initially.
LEMMA InitEndInv == Init => EndInvs
<1> SUFFICES ASSUME Init, NEW s \in Stream PROVE EndInv(s)
  BY DEF EndInvs
<1>1. <<>> \in Seq({"started", "first", "finished"} \cup Events)
  BY EmptySeq
<1> QED BY <1>1, HasEmpty DEF Init, EndInv, Accepted, Silent, Over

\* The goroutine that serves the request.
LEMMA ServingEndInv ==
    ASSUME TypeOK, NEW s \in Stream, EndInv(s), Register(s) \/ HostCancels(s) \/ Serving(s)
    PROVE  EndInv(s)' /\ \A r \in Stream \ {s} : SameStream(r)
<1> USE DEF Goto, Accepted, ctxVars, bodyVars, prodVars, chanVars, fwdVars, outVars
<1>1. serve \in [Stream -> {"idle", "registered", "doing", "failed", "denied", "ok",
                             "refused", "refusing", "rejected", "streaming", "replying", "replied"}]
      /\ DOMAIN prod = Stream /\ DOMAIN todo = Stream /\ DOMAIN fwd = Stream
  BY DEF TypeOK
<1>2. CASE AuditResponse(s)
  <2>1. /\ serve[s] = "ok" /\ serve' = [serve EXCEPT ![s] = "streaming"]
        /\ prod' = [prod EXCEPT ![s] = "scan"]
        /\ todo' = [todo EXCEPT ![s] = <<"started", "start">>]
        /\ UNCHANGED <<ch, open, fwd, held, ended, sent>>
    BY <1>2 DEF AuditResponse
  <2>2. /\ <<"started", "start">> \in Seq({"started", "first", "finished"} \cup Events)
        /\ EndLast(<<"started", "start">>) /\ ~Has(<<"started", "start">>, "end")
    BY DEF Events, EndLast, Has
  <2>3. /\ todo'[s] = <<"started", "start">> /\ prod'[s] = "scan" /\ serve'[s] = "streaming"
        /\ prod[s] = "none"
    BY <1>1, <2>1 DEF EndInv
  <2>4. EndInv(s)'
    BY <2>1, <2>2, <2>3 DEF EndInv, Silent, Over
  <2> QED BY <1>1, <2>1, <2>4 DEF SameStream
<1>3. CASE Forward(s)
  <2>1. /\ serve[s] = "streaming" /\ serve' = [serve EXCEPT ![s] = "replying"]
        /\ fwd' = [fwd EXCEPT ![s] = "range"]
        /\ UNCHANGED <<prod, todo, ch, open, held, ended, sent>>
    BY <1>3 DEF Forward
  <2>2. /\ serve'[s] = "replying" /\ fwd'[s] = "range" /\ fwd[s] = "none"
    BY <1>1, <2>1 DEF EndInv
  <2>3. EndInv(s)'
    BY <2>1, <2>2 DEF EndInv, Silent, Over
  <2> QED BY <1>1, <2>1, <2>3 DEF SameStream
<1>4. ASSUME \A r \in Stream \ {s} : serve'[r] = serve[r],
             serve'[s] \notin Accepted => serve[s] \notin Accepted,
             serve'[s] \in Accepted => serve'[s] = "replied" /\ serve[s] = "replying",
             UNCHANGED <<prod, todo, ch, open, fwd, held, ended, sent>>
      PROVE  EndInv(s)' /\ \A r \in Stream \ {s} : SameStream(r)
  <2>1. EndInv(s)'
    BY <1>4 DEF EndInv, Silent, Over
  <2> QED BY <1>4, <2>1 DEF SameStream
<1>5. CASE Register(s) BY <1>5, <1>1, <1>4 DEF Register
<1>6. CASE HostCancels(s) BY <1>6 DEF HostCancels, EndInv, Silent, Over, SameStream
<1>7. CASE BuildFails(s) BY <1>7, <1>1, <1>4 DEF BuildFails
<1>8. CASE AuditRequest(s) BY <1>8, <1>1, <1>4 DEF AuditRequest
<1>9. CASE Do(s) BY <1>9, <1>1, <1>4 DEF Do
<1>10. CASE AuditFailure(s) BY <1>10, <1>1, <1>4 DEF AuditFailure
<1>11. CASE Refuse(s) BY <1>11, <1>1, <1>4 DEF Refuse
<1>12. CASE WriteRefusal(s) BY <1>12, <1>1, <1>4 DEF WriteRefusal
<1>13. CASE WriteReply(s) BY <1>13, <1>1, <1>4 DEF WriteReply
<1> QED BY <1>2, <1>3, <1>5, <1>6, <1>7, <1>8, <1>9, <1>10, <1>11, <1>12, <1>13 DEF Serving

\* What the producer is left to do ends with stream_end, if it has one.
LEMMA RestEnds ==
    /\ \A s : /\ Ending(s) \in Seq({"started", "first", "finished"} \cup Events)
             /\ EndLast(Ending(s))
    /\ \A q \in {<<>>, <<"error">>, <<"text">>, <<"first", "text">>} :
          /\ q \in Seq({"started", "first", "finished"} \cup Events)
          /\ EndLast(q) /\ ~Has(q, "end")
<1>1. /\ <<"usage", "finished", "end">> \in Seq({"started", "first", "finished"} \cup Events)
      /\ <<"finished", "end">> \in Seq({"started", "first", "finished"} \cup Events)
      /\ EndLast(<<"usage", "finished", "end">>) /\ EndLast(<<"finished", "end">>)
  BY DEF Events, EndLast
<1>2. \A s : /\ Ending(s) \in Seq({"started", "first", "finished"} \cup Events)
            /\ EndLast(Ending(s))
  BY <1>1, Zenon DEF Ending
<1>3. <<>> \in Seq({"started", "first", "finished"} \cup Events)
  BY EmptySeq
<1>4. /\ <<"error">> \in Seq({"started", "first", "finished"} \cup Events)
      /\ <<"text">> \in Seq({"started", "first", "finished"} \cup Events)
      /\ <<"first", "text">> \in Seq({"started", "first", "finished"} \cup Events)
      /\ EndLast(<<"error">>) /\ EndLast(<<"text">>) /\ EndLast(<<"first", "text">>)
      /\ ~Has(<<"error">>, "end") /\ ~Has(<<"text">>, "end") /\ ~Has(<<"first", "text">>, "end")
  BY DEF Events, EndLast, Has
<1>5. ASSUME NEW q \in {<<>>, <<"error">>, <<"text">>, <<"first", "text">>}
      PROVE  /\ q \in Seq({"started", "first", "finished"} \cup Events)
             /\ EndLast(q) /\ ~Has(q, "end")
  BY <1>3, <1>4, HasEmpty, Zenon
<1> QED BY <1>2, <1>5, Zenon

\* One thing done: at most one stream_end is sent, with nothing left to do.
LEMMA PerformEndInv ==
    ASSUME TypeOK, NEW s \in Stream, EndInv(s), Perform(s)
    PROVE  EndInv(s)' /\ \A r \in Stream \ {s} : SameStream(r)
<1> DEFINE Progress == {"started", "first", "finished"}
<1>1. /\ todo[s] \in Seq(Progress \cup Events) /\ todo[s] # <<>>
      /\ EndLast(todo[s]) /\ EndLast(ch[s]) /\ ch[s] \in Seq(Events)
  BY DEF Perform, EndInv, TypeOK
<1>2. /\ DOMAIN todo = Stream /\ DOMAIN ch = Stream
      /\ todo' = [todo EXCEPT ![s] = Tail(@)]
      /\ UNCHANGED <<serve, prod, open, fwd, held, ended, sent>>
  BY DEF Perform, TypeOK, bodyVars, fwdVars, outVars
<1>3. /\ Head(todo[s]) \in Progress \cup Events
      /\ Tail(todo[s]) \in Seq(Progress \cup Events)
      /\ \A k : Has(todo[s], k) <=> Has(Tail(todo[s]), k) \/ Head(todo[s]) = k
      /\ EndLast(Tail(todo[s])) /\ (Head(todo[s]) = "end" => Tail(todo[s]) = <<>>)
  <2> HIDE DEF Progress
  <2> QED BY <1>1, HasTail
<1>4. todo'[s] = Tail(todo[s])
  BY <1>2
<1>5. /\ ~Has(ch[s], "end") /\ held[s] # <<"end">> /\ ~Has(sent[s], "end")
      /\ prod[s] \in {"scan", "leave"}
      /\ Head(todo[s]) = "end" => prod[s] = "leave"
  BY <1>1, <1>3 DEF EndInv, Silent
<1>6. CASE Head(todo[s]) \in Audits
  <2>1. UNCHANGED ch
    BY <1>6 DEF Perform
  <2>2. EndInv(s)'
    BY <1>2, <1>3, <1>4, <1>5, <2>1 DEF EndInv, Silent, Over
  <2> QED BY <1>2, <2>1, <2>2 DEF SameStream
<1>7. CASE Head(todo[s]) \notin Audits
  <2>1. ch' = [ch EXCEPT ![s] = Append(@, Head(todo[s]))]
    BY <1>7 DEF Perform
  <2>2. Head(todo[s]) \in Events
    BY <1>3, <1>7 DEF Audits
  <2>3. ch'[s] = Append(ch[s], Head(todo[s]))
    BY <1>2, <2>1
  <2>4. /\ \A k : Has(ch'[s], k) <=> Has(ch[s], k) \/ Head(todo[s]) = k
        /\ EndLast(ch'[s])
    BY <1>1, <1>5, <2>2, <2>3, HasAppend
  <2>5. fwd[s] \notin {"clean", "done"}
    BY <1>5 DEF EndInv
  <2>6. EndInv(s)'
    BY <1>2, <1>3, <1>4, <1>5, <2>4, <2>5 DEF EndInv, Silent, Over
  <2> QED BY <1>2, <2>1, <2>6 DEF SameStream
<1> QED BY <1>6, <1>7

\* The other steps of the producer.
LEMMA ProducerEndInv ==
    ASSUME TypeOK, NEW s \in Stream, EndInv(s),
           Upstream(s) \/ ScanCancelled(s) \/ ScanCut(s) \/ CutSeen(s) \/ Leave(s)
    PROVE  EndInv(s)' /\ \A r \in Stream \ {s} : SameStream(r)
<1> USE DEF Scanning, Finish, ctxVars, bodyVars, chanVars, fwdVars, outVars
<1>1. DOMAIN prod = Stream /\ DOMAIN todo = Stream /\ DOMAIN open = Stream
  BY DEF TypeOK
\* It goes on, or leaves, with something to do.
<1>2. ASSUME prod[s] \in {"scan", "cut"},
             \A r \in Stream \ {s} : prod'[r] = prod[r] /\ todo'[r] = todo[r],
             todo'[s] \in Seq({"started", "first", "finished"} \cup Events),
             EndLast(todo'[s]),
             \/ prod'[s] = "leave"
             \/ prod'[s] = "scan" /\ ~Has(todo'[s], "end")
             \/ prod'[s] = "cut" /\ todo'[s] = <<>>,
             UNCHANGED <<ch, open, fwd, held, ended, sent, serve>>
      PROVE  EndInv(s)' /\ \A r \in Stream \ {s} : SameStream(r)
  <2>1. ~Has(<<>>, "end")
    BY HasEmpty
  <2>2. EndInv(s)'
    BY <1>2, <2>1 DEF EndInv, Silent, Over
  <2> QED BY <1>2, <2>2 DEF SameStream
<1>3. ASSUME NEW event \in {"text", "error"}, ScanChunk(s, event)
      PROVE  EndInv(s)' /\ \A r \in Stream \ {s} : SameStream(r)
  <2>1. todo'[s] \in {<<>>, <<"error">>, <<"text">>, <<"first", "text">>}
    BY <1>1, <1>3 DEF ScanChunk
  <2> QED BY <1>1, <1>2, <1>3, <2>1, RestEnds DEF ScanChunk
<1>4. CASE ScanUsage(s)
  BY <1>4 DEF ScanUsage, EndInv, SameStream, Silent, Over
<1>5. CASE ScanBad(s)
  <2>1. todo'[s] \in {<<>>, <<"error">>, <<"text">>, <<"first", "text">>}
    BY <1>1, <1>5 DEF ScanBad
  <2> QED BY <1>1, <1>2, <1>5, <2>1, RestEnds DEF ScanBad
<1>6. ASSUME NEW how \in {"done", "eof"}, ScanEnd(s, how)
      PROVE  EndInv(s)' /\ \A r \in Stream \ {s} : SameStream(r)
  BY <1>1, <1>2, <1>6, RestEnds DEF ScanEnd
<1>7. CASE ScanCancelled(s)
  <2>1. todo'[s] \in {<<>>, <<"error">>, <<"text">>, <<"first", "text">>}
    BY <1>1, <1>7 DEF ScanCancelled
  <2> QED BY <1>1, <1>2, <1>7, <2>1, RestEnds DEF ScanCancelled
<1>8. CASE ScanCut(s)
  BY <1>1, <1>2, <1>8 DEF ScanCut, EndInv
<1>9. CASE CutSeen(s)
  <2>1. /\ prod[s] = "cut" /\ prod'[s] = "leave"
        /\ \A r \in Stream \ {s} : prod'[r] = prod[r] /\ todo'[r] = todo[r]
        /\ UNCHANGED <<ch, open, fwd, held, ended, sent, serve>>
    BY <1>1, <1>9 DEF CutSeen
  <2>2. todo'[s] \in {<<>>, <<"error">>, <<"text">>, <<"first", "text">>} \/ todo'[s] = Ending(s)
    BY <1>1, <1>9 DEF CutSeen
  <2> QED BY <1>2, <2>1, <2>2, RestEnds
<1>10. CASE Leave(s)
  <2>1. /\ prod[s] = "leave" /\ todo[s] = <<>> /\ prod'[s] = "done" /\ open'[s] = FALSE
        /\ \A r \in Stream \ {s} : prod'[r] = prod[r] /\ open'[r] = open[r]
        /\ UNCHANGED <<todo, ch, fwd, held, ended, sent, serve>>
    BY <1>1, <1>10 DEF Leave
  <2>2. EndInv(s)'
    BY <2>1, HasEmpty DEF EndInv, Silent, Over
  <2> QED BY <2>1, <2>2 DEF SameStream
<1> QED BY <1>3, <1>4, <1>5, <1>6, <1>7, <1>8, <1>9, <1>10 DEF Upstream

\* forwardStream takes an end from the channel, or makes one up, only when
\* nothing else is to come.
LEMMA ForwardingEndInv ==
    ASSUME TypeOK, NEW s \in Stream, EndInv(s), Forwarding(s) \/ Cancelling(s)
    PROVE  EndInv(s)' /\ \A r \in Stream \ {s} : SameStream(r)
<1> USE DEF ctxVars, bodyVars, prodVars, chanVars, fwdVars, outVars
<1>1. /\ DOMAIN fwd = Stream /\ DOMAIN held = Stream /\ DOMAIN ended = Stream
      /\ DOMAIN ch = Stream /\ DOMAIN sent = Stream
      /\ ch[s] \in Seq(Events) /\ sent[s] \in Seq(Kinds)
  BY DEF TypeOK, Kinds
<1>2. CASE Receive(s)
  <2>1. /\ fwd[s] = "range" /\ held[s] = <<>> /\ ch[s] # <<>>
        /\ held'[s] = <<Head(ch[s])>> /\ ch'[s] = Tail(ch[s])
        /\ ended'[s] <=> ended[s] \/ Head(ch[s]) \in {"error", "end"}
        /\ \A r \in Stream \ {s} : held'[r] = held[r] /\ ch'[r] = ch[r] /\ ended'[r] = ended[r]
        /\ UNCHANGED <<prod, todo, open, fwd, sent, serve>>
    BY <1>1, <1>2 DEF Receive
  <2>2. /\ Head(ch[s]) \in Events
        /\ \A k : Has(ch[s], k) <=> Has(Tail(ch[s]), k) \/ Head(ch[s]) = k
        /\ EndLast(ch[s]) => EndLast(Tail(ch[s])) /\ (Head(ch[s]) = "end" => Tail(ch[s]) = <<>>)
    BY <1>1, <2>1, HasTail
  <2>3. held'[s] = <<"end">> => Head(ch[s]) = "end"
    BY <2>1
  <2>4. EndInv(s)'
    BY <2>1, <2>2, <2>3 DEF EndInv, Silent, Over
  <2> QED BY <2>1, <2>4 DEF SameStream
<1>3. CASE NotifyEvent(s)
  <2>1. /\ held[s] # <<>> /\ held'[s] = <<>>
        /\ sent'[s] = Append(sent[s], KindOf(Head(held[s])))
        /\ \A r \in Stream \ {s} : held'[r] = held[r] /\ sent'[r] = sent[r]
        /\ UNCHANGED <<prod, todo, ch, open, fwd, ended, serve>>
    BY <1>1, <1>3 DEF NotifyEvent
  <2>2. PICK e \in Events : held[s] = <<e>>
    BY <2>1 DEF EndInv
  <2>3. Head(held[s]) = e
    BY <2>2
  <2>4. KindOf(e) \in Kinds /\ (KindOf(e) = "end" <=> e = "end")
    BY DEF KindOf, Kinds
  <2>5. Has(sent'[s], "end") => Has(sent[s], "end") \/ held[s] = <<"end">>
    BY <1>1, <2>1, <2>2, <2>3, <2>4, HasAppend
  <2>6. EndInv(s)'
    BY <2>1, <2>5 DEF EndInv, Silent, Over
  <2> QED BY <2>1, <2>6 DEF SameStream
<1>4. CASE RangeEnds(s)
  <2>1. /\ fwd[s] = "range" /\ held[s] = <<>> /\ ch[s] = <<>> /\ ~open[s]
        /\ fwd'[s] = "clean"
        /\ held'[s] = IF ended[s] THEN <<>> ELSE <<"end">>
        /\ \A r \in Stream \ {s} : held'[r] = held[r] /\ fwd'[r] = fwd[r]
        /\ UNCHANGED <<prod, todo, ch, open, ended, sent, serve>>
    BY <1>1, <1>4 DEF RangeEnds
  <2>2. Silent(s)
    BY <2>1 DEF EndInv, Silent
  <2>3. held'[s] = <<>> \/ (held'[s] = <<"end">> /\ ~Has(sent[s], "end"))
    BY <2>1 DEF EndInv, Over
  <2>4. held'[s] = <<>> \/ \E e \in Events : held'[s] = <<e>>
    BY <2>3 DEF Events
  <2>5. EndInv(s)'
    BY <2>1, <2>2, <2>3, <2>4 DEF EndInv, Silent, Over
  <2> QED BY <2>1, <2>5 DEF SameStream
<1>5. CASE CleanUp(s)
  <2>1. /\ fwd[s] = "clean" /\ held[s] = <<>> /\ fwd'[s] = "done"
        /\ \A r \in Stream \ {s} : fwd'[r] = fwd[r]
        /\ UNCHANGED <<prod, todo, ch, open, held, ended, sent, serve>>
    BY <1>1, <1>5 DEF CleanUp
  <2>2. EndInv(s)'
    BY <2>1 DEF EndInv, Silent, Over
  <2> QED BY <2>1, <2>2 DEF SameStream
<1>6. CASE Cancelling(s)
  <2>1. UNCHANGED <<prod, todo, ch, open, fwd, held, ended, sent, serve>>
    BY <1>6 DEF Cancelling, CancelLookup, CancelCall, CancelReply
  <2> QED BY <2>1 DEF EndInv, Silent, Over, SameStream
<1> QED BY <1>2, <1>3, <1>4, <1>5, <1>6 DEF Forwarding

\* Every step keeps the invariant.
LEMMA NextEndInv == TypeOK /\ EndInvs /\ [Next]_vars => EndInvs'
<1> SUFFICES ASSUME TypeOK, EndInvs, [Next]_vars PROVE EndInvs'
  OBVIOUS
<1>1. ASSUME NEW s \in Stream, EndInv(s)', \A r \in Stream \ {s} : SameStream(r) PROVE EndInvs'
  BY <1>1, EndFrame DEF EndInvs
<1>2. ASSUME NEW s \in Stream,
             Register(s) \/ HostCancels(s) \/ Serving(s) \/ Upstream(s) \/ ScanCancelled(s)
                \/ ScanCut(s) \/ Producing(s) \/ Forwarding(s) \/ Cancelling(s)
      PROVE  EndInvs'
  <2>1. EndInv(s)
    BY DEF EndInvs
  <2> QED BY <1>1, <1>2, <2>1, ServingEndInv, PerformEndInv, ProducerEndInv, ForwardingEndInv
          DEF Producing
<1>3. CASE HostReads
  BY <1>3, EndFrame DEF HostReads, EndInvs, SameStream, prodVars, chanVars, fwdVars
<1>4. CASE UNCHANGED vars
  BY <1>4, EndFrame DEF vars, EndInvs, SameStream
<1> QED BY <1>2, <1>3, <1>4 DEF Next

-----------------------------------------------------------------------------
(* The plugin keeps its promise.                                           *)

\* The host's view changes as the serving goroutine moves.
LEMMA PlugMoves ==
    ASSUME TypeOK, NEW s \in Stream, NEW l, serve' = [serve EXCEPT ![s] = l]
    PROVE  Plug' = [Plug EXCEPT ![s] = PlugOf(l)]
BY DEF TypeOK, Plug

\* A move the host does not see.
LEMMA PlugStays ==
    ASSUME TypeOK, NEW s \in Stream, NEW l, Goto(s, l), PlugOf(l) = PlugOf(serve[s]), UNCHANGED sent
    PROVE  UNCHANGED Promise!vars
<1>1. Plug' = [Plug EXCEPT ![s] = Plug[s]] /\ DOMAIN Plug = Stream
  BY PlugMoves DEF Goto, Plug
<1>2. Plug' = Plug
  BY <1>1 DEF Plug
<1> QED BY <1>2 DEF Promise!vars

\* Every step is a step of PluginPromise or changes nothing of it.
LEMMA PromiseStep ==
    ASSUME TypeOK, EndInvs, [Next]_vars
    PROVE  [Promise!Next]_(Promise!vars)
<1> USE DEF ctxVars, bodyVars, prodVars, chanVars, fwdVars, outVars
<1>1. ASSUME NEW s \in Stream, Register(s) \/ HostCancels(s) \/ Serving(s)
      PROVE  Promise!Next \/ UNCHANGED Promise!vars
  <2>1. ASSUME NEW l, Goto(s, l), UNCHANGED sent
        PROVE  Plug' = [Plug EXCEPT ![s] = PlugOf(l)] /\ Plug[s] = PlugOf(serve[s])
    BY <2>1, PlugMoves DEF Goto, Plug
  <2>2. CASE Register(s)
    <3>1. Goto(s, "registered") /\ UNCHANGED sent /\ serve[s] = "idle"
      BY <2>2 DEF Register
    <3>2. Promise!Ask(s)
      BY <2>1, <3>1 DEF PlugOf, Promise!Ask, Promise!Becomes
    <3> QED BY <3>2 DEF Promise!Next
  <2>3. CASE WriteRefusal(s)
    <3>1. Goto(s, "rejected") /\ UNCHANGED sent /\ serve[s] = "refusing"
      BY <2>3 DEF WriteRefusal
    <3>2. Promise!Reject(s)
      BY <2>1, <3>1 DEF PlugOf, Promise!Reject, Promise!Becomes
    <3> QED BY <3>2 DEF Promise!Next
  <2>4. CASE Forward(s)
    <3>1. Goto(s, "replying") /\ UNCHANGED sent /\ serve[s] = "streaming"
      BY <2>4 DEF Forward
    <3>2. Promise!Accept(s)
      BY <2>1, <3>1 DEF PlugOf, Promise!Accept, Promise!Becomes
    <3> QED BY <3>2 DEF Promise!Next
  <2>5. CASE WriteReply(s)
    <3>1. Goto(s, "replied") /\ UNCHANGED sent /\ serve[s] = "replying"
      BY <2>5 DEF WriteReply
    <3>2. Promise!Reply(s)
      BY <2>1, <3>1 DEF PlugOf, Promise!Reply, Promise!Becomes
    <3> QED BY <3>2 DEF Promise!Next
  <2>6. CASE HostCancels(s)
    BY <2>6 DEF HostCancels, Plug, Promise!vars
  <2>7. CASE BuildFails(s) BY <2>7, PlugStays DEF BuildFails, PlugOf
  <2>8. CASE AuditRequest(s) BY <2>8, PlugStays DEF AuditRequest, PlugOf
  <2>9. CASE Do(s) BY <2>9, PlugStays DEF Do, PlugOf
  <2>10. CASE AuditFailure(s) BY <2>10, PlugStays DEF AuditFailure, PlugOf
  <2>11. CASE Refuse(s) BY <2>11, PlugStays DEF Refuse, PlugOf
  <2>12. CASE AuditResponse(s) BY <2>12, PlugStays DEF AuditResponse, PlugOf
  <2> QED BY <1>1, <2>2, <2>3, <2>4, <2>5, <2>6, <2>7, <2>8, <2>9, <2>10, <2>11, <2>12 DEF Serving
<1>2. ASSUME NEW s \in Stream, NotifyEvent(s)
      PROVE  Promise!Next
  <2>1. /\ held[s] # <<>>
        /\ sent' = [sent EXCEPT ![s] = Append(@, KindOf(Head(held[s])))]
        /\ UNCHANGED serve
    BY <1>2 DEF NotifyEvent
  <2>2. ~Has(sent[s], "end") /\ serve[s] \in {"replying", "replied"}
    BY <2>1 DEF EndInvs, EndInv
  <2>3. KindOf(Head(held[s])) \in {"data", "error", "end"}
    BY DEF KindOf
  <2>4. Plug[s] \in {"opened", "replied"} /\ UNCHANGED Plug
    BY <2>1, <2>2 DEF Plug, PlugOf
  <2>5. Promise!Emit(s)
    BY <2>1, <2>2, <2>3, <2>4 DEF Promise!Emit, Has
  <2> QED BY <2>5 DEF Promise!Next
<1>3. ASSUME UNCHANGED <<serve, sent>> PROVE UNCHANGED Promise!vars
  BY <1>3 DEF Plug, Promise!vars
<1>4. ASSUME NEW s \in Stream, Upstream(s) \/ ScanCancelled(s) \/ ScanCut(s) \/ Producing(s)
      PROVE  UNCHANGED <<serve, sent>>
  BY <1>4 DEF Upstream, ScanChunk, ScanUsage, ScanBad, ScanEnd, ScanCancelled, ScanCut,
              Producing, Perform, CutSeen, Leave
<1>5. ASSUME NEW s \in Stream, Receive(s) \/ RangeEnds(s) \/ CleanUp(s) \/ Cancelling(s)
      PROVE  UNCHANGED <<serve, sent>>
  BY <1>5 DEF Receive, RangeEnds, CleanUp, Cancelling, CancelLookup, CancelCall, CancelReply
<1>6. HostReads \/ UNCHANGED vars => UNCHANGED <<serve, sent>>
  BY DEF HostReads, vars
<1> QED BY <1>1, <1>2, <1>3, <1>4, <1>5, <1>6 DEF Next, Forwarding

\* For any streams, any upstream and any cancel the plugin answers once, sends
\* events of accepted streams only, and none after stream_end.
THEOREM PromiseKept == Spec => KeepsPromise
<1>1. Init => Promise!Init
  BY DEF Init, Promise!Init, Plug, PlugOf
<1> QED BY <1>1, InitTypeOK, NextTypeOK, InitEndInv, NextEndInv, PromiseStep, PTL
        DEF Spec, KeepsPromise, Promise!Spec

-----------------------------------------------------------------------------
(* The order of what is said.                                              *)

\* Requests that have their answer.
Answered == {"replied", "rejected"}

\* Audits come in time, and nothing is said before its turn.
AuditsInv(s) ==
    /\ InTime(said[s])
    /\ Has(said[s], "end") => Has(sent[s], "end")
    /\ serve[s] \notin Answered => ~Has(said[s], "reply") /\ ~Has(said[s], "refusal")

\* So it is for every stream.
AuditsInvs == \A s \in Stream : AuditsInv(s)

\* What is said of stream s, under the conditions InTimeAppend asks for.
LEMMA SayInTime ==
    ASSUME TypeOK, AuditsInvs, NEW s \in Stream, NEW x \in Messages, Say(s, x),
           Has(sent[s], "end") => x = "reply",
           x \in {"request", "response"} => serve[s] \notin Answered,
           x \in {"reply", "refusal"} => serve'[s] \in Answered,
           serve[s] \in Answered => serve'[s] \in Answered,
           x = "end" \/ Has(sent[s], "end") => Has(sent'[s], "end"),
           \A r \in Stream \ {s} : serve'[r] = serve[r] /\ sent'[r] = sent[r]
    PROVE  AuditsInvs'
<1>1. /\ said \in [Stream -> Seq(Messages)]
      /\ said' = [said EXCEPT ![s] = Append(@, x)]
  BY DEF TypeOK, Say, Messages
<1>2. said'[s] = Append(said[s], x) /\ said[s] \in Seq(Messages)
  BY <1>1
<1>3. \A k : Has(said'[s], k) <=> Has(said[s], k) \/ x = k
  BY <1>2, HasAppend
<1>4. AuditsInv(s)
  BY DEF AuditsInvs
<1>5. InTime(said'[s])
  BY <1>2, <1>4, InTimeAppend DEF AuditsInv
<1>6. AuditsInv(s)'
  BY <1>3, <1>4, <1>5 DEF AuditsInv
<1>7. ASSUME NEW r \in Stream \ {s} PROVE AuditsInv(r)'
  BY <1>1, <1>7 DEF AuditsInvs, AuditsInv
<1> QED BY <1>6, <1>7 DEF AuditsInvs

\* Every step keeps the order.
LEMMA NextAuditsInv == TypeOK /\ EndInvs /\ AuditsInvs /\ [Next]_vars => AuditsInvs'
<1> SUFFICES ASSUME TypeOK, EndInvs, AuditsInvs, [Next]_vars PROVE AuditsInvs'
  OBVIOUS
<1> USE DEF Goto, Answered
<1>1. DOMAIN serve = Stream
  BY DEF TypeOK
\* Steps that write nothing.
<1>2. ASSUME UNCHANGED <<said, sent>>,
             \A r \in Stream : serve[r] \in Answered => serve'[r] \in Answered
      PROVE  AuditsInvs'
  BY <1>2 DEF AuditsInvs, AuditsInv
<1>3. ASSUME NEW s \in Stream, Register(s) \/ HostCancels(s) \/ Serving(s) PROVE AuditsInvs'
  <2>1. EndInv(s)
    BY DEF EndInvs
  <2>2. serve[s] \notin Accepted => ~Has(sent[s], "end")
    BY <2>1 DEF EndInv, Silent
  <2> USE DEF ctxVars, bodyVars, prodVars, chanVars, fwdVars, outVars, Accepted
  <2>3. CASE AuditRequest(s)
    BY <1>1, <2>2, <2>3, SayInTime DEF AuditRequest, Messages, Audits
  <2>4. CASE AuditFailure(s)
    <3>1. PICK x \in {"provider_error", "response"} : Say(s, x)
      BY <2>4 DEF AuditFailure
    <3> QED BY <1>1, <2>2, <2>4, <3>1, SayInTime DEF AuditFailure, Messages, Audits
  <2>5. CASE WriteRefusal(s)
    BY <1>1, <2>2, <2>5, SayInTime DEF WriteRefusal, Messages
  <2>6. CASE AuditResponse(s)
    BY <1>1, <2>2, <2>6, SayInTime DEF AuditResponse, Messages, Audits
  <2>7. CASE WriteReply(s)
    BY <1>1, <2>7, SayInTime DEF WriteReply, Messages
  <2>8. CASE Register(s) BY <1>1, <1>2, <2>8 DEF Register
  <2>9. CASE HostCancels(s) BY <1>2, <2>9 DEF HostCancels
  <2>10. CASE BuildFails(s) BY <1>1, <1>2, <2>10 DEF BuildFails
  <2>11. CASE Do(s) BY <1>1, <1>2, <2>11 DEF Do
  <2>12. CASE Refuse(s) BY <1>1, <1>2, <2>12 DEF Refuse
  <2>13. CASE Forward(s) BY <1>1, <1>2, <2>13 DEF Forward
  <2> QED BY <1>3, <2>3, <2>4, <2>5, <2>6, <2>7, <2>8, <2>9, <2>10, <2>11, <2>12, <2>13 DEF Serving
<1>4. ASSUME NEW s \in Stream, Perform(s) PROVE AuditsInvs'
  <2>1. EndInv(s) /\ todo[s] # <<>> /\ UNCHANGED <<serve, sent>>
    BY <1>4 DEF EndInvs, Perform, outVars
  <2>2. Head(todo[s]) \in {"started", "first", "finished"} \cup Events
    BY <2>1, HasTail DEF EndInv
  <2>3. CASE Head(todo[s]) \in Audits
    <3>1. Say(s, Head(todo[s])) /\ Head(todo[s]) \in {"started", "first", "finished"}
      BY <1>4, <2>2, <2>3 DEF Perform, Audits, Events
    <3>2. ~Has(sent[s], "end")
      BY <2>1 DEF EndInv, Silent
    <3> QED BY <2>1, <3>1, <3>2, SayInTime DEF Messages, Audits
  <2>4. CASE Head(todo[s]) \notin Audits
    BY <1>2, <1>4, <2>1, <2>4 DEF Perform, outVars
  <2> QED BY <2>3, <2>4
<1>5. ASSUME NEW s \in Stream, NotifyEvent(s) PROVE AuditsInvs'
  <2>1. /\ EndInv(s) /\ held[s] # <<>> /\ Say(s, Head(held[s]))
        /\ sent' = [sent EXCEPT ![s] = Append(@, KindOf(Head(held[s])))]
        /\ UNCHANGED serve
    BY <1>5 DEF EndInvs, NotifyEvent
  <2>2. PICK e \in Events : held[s] = <<e>>
    BY <2>1 DEF EndInv
  <2>3. Head(held[s]) = e /\ e \notin {"request", "response", "reply", "refusal"}
    BY <2>2 DEF Events
  <2>4. ~Has(sent[s], "end")
    BY <2>1 DEF EndInv
  <2>5. KindOf(e) \in Kinds /\ (e = "end" => KindOf(e) = "end")
    BY DEF KindOf, Kinds
  <2>6. sent \in [Stream -> Seq(Kinds)]
    BY DEF TypeOK, Kinds
  <2>7. e = "end" => Has(sent'[s], "end")
    BY <2>1, <2>3, <2>5, <2>6, HasAppend
  <2>8. \A r \in Stream \ {s} : sent'[r] = sent[r]
    BY <2>1, <2>6
  <2> QED BY <2>1, <2>2, <2>3, <2>4, <2>7, <2>8, SayInTime DEF Messages
<1>6. ASSUME NEW s \in Stream,
             Upstream(s) \/ ScanCancelled(s) \/ ScanCut(s) \/ CutSeen(s) \/ Leave(s)
      PROVE  AuditsInvs'
  <2>1. UNCHANGED <<said, sent, serve>>
    BY <1>6 DEF Upstream, ScanChunk, ScanUsage, ScanBad, ScanEnd, ScanCancelled, ScanCut,
                CutSeen, Leave, outVars
  <2> QED BY <1>2, <2>1
<1>7. ASSUME NEW s \in Stream, Receive(s) \/ RangeEnds(s) \/ CleanUp(s) \/ Cancelling(s)
      PROVE  AuditsInvs'
  <2>1. UNCHANGED <<said, sent, serve>>
    BY <1>7 DEF Receive, RangeEnds, CleanUp, Cancelling, CancelLookup, CancelCall, CancelReply, outVars
  <2> QED BY <1>2, <2>1
<1>8. CASE HostReads \/ UNCHANGED vars
  <2>1. UNCHANGED <<said, sent, serve>>
    BY <1>8 DEF HostReads, vars
  <2> QED BY <1>2, <2>1
<1> QED BY <1>3, <1>4, <1>5, <1>6, <1>7, <1>8 DEF Next, Producing, Forwarding

\* Nothing but the reply follows a stream_end, and a request's audits precede
\* its answer: what the host has read when a stream ends includes its audits.
THEOREM AuditsComeInTime == Spec => []AuditsInTime
<1>1. Init => AuditsInvs
  <2>1. InTime(<<>>)
    BY DEF InTime
  <2> SUFFICES ASSUME Init, NEW s \in Stream PROVE AuditsInv(s)
    BY DEF AuditsInvs
  <2>2. said[s] = <<>>
    BY DEF Init
  <2> QED BY <2>1, <2>2, HasEmpty DEF AuditsInv
<1>2. AuditsInvs => AuditsInTime
  BY DEF AuditsInvs, AuditsInv, InTime, AuditsInTime
<1> QED BY <1>1, <1>2, InitTypeOK, NextTypeOK, InitEndInv, NextEndInv, NextAuditsInv, PTL DEF Spec

-----------------------------------------------------------------------------
(* Cancels.                                                                *)

\* Where the stream has its entry in the map, unless forwardStream is through.
Entered == {"registered", "doing", "failed", "denied", "ok", "refused",
            "streaming", "replying", "replied"}

\* A stream the host knows has its entry until forwardStream is through.
CancelInv(s) ==
    /\ serve[s] \in Entered /\ fwd[s] # "done" => s \in streams
    /\ cancel[s] # "none" => serve[s] = "replied"
    /\ cancel[s] \in {"missed", "late"} => fwd[s] = "done"

\* So it is for every stream.
CancelInvs == \A s \in Stream : CancelInv(s)

\* Every step keeps the invariant.
LEMMA NextCancelInv == TypeOK /\ EndInvs /\ CancelInvs /\ [Next]_vars => CancelInvs'
<1> SUFFICES ASSUME TypeOK, EndInvs, CancelInvs, [Next]_vars, NEW r \in Stream PROVE CancelInv(r)'
  BY DEF CancelInvs
<1>1. /\ CancelInv(r) /\ DOMAIN serve = Stream /\ DOMAIN fwd = Stream /\ DOMAIN cancel = Stream
      /\ fwd[r] # "none" => serve[r] \in {"replying", "replied"}
  BY DEF TypeOK, CancelInvs, EndInvs, EndInv
<1> USE DEF CancelInv, Entered, Goto, ctxVars, fwdVars
<1>2. ASSUME UNCHANGED <<streams, serve, fwd, cancel>> PROVE CancelInv(r)'
  BY <1>1, <1>2
<1>3. ASSUME NEW s \in Stream, Register(s) \/ HostCancels(s) \/ Serving(s) PROVE CancelInv(r)'
  <2>1. CASE Register(s) BY <1>1, <2>1 DEF Register
  <2>2. CASE HostCancels(s) BY <1>1, <2>2 DEF HostCancels
  <2>3. CASE BuildFails(s) BY <1>1, <2>3 DEF BuildFails
  <2>4. CASE AuditRequest(s) BY <1>1, <2>4 DEF AuditRequest
  <2>5. CASE Do(s) BY <1>1, <2>5 DEF Do
  <2>6. CASE AuditFailure(s) BY <1>1, <2>6 DEF AuditFailure
  <2>7. CASE Refuse(s) BY <1>1, <2>7 DEF Refuse
  <2>8. CASE WriteRefusal(s) BY <1>1, <2>8 DEF WriteRefusal
  <2>9. CASE AuditResponse(s) BY <1>1, <2>9 DEF AuditResponse
  <2>10. CASE Forward(s) BY <1>1, <2>10 DEF Forward
  <2>11. CASE WriteReply(s) BY <1>1, <2>11 DEF WriteReply
  <2> QED BY <1>3, <2>1, <2>2, <2>3, <2>4, <2>5, <2>6, <2>7, <2>8, <2>9, <2>10, <2>11 DEF Serving
<1>4. ASSUME NEW s \in Stream,
             Upstream(s) \/ ScanCancelled(s) \/ ScanCut(s) \/ Producing(s) PROVE CancelInv(r)'
  BY <1>2, <1>4 DEF Upstream, ScanChunk, ScanUsage, ScanBad, ScanEnd, ScanCancelled, ScanCut,
                    Producing, Perform, CutSeen, Leave
<1>5. ASSUME NEW s \in Stream, Forwarding(s) PROVE CancelInv(r)'
  <2>1. CASE Receive(s) \/ NotifyEvent(s)
    BY <1>2, <2>1 DEF Receive, NotifyEvent
  <2>2. CASE RangeEnds(s) BY <1>1, <2>2 DEF RangeEnds
  <2>3. CASE CleanUp(s) BY <1>1, <2>3 DEF CleanUp
  <2> QED BY <1>5, <2>1, <2>2, <2>3 DEF Forwarding
<1>6. ASSUME NEW s \in Stream, Cancelling(s) PROVE CancelInv(r)'
  <2>1. CASE CancelLookup(s) BY <1>1, <2>1 DEF CancelLookup
  <2>2. CASE CancelCall(s) BY <1>1, <2>2 DEF CancelCall
  <2>3. CASE CancelReply(s) BY <1>1, <2>3 DEF CancelReply
  <2> QED BY <1>6, <2>1, <2>2, <2>3 DEF Cancelling
<1>7. CASE HostReads \/ UNCHANGED vars
  BY <1>2, <1>7 DEF HostReads, vars
<1> QED BY <1>3, <1>4, <1>5, <1>6, <1>7 DEF Next

\* A cancel that finds no entry comes after forwardStream is through: a host
\* that knows a stream's id always reaches it.
THEOREM CancelsFindStreams == Spec => []CancelNotLost
<1>1. Init => CancelInvs
  <2>1. Init => \A s \in Stream : serve[s] = "idle" /\ fwd[s] = "none" /\ cancel[s] = "none"
    BY DEF Init
  <2> QED BY <2>1 DEF CancelInvs, CancelInv, Entered
<1>2. CancelInvs => CancelNotLost
  BY DEF CancelInvs, CancelInv, CancelNotLost
<1> QED BY <1>1, <1>2, InitTypeOK, NextTypeOK, InitEndInv, NextEndInv, NextCancelInv, PTL DEF Spec

-----------------------------------------------------------------------------
(* A broken body is told.                                                  *)

\* The error is on its way to the host, or there.
Told(s) ==
    \/ Has(todo[s], "error") \/ Has(ch[s], "error") \/ held[s] = <<"error">> \/ Has(said[s], "error")

\* So is a terminal event.
Closing(s) ==
    held[s] \in {<<"error">>, <<"end">>} \/ Has(said[s], "error") \/ Has(said[s], "end")

\* A body that was cut or bad has been told, or will be before the stream is closed.
HonestInv(s) ==
    /\ body[s] # "open" <=> prod[s] \in {"leave", "done"}
    /\ body[s] \in {"bad", "cut"} => Told(s)
    /\ ended[s] => Closing(s)
    /\ fwd[s] \in {"clean", "done"} => Closing(s)
    /\ ctx[s] => cancel[s] \in {"called", "done"} \/ fwd[s] = "done" \/ serve[s] \in {"refusing", "rejected"}
    /\ body[s] = "cancelled" => cancel[s] \notin {"none", "asked", "found"}

\* So it is for every stream.
HonestInvs == \A s \in Stream : HonestInv(s)

\* What is said of any stream is never taken back.
LEMMA SayKeeps ==
    ASSUME TypeOK, NEW s \in Stream, NEW x \in Messages, Say(s, x)
    PROVE  /\ \A r \in Stream, k \in Messages : Has(said[r], k) => Has(said'[r], k)
           /\ Has(said'[s], x)
<1>1. /\ said \in [Stream -> Seq(Messages)]
      /\ said' = [said EXCEPT ![s] = Append(@, x)]
  BY DEF TypeOK, Say, Messages
<1>2. \A k : Has(said'[s], k) <=> Has(said[s], k) \/ x = k
  BY <1>1, HasAppend
<1>3. \A r \in Stream \ {s} : said'[r] = said[r]
  BY <1>1
<1> QED BY <1>2, <1>3

\* The steps of the serving goroutine and of a cancel.
LEMMA ServingHonestInv ==
    ASSUME TypeOK, EndInvs, CancelInvs, HonestInvs, NEW r \in Stream, NEW s \in Stream,
           Register(s) \/ HostCancels(s) \/ Serving(s) \/ Cancelling(s)
    PROVE  HonestInv(r)'
<1>1. /\ HonestInv(r) /\ DOMAIN serve = Stream /\ DOMAIN fwd = Stream /\ DOMAIN cancel = Stream
      /\ DOMAIN ctx = Stream /\ DOMAIN prod = Stream /\ DOMAIN todo = Stream
      /\ serve[r] \notin Accepted => prod[r] = "none" /\ todo[r] = <<>>
      /\ cancel[r] \in {"missed", "late"} => fwd[r] = "done"
      /\ fwd[r] # "none" => serve[r] \in {"replying", "replied"}
      /\ cancel[r] # "none" => serve[r] = "replied"
  BY DEF TypeOK, HonestInvs, EndInvs, EndInv, CancelInvs, CancelInv
<1> USE DEF HonestInv, Goto, ctxVars, bodyVars, prodVars, chanVars, fwdVars, outVars
\* What is said only grows, and the rest that HonestInv speaks of stays.
<1>2. ASSUME Has(said[r], "error") => Has(said'[r], "error"),
             Has(said[r], "end") => Has(said'[r], "end"),
             UNCHANGED <<todo, ch, held>>
      PROVE  (Told(r) => Told(r)') /\ (Closing(r) => Closing(r)')
  BY <1>2 DEF Told, Closing
<1>3. ASSUME UNCHANGED <<todo, ch, held, said>>
      PROVE  (Told(r) => Told(r)') /\ (Closing(r) => Closing(r)')
  BY <1>2, <1>3
<1>4. ASSUME NEW x \in Messages, Say(s, x), UNCHANGED <<todo, ch, held>>
      PROVE  (Told(r) => Told(r)') /\ (Closing(r) => Closing(r)')
  BY <1>2, <1>4, SayKeeps DEF Messages, Events
<1>5. CASE Register(s) BY <1>1, <1>3, <1>5 DEF Register
<1>6. CASE HostCancels(s) BY <1>1, <1>3, <1>6 DEF HostCancels
<1>7. CASE BuildFails(s) BY <1>1, <1>3, <1>7 DEF BuildFails
<1>8. CASE AuditRequest(s) BY <1>1, <1>4, <1>8 DEF AuditRequest, Messages, Audits
<1>9. CASE Do(s) BY <1>1, <1>3, <1>9 DEF Do
<1>10. CASE AuditFailure(s)
  <2>1. PICK x \in {"provider_error", "response"} : Say(s, x)
    BY <1>10 DEF AuditFailure
  <2> QED BY <1>1, <1>4, <1>10, <2>1 DEF AuditFailure, Messages, Audits
<1>11. CASE Refuse(s) BY <1>1, <1>3, <1>11 DEF Refuse
<1>12. CASE WriteRefusal(s) BY <1>1, <1>4, <1>12 DEF WriteRefusal, Messages
<1>13. CASE AuditResponse(s)
  <2>1. /\ serve[s] = "ok" /\ serve'[s] = "streaming" /\ Say(s, "response")
        /\ prod'[s] = "scan"
        /\ \A q \in Stream \ {s} : prod'[q] = prod[q] /\ todo'[q] = todo[q] /\ serve'[q] = serve[q]
        /\ UNCHANGED <<body, ch, held, ended, fwd, ctx, cancel>>
    BY <1>1, <1>13 DEF AuditResponse
  <2>2. /\ Has(said[r], "error") => Has(said'[r], "error")
        /\ Has(said[r], "end") => Has(said'[r], "end")
    BY <2>1, SayKeeps DEF Messages, Audits, Events
  <2>3. CASE r = s
    <3>1. body[r] = "open" /\ (Closing(r) => Closing(r)')
      BY <1>1, <2>1, <2>2, <2>3 DEF Accepted, Closing
    <3> QED BY <1>1, <2>1, <2>3, <3>1
  <2>4. CASE r # s
    <3>1. (Told(r) => Told(r)') /\ (Closing(r) => Closing(r)')
      BY <2>1, <2>2, <2>4 DEF Told, Closing
    <3> QED BY <1>1, <2>1, <2>4, <3>1
  <2> QED BY <2>3, <2>4
<1>14. CASE Forward(s) BY <1>1, <1>3, <1>14 DEF Forward
<1>15. CASE WriteReply(s) BY <1>1, <1>4, <1>15 DEF WriteReply, Messages
<1>16. CASE CancelLookup(s) BY <1>1, <1>3, <1>16 DEF CancelLookup
<1>17. CASE CancelCall(s) BY <1>1, <1>3, <1>17 DEF CancelCall
<1>18. CASE CancelReply(s) BY <1>1, <1>3, <1>18 DEF CancelReply
<1> QED BY <1>5, <1>6, <1>7, <1>8, <1>9, <1>10, <1>11, <1>12, <1>13, <1>14, <1>15, <1>16,
           <1>17, <1>18 DEF Serving, Cancelling

\* The steps of the producer.
LEMMA ProducingHonestInv ==
    ASSUME TypeOK, EndInvs, CancelInvs, HonestInvs, NEW r \in Stream, NEW s \in Stream,
           Upstream(s) \/ ScanCancelled(s) \/ ScanCut(s) \/ Producing(s)
    PROVE  HonestInv(r)'
<1>1. /\ HonestInv(r) /\ HonestInv(s)
      /\ DOMAIN prod = Stream /\ DOMAIN todo = Stream /\ DOMAIN body = Stream
      /\ DOMAIN ch = Stream /\ EndInv(s)
      /\ ctx[r] \in BOOLEAN
  BY DEF TypeOK, HonestInvs, EndInvs
<1>2. UNCHANGED <<ctx, serve, fwd, held, ended, cancel>>
  BY DEF Upstream, ScanChunk, ScanUsage, ScanBad, ScanEnd, ScanCancelled, ScanCut,
         Producing, Perform, CutSeen, Leave, ctxVars, fwdVars
\* While the producer scans, a cancelled context is the host's doing.
<1>3. prod[s] \in {"scan", "cut"} /\ ctx[s] => cancel[s] \in {"called", "done"}
  BY <1>1 DEF HonestInv, EndInv, Accepted
<1> USE DEF HonestInv, Scanning, ctxVars, bodyVars, chanVars, fwdVars, outVars
<1>4. ASSUME UNCHANGED said PROVE Closing(r) => Closing(r)'
  BY <1>2, <1>4 DEF Closing
<1>5. ASSUME UNCHANGED <<said, ch, todo>> PROVE Told(r) => Told(r)'
  BY <1>2, <1>5 DEF Told
\* A step that leaves the loop.
<1>6. ASSUME NEW how, NEW rest, prod[s] \in {"scan", "cut"}, Finish(s, how, rest),
             how # "open", UNCHANGED <<said, ch>>,
             how \in {"bad", "cut"} => Has(rest, "error"),
             how = "cancelled" => ctx[s]
      PROVE  HonestInv(r)'
  <2>1. /\ prod'[s] = "leave" /\ body'[s] = how /\ todo'[s] = rest
        /\ \A q \in Stream \ {s} : prod'[q] = prod[q] /\ body'[q] = body[q] /\ todo'[q] = todo[q]
    BY <1>1, <1>6 DEF Finish
  <2>2. CASE r = s
    <3>1. how \in {"bad", "cut"} => Told(r)'
      BY <1>6, <2>1, <2>2 DEF Told
    <3>2. how = "cancelled" => cancel[r] \notin {"none", "asked", "found"}
      BY <1>3, <1>6, <2>2
    <3> QED BY <1>1, <1>2, <1>4, <1>6, <2>1, <2>2, <3>1, <3>2
  <2>3. CASE r # s
    <3>1. Told(r) => Told(r)'
      BY <1>2, <1>6, <2>1, <2>3 DEF Told
    <3> QED BY <1>1, <1>2, <1>4, <1>6, <2>1, <2>3, <3>1
  <2> QED BY <2>2, <2>3
<1>7. Has(<<"error">>, "error")
  BY HasOne
<1>8. ASSUME NEW event, ScanChunk(s, event) PROVE HonestInv(r)'
  <2>1. /\ prod[s] = "scan" /\ UNCHANGED <<prod, body, said, ch>>
        /\ \A q \in Stream \ {s} : todo'[q] = todo[q]
    BY <1>1, <1>8 DEF ScanChunk
  <2>2. r # s => (Told(r) => Told(r)')
    BY <1>2, <2>1 DEF Told
  <2>3. r = s => body[r] = "open"
    BY <1>1, <2>1
  <2> QED BY <1>1, <1>2, <1>4, <2>1, <2>2, <2>3
<1>9. CASE ScanUsage(s) BY <1>1, <1>2, <1>4, <1>5, <1>9 DEF ScanUsage
<1>10. CASE ScanBad(s) BY <1>6, <1>7, <1>10 DEF ScanBad
<1>11. ASSUME NEW how \in {"done", "eof"}, ScanEnd(s, how) PROVE HonestInv(r)'
  BY <1>6, <1>11 DEF ScanEnd
<1>12. CASE ScanCancelled(s) BY <1>6, <1>12 DEF ScanCancelled
<1>13. CASE ScanCut(s)
  <2>1. /\ prod[s] = "scan" /\ prod'[s] = "cut" /\ UNCHANGED <<todo, body, said, ch>>
        /\ \A q \in Stream \ {s} : prod'[q] = prod[q]
    BY <1>1, <1>13 DEF ScanCut
  <2> QED BY <1>1, <1>2, <1>4, <1>5, <2>1
<1>14. CASE CutSeen(s)
  <2>1. CASE ctx[s] BY <1>6, <1>14, <2>1 DEF CutSeen
  <2>2. CASE ~ctx[s] BY <1>6, <1>7, <1>14, <2>2 DEF CutSeen
  <2> QED BY <2>1, <2>2
<1>15. CASE Leave(s)
  <2>1. /\ prod[s] = "leave" /\ prod'[s] = "done" /\ UNCHANGED <<todo, body, said, ch>>
        /\ \A q \in Stream \ {s} : prod'[q] = prod[q]
    BY <1>1, <1>15 DEF Leave
  <2> QED BY <1>1, <1>2, <1>4, <1>5, <2>1
<1>16. CASE Perform(s)
  <2>1. /\ todo[s] # <<>> /\ todo'[s] = Tail(todo[s])
        /\ \A q \in Stream \ {s} : todo'[q] = todo[q]
        /\ UNCHANGED <<prod, body>>
    BY <1>1, <1>16 DEF Perform
  <2>2. /\ Head(todo[s]) \in {"started", "first", "finished"} \cup Events
        /\ Has(todo[s], "error") <=> Has(Tail(todo[s]), "error") \/ Head(todo[s]) = "error"
    BY <1>1, <2>1, HasTail DEF EndInv
  <2>3. CASE Head(todo[s]) \in Audits
    <3>1. Say(s, Head(todo[s])) /\ UNCHANGED ch
      BY <1>16, <2>3 DEF Perform
    <3>2. /\ Has(said[r], "error") => Has(said'[r], "error")
          /\ Has(said[r], "end") => Has(said'[r], "end")
      BY <2>2, <3>1, SayKeeps DEF Messages, Audits, Events
    <3>3. Head(todo[s]) # "error"
      BY <2>3 DEF Audits
    <3>4. (Told(r) => Told(r)') /\ (Closing(r) => Closing(r)')
      BY <1>2, <2>1, <2>2, <3>1, <3>2, <3>3 DEF Told, Closing
    <3> QED BY <1>1, <1>2, <2>1, <3>4
  <2>4. CASE Head(todo[s]) \notin Audits
    <3>1. /\ ch'[s] = Append(ch[s], Head(todo[s])) /\ UNCHANGED said
          /\ \A q \in Stream \ {s} : ch'[q] = ch[q]
          /\ ch[s] \in Seq(Events)
      BY <1>1, <1>16, <2>4 DEF Perform, TypeOK
    <3>2. Head(todo[s]) \in Events
      BY <2>2, <2>4 DEF Audits
    <3>3. Has(ch'[s], "error") <=> Has(ch[s], "error") \/ Head(todo[s]) = "error"
      BY <3>1, <3>2, HasAppend
    <3>4. Told(r) => Told(r)'
      BY <1>2, <2>1, <2>2, <3>1, <3>3 DEF Told
    <3> QED BY <1>1, <1>2, <1>4, <2>1, <3>1, <3>4
  <2> QED BY <2>3, <2>4
<1> QED BY <1>8, <1>9, <1>10, <1>11, <1>12, <1>13, <1>14, <1>15, <1>16 DEF Upstream, Producing

\* The steps of forwardStream.
LEMMA ForwardingHonestInv ==
    ASSUME TypeOK, EndInvs, CancelInvs, HonestInvs, NEW r \in Stream, NEW s \in Stream, Forwarding(s)
    PROVE  HonestInv(r)'
<1>1. /\ HonestInv(r) /\ HonestInv(s) /\ EndInv(s)
      /\ DOMAIN fwd = Stream /\ DOMAIN held = Stream /\ DOMAIN ended = Stream
      /\ DOMAIN ch = Stream /\ DOMAIN ctx = Stream /\ ch[s] \in Seq(Events)
  BY DEF TypeOK, HonestInvs, EndInvs
<1>2. UNCHANGED <<serve, prod, body, todo, cancel>>
  BY DEF Forwarding, Receive, NotifyEvent, RangeEnds, CleanUp, prodVars
<1> USE DEF HonestInv, ctxVars, prodVars, chanVars, fwdVars, outVars
<1>3. CASE Receive(s)
  <2>1. /\ fwd[s] = "range" /\ held[s] = <<>> /\ ch[s] # <<>>
        /\ held'[s] = <<Head(ch[s])>> /\ ch'[s] = Tail(ch[s])
        /\ ended'[s] <=> ended[s] \/ Head(ch[s]) \in {"error", "end"}
        /\ \A q \in Stream \ {s} : held'[q] = held[q] /\ ch'[q] = ch[q] /\ ended'[q] = ended[q]
        /\ UNCHANGED <<fwd, ctx, said>>
    BY <1>1, <1>3 DEF Receive
  <2>2. Has(ch[s], "error") <=> Has(Tail(ch[s]), "error") \/ Head(ch[s]) = "error"
    BY <1>1, <2>1, HasTail
  <2>3. Told(r) => Told(r)'
    BY <1>2, <2>1, <2>2 DEF Told
  <2>4. r = s /\ Head(ch[s]) \in {"error", "end"} => Closing(r)'
    BY <2>1 DEF Closing
  <2>5. held[s] \notin {<<"error">>, <<"end">>}
    BY <2>1
  <2>6. CASE r = s
    <3>1. Closing(r) => Closing(r)'
      BY <2>1, <2>5, <2>6 DEF Closing
    <3> QED BY <1>1, <1>2, <2>1, <2>3, <2>4, <2>6, <3>1
  <2>7. CASE r # s
    <3>1. Closing(r) => Closing(r)'
      BY <2>1, <2>7 DEF Closing
    <3> QED BY <1>1, <1>2, <2>1, <2>3, <2>7, <3>1
  <2> QED BY <2>6, <2>7
<1>4. CASE NotifyEvent(s)
  <2>1. /\ held[s] # <<>> /\ held'[s] = <<>> /\ Say(s, Head(held[s]))
        /\ \A q \in Stream \ {s} : held'[q] = held[q]
        /\ UNCHANGED <<ch, ended, fwd, ctx>>
    BY <1>1, <1>4 DEF NotifyEvent
  <2>2. PICK e \in Events : held[s] = <<e>>
    BY <1>1, <2>1 DEF EndInv
  <2>3. Head(held[s]) = e
    BY <2>2
  <2>4. Say(s, e)
    BY <2>1, <2>3
  <2>5. e \in Messages
    BY DEF Messages
  <2>6. /\ Has(said[r], "error") => Has(said'[r], "error")
        /\ Has(said[r], "end") => Has(said'[r], "end")
        /\ Has(said'[s], e)
    BY <2>4, <2>5, SayKeeps DEF Messages, Events
  <2>7. \A k : held[s] = <<k>> => k = e
    BY <2>2, <2>3
  <2>8. (Told(r) => Told(r)') /\ (Closing(r) => Closing(r)')
    BY <1>2, <2>1, <2>6, <2>7 DEF Told, Closing
  <2> QED BY <1>1, <1>2, <2>1, <2>8
<1>5. CASE RangeEnds(s)
  <2>1. /\ held[s] = <<>> /\ held'[s] = IF ended[s] THEN <<>> ELSE <<"end">>
        /\ fwd[s] = "range" /\ fwd'[s] = "clean"
        /\ \A q \in Stream \ {s} : held'[q] = held[q] /\ fwd'[q] = fwd[q]
        /\ UNCHANGED <<ch, ended, ctx, said>>
    BY <1>1, <1>5 DEF RangeEnds
  <2>2. Told(r) => Told(r)'
    BY <1>2, <2>1 DEF Told
  <2>3. (Closing(r) => Closing(r)') /\ (r = s => Closing(r)')
    BY <1>1, <2>1 DEF Closing
  <2> QED BY <1>1, <1>2, <2>1, <2>2, <2>3
<1>6. CASE CleanUp(s)
  <2>1. /\ fwd[s] = "clean" /\ fwd'[s] = "done"
        /\ \A q \in Stream \ {s} : fwd'[q] = fwd[q] /\ ctx'[q] = ctx[q]
        /\ UNCHANGED <<ch, held, ended, said>>
    BY <1>1, <1>6 DEF CleanUp
  <2>2. (Told(r) => Told(r)') /\ (Closing(r) => Closing(r)')
    BY <1>2, <2>1 DEF Told, Closing
  <2> QED BY <1>1, <1>2, <2>1, <2>2
<1> QED BY <1>3, <1>4, <1>5, <1>6 DEF Forwarding

\* Every step keeps the invariant.
LEMMA NextHonestInv == TypeOK /\ EndInvs /\ CancelInvs /\ HonestInvs /\ [Next]_vars => HonestInvs'
<1> SUFFICES ASSUME TypeOK, EndInvs, CancelInvs, HonestInvs, [Next]_vars, NEW r \in Stream
             PROVE  HonestInv(r)'
  BY DEF HonestInvs
<1>1. CASE HostReads \/ UNCHANGED vars
  <2>1. UNCHANGED <<ctx, serve, prod, todo, body, ch, fwd, held, ended, cancel, said>>
    BY <1>1 DEF HostReads, vars, ctxVars, prodVars, chanVars, fwdVars
  <2> QED BY <2>1 DEF HonestInvs, HonestInv, Told, Closing
<1> QED BY <1>1, ServingHonestInv, ProducingHonestInv, ForwardingHonestInv DEF Next

\* A stream forwarded to its end had a terminal event, of success only if the
\* upstream came to an end or the host cancelled.
THEOREM PluginIsHonest == Spec => []HonestPlugin
<1>1. Init => CancelInvs /\ HonestInvs
  BY DEF Init, CancelInvs, CancelInv, Entered, HonestInvs, HonestInv
<1>2. TypeOK /\ EndInvs /\ HonestInvs => HonestPlugin
  <2> SUFFICES ASSUME TypeOK, EndInvs, HonestInvs, NEW s \in Stream, fwd[s] = "done"
               PROVE  /\ Said(s, "end") \/ Said(s, "error")
                      /\ ~Said(s, "error") => body[s] \in {"done", "eof", "cancelled"}
                      /\ body[s] = "cancelled" => cancel[s] \notin {"none", "asked", "found"}
    BY DEF HonestPlugin
  <2>1. /\ EndInv(s) /\ HonestInv(s)
        /\ \A k : Said(s, k) <=> Has(said[s], k)
        /\ body[s] \in {"open", "done", "eof", "bad", "cut", "cancelled"}
    BY DEF TypeOK, EndInvs, HonestInvs, Said, Has
  <2>2. held[s] = <<>> /\ ch[s] = <<>> /\ prod[s] = "done" /\ todo[s] = <<>>
    BY <2>1 DEF EndInv
  <2>3. Told(s) => Has(said[s], "error")
    BY <2>2, HasEmpty DEF Told
  <2>4. Closing(s) /\ (Closing(s) => Has(said[s], "error") \/ Has(said[s], "end"))
    BY <2>1, <2>2 DEF HonestInv, Closing
  <2> QED BY <2>1, <2>2, <2>3, <2>4 DEF HonestInv
<1> QED BY <1>1, <1>2, InitTypeOK, NextTypeOK, InitEndInv, NextEndInv, NextCancelInv, NextHonestInv,
        PTL DEF Spec
=============================================================================
