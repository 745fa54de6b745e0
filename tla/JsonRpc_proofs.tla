--------------------------- MODULE JsonRpc_proofs ---------------------------
(***************************************************************************)
(* Proofs about JsonRpc for every set of calls and every socket capacity:  *)
(* each call gets its own reply, an open connection's map holds no entry   *)
(* of a call that has returned, and closeCh is closed once.                *)
(***************************************************************************)
EXTENDS JsonRpc, SequenceTheorems, TLAPS

-----------------------------------------------------------------------------
(* closeWith.                                                              *)

\* closeCh is closed by the one caller that won the compare-and-swap.
CloseInv ==
    /\ closer \in [Closer -> {"none", "entered", "won", "done"}]
    /\ closed \in BOOLEAN
    /\ closeCh \in {0, 1}
    /\ \A k \in Closer : closer[k] = "won" => closed /\ closeCh = 0
    /\ closeCh = 1 => closed
    /\ \A j, k \in Closer : closer[j] = "won" /\ closer[k] = "won" => j = k

\* closeWith's invariant holds at first and after every step.
LEMMA CloseInvariant ==
    /\ Init => CloseInv
    /\ CloseInv /\ [Next]_vars => CloseInv'
<1>1. Init => CloseInv
  <2> SUFFICES ASSUME Init PROVE CloseInv
    OBVIOUS
  <2>1. closer = [k \in Closer |-> "none"]
    BY DEF Init
  <2>2. \A k \in Closer : closer[k] # "won"
    BY <2>1
  <2>3. closer \in [Closer -> {"none", "entered", "won", "done"}]
    BY <2>1
  <2>4. closed \in BOOLEAN
    BY Zenon DEF Init
  <2>5. closeCh \in {0, 1} /\ ~(closeCh = 1)
    BY DEF Init
  <2> QED BY <2>2, <2>3, <2>4, <2>5 DEF CloseInv
<1>2. ASSUME CloseInv, NEW k \in Closer, CloseCAS(k) PROVE CloseInv'
  <2>1. CASE closed
    BY <1>2, <2>1 DEF CloseInv, CloseCAS
  <2>2. CASE ~closed
    <3>1. closer' = [closer EXCEPT ![k] = "won"] /\ closed' = TRUE /\ closeCh' = closeCh
      BY <1>2, <2>2 DEF CloseCAS
    <3>2. closeCh = 0 /\ \A j \in Closer : closer[j] # "won"
      BY <1>2, <2>2 DEF CloseInv
    <3> QED BY <1>2, <3>1, <3>2 DEF CloseInv
  <2> QED BY <2>1, <2>2
<1>3. ASSUME CloseInv, NEW k \in Closer, CloseChannel(k) PROVE CloseInv'
  BY <1>3 DEF CloseInv, CloseChannel
<1>4. ASSUME CloseInv, CloseBegin PROVE CloseInv'
  BY <1>4 DEF CloseInv, CloseBegin, Closer
<1>5. ASSUME CloseInv, ReadEOF PROVE CloseInv'
  BY <1>5 DEF CloseInv, ReadEOF, Closer
<1>6. ASSUME CloseInv, UNCHANGED endVars PROVE CloseInv'
  BY <1>6 DEF CloseInv, endVars
<1>7. ASSUME [Next]_vars, CloseInv PROVE CloseInv'
  <2>1. CASE UNCHANGED vars BY <2>1, <1>6, <1>7 DEF vars, endVars
  <2>2. ASSUME NEW c \in Call, Begin(c) \/ CtxDone(c) \/ Writes(c) \/ Returns(c)
        PROVE  UNCHANGED endVars
    BY <2>2 DEF Begin, CtxDone, Writes, Register, WriteBegin, WriteEnd, WriteError,
                Returns, SelectCtx, SelectClosed, SelectReply, Leave
  <2>3. CASE ReadReply \/ ReadNote \/ NoteDone \/ Dispatches
    BY <2>3, <1>6, <1>7 DEF ReadReply, ReadNote, NoteDone, Dispatches, Dispatch, DispatchSend
  <2>4. CASE PeerRead \/ Answers \/ PeerNote \/ PeerWritten \/ PeerDies
    BY <2>4, <1>6, <1>7 DEF PeerRead, Answers, PeerReply, PeerNote, PeerWritten, PeerDies
  <2> QED BY <1>3, <1>2, <1>4, <1>5, <1>6, <1>7, <2>1, <2>2, <2>3, <2>4 DEF Next, Reads, Closes
<1> QED BY <1>1, <1>7

\* Serve and Close may call closeWith together: closeCh is closed at most once
\* and never before closed is set.
THEOREM ClosedOnceHolds == Spec => []ClosedOnce
<1>1. CloseInv => ClosedOnce
  BY DEF CloseInv, ClosedOnce
<1> QED BY <1>1, CloseInvariant, PTL DEF Spec

-----------------------------------------------------------------------------
(* Which entries and replies there are.                                    *)

\* Ids are given once; an entry of the map belongs to a call under way, and a
\* call whose reply was taken out of the map is not in it any more.
EntryInv ==
    /\ nextID \in Nat
    /\ id \in [Call -> Nat]
    /\ st \in [Call -> States]
    /\ \A c \in Call : id[c] <= nextID /\ (id[c] = 0 <=> st[c] = "idle")
    /\ \A c, d \in Call : id[c] = id[d] /\ id[c] # 0 => c = d
    /\ pending \subseteq (Nat \X Call)
    /\ \A p \in pending : p[1] = id[p[2]] /\ st[p[2]] \notin {"idle", "new"}
    /\ DOMAIN box = Call
    /\ \A t \in taken : t[1] \in Call /\ st[t[1]] \notin {"idle", "new"}
    /\ \A t \in taken : \A p \in pending : p[2] # t[1]
    /\ \A c \in Call : box[c] # <<>> =>
          st[c] \notin {"idle", "new"} /\ \A p \in pending : p[2] # c

\* The entry invariant holds at first.
LEMMA InitEntryInv == Init => EntryInv
BY DEF Init, EntryInv, States

\* A call's own steps keep it.
LEMMA CallEntryInv ==
    ASSUME EntryInv, NEW c \in Call, Begin(c) \/ CtxDone(c) \/ Writes(c) \/ Returns(c)
    PROVE  EntryInv'
<1> USE DEF EntryInv, States
<1>1. CASE Begin(c)
  <2>1. /\ st[c] = "idle" /\ id[c] = 0 /\ nextID' = nextID + 1
        /\ id' = [id EXCEPT ![c] = nextID + 1] /\ st' = [st EXCEPT ![c] = "new"]
        /\ UNCHANGED <<pending, box, taken>>
    BY <1>1 DEF Begin, TakeID
  <2>2. \A d \in Call : d # c => id'[d] = id[d] /\ st'[d] = st[d]
    BY <2>1
  <2>3. id'[c] = nextID + 1 /\ st'[c] = "new"
    BY <2>1
  <2>4. \A d, e \in Call : id'[d] = id'[e] /\ id'[d] # 0 => d = e
    BY <2>1, <2>2, <2>3
  <2>5. \A p \in pending : p[2] \in Call /\ p[2] # c
    BY <2>1
  <2>6. \A t \in taken : t[1] # c
    BY <2>1
  <2>7. \A d \in Call : id'[d] <= nextID' /\ (id'[d] = 0 <=> st'[d] = "idle")
    BY <2>1, <2>2, <2>3
  <2> QED BY <2>1, <2>2, <2>3, <2>4, <2>5, <2>6, <2>7
<1>2. CASE CtxDone(c) BY <1>2 DEF CtxDone
<1>3. CASE Register(c)
  <2>1. /\ st[c] = "new" /\ st' = [st EXCEPT ![c] = "registered"]
        /\ pending' = {p \in pending : p[1] # id[c]} \cup {<<id[c], c>>}
        /\ UNCHANGED <<nextID, id, box, taken>>
    BY <1>3 DEF Register
  <2>2. box[c] = <<>> /\ \A t \in taken : t[1] # c
    BY <2>1
  <2> QED BY <2>1, <2>2
<1>4. CASE WriteBegin(c) BY <1>4 DEF WriteBegin
<1>5. CASE WriteEnd(c) BY <1>5 DEF WriteEnd
<1>6. CASE WriteError(c) BY <1>6 DEF WriteError
<1>7. CASE SelectCtx(c) BY <1>7 DEF SelectCtx
<1>8. CASE SelectClosed(c) BY <1>8 DEF SelectClosed
<1>9. CASE SelectReply(c) BY <1>9 DEF SelectReply
<1>10. CASE Leave(c) BY <1>10 DEF Leave
<1> QED BY <1>1, <1>2, <1>3, <1>4, <1>5, <1>6, <1>7, <1>8, <1>9, <1>10 DEF Writes, Returns

\* Dispatch moves an entry's call from the map to its channel.
LEMMA DispatchEntryInv ==
    ASSUME EntryInv, Dispatches
    PROVE  EntryInv'
<1>1. ASSUME NEW m \in disp, Dispatch(m) PROVE EntryInv'
  <2>1. /\ pending' = {p \in pending : p[1] # m.id}
        /\ taken' = taken \cup {<<p[2], m>> : p \in {q \in pending : q[1] = m.id}}
        /\ UNCHANGED <<nextID, id, st, box>>
    BY <1>1 DEF Dispatch, callVars
  <2>2. \A t \in taken' : t \in taken \/ \E p \in pending : p[1] = m.id /\ t[1] = p[2]
    BY <2>1
  <2>3. \A t \in taken' : \A p \in pending' : p[2] # t[1]
    BY <2>1, <2>2 DEF EntryInv
  <2> QED BY <2>1, <2>2, <2>3 DEF EntryInv
<1>2. ASSUME NEW t \in taken, DispatchSend(t) PROVE EntryInv'
  BY <1>2 DEF DispatchSend, EntryInv, callVars
<1> QED BY <1>1, <1>2 DEF Dispatches

\* Every step keeps the entry invariant.
LEMMA NextEntryInv == EntryInv /\ [Next]_vars => EntryInv'
<1> SUFFICES ASSUME EntryInv, [Next]_vars PROVE EntryInv'
  OBVIOUS
<1>1. CASE UNCHANGED <<nextID, id, st, pending, box, taken>>
  BY <1>1 DEF EntryInv
<1>2. CASE UNCHANGED vars BY <1>1, <1>2 DEF vars
<1>3. CASE Reads \/ NoteDone \/ CloseBegin \/ \E k \in Closer : Closes(k)
  BY <1>1, <1>3 DEF Reads, ReadReply, ReadNote, ReadEOF, NoteDone, CloseBegin, Closes,
                    CloseCAS, CloseChannel, callVars
<1>4. CASE PeerRead \/ Answers \/ PeerNote \/ PeerWritten \/ PeerDies
  BY <1>1, <1>4 DEF PeerRead, Answers, PeerReply, PeerNote, PeerWritten, PeerDies, callVars
<1> QED BY <1>2, <1>3, <1>4, CallEntryInv, DispatchEntryInv DEF Next

\* While the connection is open no call that has returned is in the map.
OrphanInv == EntryInv /\ CloseInv /\ NoOrphanPending

\* NoOrphanPending is inductive relative to the two invariants above.
LEMMA NextNoOrphan == OrphanInv /\ [Next]_vars => NoOrphanPending'
<1> SUFFICES ASSUME EntryInv, CloseInv, NoOrphanPending, [Next]_vars PROVE NoOrphanPending'
  BY DEF OrphanInv
<1>1. closed => closed'
  BY DEF Next, vars, Begin, CtxDone, Writes, Register, WriteBegin, WriteEnd, WriteError,
         Returns, SelectCtx, SelectClosed, SelectReply, Leave, Reads, ReadReply, ReadNote,
         ReadEOF, NoteDone, Dispatches, Dispatch, DispatchSend, CloseBegin, Closes, CloseCAS,
         CloseChannel, PeerRead, Answers, PeerReply, PeerNote, PeerWritten, PeerDies, endVars
<1>2. CASE closed
  BY <1>1, <1>2 DEF NoOrphanPending
<1>3. CASE ~closed
  <2> USE <1>3 DEF NoOrphanPending
  <2>1. ASSUME NEW c \in Call, Begin(c) \/ CtxDone(c) \/ Writes(c) \/ Returns(c)
        PROVE  NoOrphanPending'
    <3>1. \A p \in pending : p[2] \in Call /\ p[1] = id[p[2]]
      BY DEF EntryInv
    <3>2. CASE Begin(c) BY <3>1, <3>2 DEF Begin, EntryInv
    <3>3. CASE CtxDone(c) BY <3>3 DEF CtxDone
    <3>4. CASE Register(c) BY <3>1, <3>4 DEF Register, EntryInv
    <3>5. CASE WriteBegin(c) \/ WriteEnd(c) \/ WriteError(c) \/ SelectCtx(c)
      BY <3>1, <3>5 DEF WriteBegin, WriteEnd, WriteError, SelectCtx, EntryInv
    <3>6. CASE SelectClosed(c) BY <3>6 DEF SelectClosed, CloseInv
    <3>7. CASE SelectReply(c) BY <3>1, <3>7 DEF SelectReply, EntryInv
    <3>8. CASE Leave(c) BY <3>1, <3>8 DEF Leave, EntryInv
    <3> QED BY <2>1, <3>2, <3>3, <3>4, <3>5, <3>6, <3>7, <3>8 DEF Writes, Returns
  <2>2. ASSUME UNCHANGED st, pending' \subseteq pending PROVE NoOrphanPending'
    BY <2>2
  <2>3. CASE UNCHANGED vars BY <2>2, <2>3 DEF vars
  <2>4. CASE Reads \/ NoteDone \/ CloseBegin \/ \E k \in Closer : Closes(k)
    BY <2>2, <2>4 DEF Reads, ReadReply, ReadNote, ReadEOF, NoteDone, CloseBegin, Closes,
                      CloseCAS, CloseChannel, callVars
  <2>5. CASE Dispatches
    BY <2>2, <2>5 DEF Dispatches, Dispatch, DispatchSend, callVars
  <2>6. CASE PeerRead \/ Answers \/ PeerNote \/ PeerWritten \/ PeerDies
    BY <2>2, <2>6 DEF PeerRead, Answers, PeerReply, PeerNote, PeerWritten, PeerDies, callVars
  <2> QED BY <2>1, <2>3, <2>4, <2>5, <2>6 DEF Next
<1> QED BY <1>2, <1>3

\* An open connection's map holds no entry of a call that has returned, for
\* any number of calls: ids are unique, so deleting an id deletes one's own.
THEOREM NoOrphans == Spec => []NoOrphanPending
<1>1. Init => OrphanInv
  BY InitEntryInv, CloseInvariant DEF Init, OrphanInv, NoOrphanPending
<1>2. OrphanInv /\ [Next]_vars => OrphanInv'
  BY NextEntryInv, NextNoOrphan, CloseInvariant DEF OrphanInv
<1>3. OrphanInv => NoOrphanPending
  BY DEF OrphanInv
<1> QED BY <1>1, <1>2, <1>3, PTL DEF Spec
-----------------------------------------------------------------------------
(* Replies reach the call they answer.                                     *)

\* The messages that carry the id of the call they belong to.
Good == {m \in Message : m.id = id[m.from]}

\* Those that belong to call c.
Own(c) == {m \in Message : m = [id |-> id[c], from |-> c]}

\* Every message, wherever it is, is good; a reply in a call's hands is its own.
MsgInv ==
    /\ out \in Seq(Good)
    /\ in \in Seq(Good \cup {Note})
    /\ pmu \in Seq(Good \cup {Note})
    /\ disp \subseteq Good
    /\ serving \subseteq Good
    /\ \A t \in taken : t[1] \in Call /\ t[2] \in Own(t[1])
    /\ DOMAIN box = Call /\ DOMAIN res = Call
    /\ \A c \in Call : box[c] \in Seq(Own(c)) /\ res[c] \in Seq(Own(c))

\* A sequence over a set is one over every larger set.
LEMMA SeqGrows ==
    ASSUME NEW S, NEW T, S \subseteq T, NEW q \in Seq(S)
    PROVE  q \in Seq(T)
<1>1. q \in [1 .. Len(q) -> S] /\ Len(q) \in Nat
  BY LenProperties
<1>2. q \in [1 .. Len(q) -> T]
  BY <1>1
<1> QED BY <1>1, <1>2, SeqDef

\* No message is about at first.
LEMMA InitMsgInv == Init => MsgInv
<1> SUFFICES ASSUME Init PROVE MsgInv
  OBVIOUS
<1>1. \A S : <<>> \in Seq(S)
  BY EmptySeq
<1> QED BY <1>1 DEF Init, MsgInv

\* Head, tail and append of sequences of messages.
LEMMA MsgSeqs ==
    ASSUME NEW S
    PROVE  /\ \A q \in Seq(S) : q # <<>> => Head(q) \in S /\ Tail(q) \in Seq(S)
           /\ \A q \in Seq(S), m \in S : Append(q, m) \in Seq(S)
           /\ \A m \in S : <<m>> \in Seq(S)
           /\ <<>> \in Seq(S)
<1>1. ASSUME NEW q \in Seq(S), q # <<>> PROVE Head(q) \in S /\ Tail(q) \in Seq(S)
  BY <1>1, HeadTailProperties
<1>2. ASSUME NEW q \in Seq(S), NEW m \in S PROVE Append(q, m) \in Seq(S)
  BY AppendProperties
<1>3. ASSUME NEW m \in S PROVE <<m>> \in Seq(S)
  OBVIOUS
<1> QED BY <1>1, <1>2, <1>3, EmptySeq

\* A new call's id is fresh, so the messages about stay good.
LEMMA BeginMsgInv ==
    ASSUME EntryInv, MsgInv, NEW c \in Call, Begin(c)
    PROVE  MsgInv'
<1>1. /\ id[c] = 0 /\ id' = [id EXCEPT ![c] = nextID + 1] /\ id \in [Call -> Nat]
      /\ UNCHANGED <<out, in, pmu, disp, serving, taken, box, res>>
  BY DEF Begin, TakeID, EntryInv, peerVars
<1>2. Good \subseteq Good'
  <2> SUFFICES ASSUME NEW m \in Good PROVE m \in Message /\ m.id = id'[m.from]
    BY DEF Good
  <2>1. m \in Message /\ m.id = id[m.from] /\ m.id # 0 /\ m.from \in Call
    BY DEF Good, Message
  <2> QED BY <1>1, <2>1
<1>3. \A d \in Call : Own(d) \subseteq Own(d)'
  <2> SUFFICES ASSUME NEW d \in Call, NEW m \in Own(d)
               PROVE  m \in Message /\ m = [id |-> id'[d], from |-> d]
    BY DEF Own
  <2>1. m \in Message /\ m = [id |-> id[d], from |-> d] /\ m.id # 0
    BY DEF Own, Message
  <2>2. id[d] # 0
    BY <2>1
  <2> QED BY <1>1, <2>1, <2>2
<1>4. out \in Seq(Good')
  BY <1>2, SeqGrows DEF MsgInv
<1>5. Good \cup {Note} \subseteq Good' \cup {Note}
  BY <1>2
<1>6. in \in Seq(Good' \cup {Note}) /\ pmu \in Seq(Good' \cup {Note})
  BY <1>5, SeqGrows DEF MsgInv
<1>7. \A d \in Call : box[d] \in Seq(Own(d)') /\ res[d] \in Seq(Own(d)')
  BY <1>3, SeqGrows DEF MsgInv
<1>8. Note' = Note
  BY DEF Note
<1> QED BY <1>1, <1>2, <1>3, <1>4, <1>6, <1>7, <1>8 DEF MsgInv

\* The other steps of a call: it writes its own id and takes what it was sent.
LEMMA CallMsgInv ==
    ASSUME EntryInv, MsgInv, NEW c \in Call, CtxDone(c) \/ Writes(c) \/ Returns(c)
    PROVE  MsgInv'
<1>1. id' = id
  BY DEF CtxDone, Writes, Register, WriteBegin, WriteEnd, WriteError, Returns, SelectCtx,
         SelectClosed, SelectReply, Leave
<1>2. Good' = Good /\ (\A d : Own(d)' = Own(d)) /\ Note' = Note
  BY <1>1 DEF Good, Own, Note
<1>3. CASE WriteEnd(c)
  <2> DEFINE m == [id |-> id[c], from |-> c]
  <2>1. m \in Good
    BY <1>3 DEF WriteEnd, EntryInv, Good, Message
  <2>2. Append(out, m) \in Seq(Good)
    BY <2>1, MsgSeqs DEF MsgInv
  <2> QED BY <1>2, <1>3, <2>2 DEF WriteEnd, MsgInv, peerVars
<1>4. CASE SelectReply(c)
  <2>1. /\ res' = [res EXCEPT ![c] = box[c]] /\ box' = [box EXCEPT ![c] = <<>>]
        /\ UNCHANGED <<out, in, pmu, disp, serving, taken>>
    BY <1>4 DEF SelectReply, peerVars
  <2>2. <<>> \in Seq(Own(c))
    BY MsgSeqs
  <2> QED BY <1>2, <2>1, <2>2 DEF MsgInv
<1>5. CASE UNCHANGED <<out, in, pmu, disp, serving, taken, box, res>>
  BY <1>2, <1>5 DEF MsgInv
<1> QED BY <1>3, <1>4, <1>5 DEF CtxDone, Writes, Register, WriteBegin, WriteError, Returns,
                SelectCtx, SelectClosed, Leave, peerVars

\* Serve and dispatch: the entry found for a reply is that of the reply's call.
LEMMA ReadMsgInv ==
    ASSUME EntryInv, MsgInv, Reads \/ NoteDone \/ Dispatches
    PROVE  MsgInv'
<1>1. id' = id
  BY DEF Reads, ReadReply, ReadNote, ReadEOF, NoteDone, Dispatches, Dispatch, DispatchSend, callVars
<1>2. Good' = Good /\ (\A d : Own(d)' = Own(d)) /\ Note' = Note
  BY <1>1 DEF Good, Own, Note
<1>3. in # <<>> => Head(in) \in Good \cup {Note} /\ Tail(in) \in Seq(Good \cup {Note})
  BY MsgSeqs DEF MsgInv
<1>4. CASE ReadReply
  <2>1. Head(in) \in Good
    BY <1>3, <1>4 DEF ReadReply, Note
  <2> QED BY <1>2, <1>3, <1>4, <2>1 DEF ReadReply, MsgInv, callVars, peerVars
<1>5. CASE ReadNote
  BY <1>2, <1>3, <1>5 DEF ReadNote, MsgInv, callVars, peerVars
<1>6. ASSUME NEW m \in disp, Dispatch(m) PROVE MsgInv'
  <2>1. /\ disp' = disp \ {m}
        /\ taken' = taken \cup {<<p[2], m>> : p \in {q \in pending : q[1] = m.id}}
        /\ UNCHANGED <<out, in, pmu, serving, box, res>>
    BY <1>6 DEF Dispatch, callVars, peerVars
  <2>2. m \in Good /\ m \in Message /\ m.from \in Call /\ m.id = id[m.from] /\ m.id # 0
    BY <1>6 DEF MsgInv, Good, Message
  <2>3. ASSUME NEW p \in pending, p[1] = m.id PROVE p[2] \in Call /\ m \in Own(p[2])
    <3>1. p[2] \in Call /\ id[p[2]] = id[m.from] /\ id[p[2]] # 0
      BY <2>2, <2>3 DEF EntryInv
    <3>2. p[2] = m.from
      BY <2>2, <3>1 DEF EntryInv
    <3>3. m = [id |-> id[p[2]], from |-> p[2]]
      BY <2>2, <3>2 DEF Message
    <3> QED BY <2>2, <3>1, <3>3 DEF Own
  <2>4. \A t \in taken' : t[1] \in Call /\ t[2] \in Own(t[1])
    BY <2>1, <2>3 DEF MsgInv
  <2> QED BY <1>2, <2>1, <2>4 DEF MsgInv
<1>7. ASSUME NEW t \in taken, DispatchSend(t) PROVE MsgInv'
  <2>1. <<t[2]>> \in Seq(Own(t[1])) /\ t[1] \in Call
    BY <1>7, MsgSeqs DEF MsgInv
  <2>2. /\ box' = [box EXCEPT ![t[1]] = <<t[2]>>] /\ taken' = taken \ {t}
        /\ UNCHANGED <<out, in, pmu, disp, serving, res>>
    BY <1>7 DEF DispatchSend, callVars, peerVars
  <2> QED BY <1>2, <2>1, <2>2 DEF MsgInv
<1>8. CASE ReadEOF \/ NoteDone
  BY <1>2, <1>8 DEF ReadEOF, NoteDone, MsgInv, callVars, peerVars
<1> QED BY <1>4, <1>5, <1>6, <1>7, <1>8 DEF Reads, Dispatches

\* The plugin hands requests back as replies.
LEMMA PeerMsgInv ==
    ASSUME MsgInv, PeerRead \/ Answers \/ PeerNote \/ PeerWritten \/ PeerDies
    PROVE  MsgInv'
<1>1. id' = id
  BY DEF PeerRead, Answers, PeerReply, PeerNote, PeerWritten, PeerDies, callVars
<1>2. Good' = Good /\ (\A d : Own(d)' = Own(d)) /\ Note' = Note
  BY <1>1 DEF Good, Own, Note
<1>3. CASE PeerRead
  <2>1. Head(out) \in Good /\ Tail(out) \in Seq(Good)
    BY <1>3, MsgSeqs DEF PeerRead, MsgInv
  <2> QED BY <1>2, <1>3, <2>1 DEF PeerRead, MsgInv, callVars
<1>4. ASSUME NEW m \in serving, PeerReply(m) PROVE MsgInv'
  <2>1. <<m>> \in Seq(Good \cup {Note})
    BY <1>4, MsgSeqs DEF MsgInv
  <2> QED BY <1>2, <1>4, <2>1 DEF PeerReply, MsgInv, callVars
<1>5. CASE PeerNote
  <2>1. <<Note>> \in Seq(Good \cup {Note})
    BY MsgSeqs
  <2> QED BY <1>2, <1>5, <2>1 DEF PeerNote, MsgInv, callVars
<1>6. CASE PeerWritten
  <2>1. in \o pmu \in Seq(Good \cup {Note}) /\ <<>> \in Seq(Good \cup {Note})
    BY ConcatProperties, MsgSeqs DEF MsgInv
  <2> QED BY <1>2, <1>6, <2>1 DEF PeerWritten, MsgInv, callVars
<1>7. CASE PeerDies
  BY <1>2, <1>7 DEF PeerDies, MsgInv, callVars
<1> QED BY <1>3, <1>4, <1>5, <1>6, <1>7 DEF Answers

\* Every step keeps the message invariant.
LEMMA NextMsgInv == EntryInv /\ MsgInv /\ [Next]_vars => MsgInv'
<1> SUFFICES ASSUME EntryInv, MsgInv, [Next]_vars PROVE MsgInv'
  OBVIOUS
<1>1. CASE UNCHANGED <<id, out, in, pmu, disp, serving, taken, box, res>>
  BY <1>1 DEF MsgInv, Good, Own, Note
<1>2. CASE UNCHANGED vars
  BY <1>1, <1>2 DEF vars
<1>3. CASE CloseBegin \/ \E k \in Closer : Closes(k)
  BY <1>1, <1>3 DEF CloseBegin, Closes, CloseCAS, CloseChannel, callVars, peerVars
<1> QED BY <1>2, <1>3, BeginMsgInv, CallMsgInv, ReadMsgInv, PeerMsgInv DEF Next

\* A call that returns a reply returns the reply to its own request, for any
\* number of calls and whatever replies come late or out of order.
THEOREM RepliesMatch == Spec => []OwnReply
<1>1. Init => EntryInv /\ MsgInv
  BY InitEntryInv, InitMsgInv
<1>2. EntryInv /\ MsgInv /\ [Next]_vars => EntryInv' /\ MsgInv'
  BY NextEntryInv, NextMsgInv
<1>3. MsgInv => OwnReply
  <2> SUFFICES ASSUME MsgInv, NEW c \in Call, NEW i \in DOMAIN res[c]
               PROVE  res[c][i] = [id |-> id[c], from |-> c]
    BY DEF OwnReply
  <2>1. res[c] \in Seq(Own(c))
    BY DEF MsgInv
  <2>2. res[c][i] \in Own(c)
    BY <2>1, LenProperties
  <2> QED BY <2>2 DEF Own
<1> QED BY <1>1, <1>2, <1>3, PTL DEF Spec

-----------------------------------------------------------------------------
(* No reply is lost on a call that waits for it.                           *)

\* What a sequence of messages holds.
LEMMA MsgRanges ==
    ASSUME NEW S
    PROVE  /\ Range(<<>>) = {} /\ \A m \in S : Range(<<m>>) = {m}
           /\ \A q \in Seq(S), m \in S : Range(Append(q, m)) = Range(q) \cup {m}
           /\ \A q \in Seq(S) : q # <<>> => Range(q) = {Head(q)} \cup Range(Tail(q))
           /\ \A p, q \in Seq(S) : Range(p \o q) = Range(p) \cup Range(q)
<1>1. Range(<<>>) = {} /\ \A m \in S : Range(<<m>>) = {m}
  BY DEF Range
<1>2. ASSUME NEW q \in Seq(S), NEW m \in S PROVE Range(Append(q, m)) = Range(q) \cup {m}
  <2> DEFINE a == Append(q, m)
  <2>1. /\ a \in Seq(S) /\ Len(a) = Len(q) + 1 /\ Len(q) \in Nat /\ a[Len(q) + 1] = m
        /\ \A i \in 1 .. Len(q) : a[i] = q[i]
    BY AppendProperties, LenProperties
  <2> HIDE DEF a
  <2>2. Range(a) = {a[i] : i \in 1 .. Len(a)} /\ Range(q) = {q[i] : i \in 1 .. Len(q)}
    BY <2>1, RangeEquality
  <2>3. 1 .. Len(a) = (1 .. Len(q)) \cup {Len(q) + 1}
    BY <2>1
  <2> QED BY <2>1, <2>2, <2>3 DEF a
<1>3. ASSUME NEW q \in Seq(S), q # <<>> PROVE Range(q) = {Head(q)} \cup Range(Tail(q))
  <2> DEFINE t == Tail(q)
  <2>1. /\ t \in Seq(S) /\ Len(q) \in Nat \ {0} /\ Len(t) = Len(q) - 1 /\ Head(q) = q[1]
        /\ \A i \in 1 .. Len(t) : t[i] = q[i + 1]
    BY <1>3, HeadTailProperties, LenProperties, EmptySeq
  <2> HIDE DEF t
  <2>2. Range(t) = {t[i] : i \in 1 .. Len(t)} /\ Range(q) = {q[i] : i \in 1 .. Len(q)}
    BY <2>1, RangeEquality
  <2>3. \A i \in 1 .. Len(q) : i = 1 \/ (i - 1 \in 1 .. Len(t) /\ q[i] = t[i - 1])
    BY <2>1
  <2>4. \A i \in 1 .. Len(t) : i + 1 \in 1 .. Len(q) /\ 1 \in 1 .. Len(q)
    BY <2>1
  <2>5. 1 \in 1 .. Len(q)
    BY <2>1
  <2>6. \A x \in Range(q) : x = q[1] \/ x \in Range(t)
    BY <2>2, <2>3
  <2>7. \A x \in Range(t) : x \in Range(q)
    BY <2>1, <2>2, <2>4
  <2>8. q[1] \in Range(q)
    BY <2>2, <2>5
  <2> QED BY <2>1, <2>6, <2>7, <2>8 DEF t
<1>4. ASSUME NEW p \in Seq(S), NEW q \in Seq(S) PROVE Range(p \o q) = Range(p) \cup Range(q)
  BY RangeConcatenation
<1> QED BY <1>1, <1>2, <1>3, <1>4

\* A call that has not written its request yet has its entry in the map, and no
\* message of it is about; one entry of the map gives one reply to its call.
HandInv ==
    /\ \A m \in Underway : m # Note => st[m.from] \in {"waiting", "leaving", "returned"}
    /\ \A c \in Call : st[c] \in {"registered", "writing"} => <<id[c], c>> \in pending
    /\ \A t, u \in taken : t[1] = u[1] => t = u
    /\ NoCallForgotten

\* It holds at first.
LEMMA InitHandInv == Init => HandInv
<1> SUFFICES ASSUME Init PROVE HandInv
  OBVIOUS
<1>1. Underway = {}
  BY DEF Init, Underway, Range
<1> QED BY <1>1 DEF Init, HandInv, NoCallForgotten

\* The messages about are those of calls, and notifications.
LEMMA UnderwayGood ==
    ASSUME MsgInv
    PROVE  Underway \subseteq Good \cup {Note}
<1>1. Range(out) \subseteq Good /\ Range(in) \subseteq Good \cup {Note} /\ Range(pmu) \subseteq Good \cup {Note}
  BY RangeOfSeq DEF MsgInv
<1> QED BY <1>1 DEF Underway, MsgInv

\* A message of a call is its request, and the only one with its id.
LEMMA GoodReq ==
    ASSUME EntryInv, NEW m \in Good
    PROVE  /\ m.from \in Call /\ m = Req(m.from) /\ m # Note /\ m.id # 0
           /\ \A c \in Call : m.id = id[c] => m = Req(c)
<1>1. m \in Message /\ m.id = id[m.from] /\ m.from \in Call /\ m.id # 0
  BY DEF Good, Message
<1>2. m = Req(m.from)
  BY <1>1 DEF Message, Req
<1>3. \A c \in Call : m.id = id[c] => c = m.from
  BY <1>1 DEF EntryInv
<1> QED BY <1>1, <1>2, <1>3 DEF Note

\* Messages change their place; once Close() has closed the socket they may be lost.
LEMMA MoveHandInv ==
    ASSUME HandInv, UNCHANGED <<id, st, pending, box, taken>>,
           Underway' \subseteq Underway \cup {Note},
           ncClosed' \/ (~ncClosed /\ Underway \subseteq Underway' \cup {Note}), EntryInv
    PROVE  HandInv'
<1>1. Note' = Note /\ \A c \in Call : Req(c)' = Req(c)
  BY DEF Note, Req
<1>2. \A m \in Underway' : m # Note => st'[m.from] \in {"waiting", "leaving", "returned"}
  BY DEF HandInv
<1>3. NoCallForgotten'
  <2>1. \A t \in taken' : box'[t[1]] = <<>>
    BY DEF HandInv, NoCallForgotten
  <2>2. ASSUME NEW c \in Call, st[c] = "waiting", ~ncClosed'
        PROVE  \/ box[c] # <<>> \/ \E t \in taken : t[1] = c
               \/ <<id[c], c>> \in pending /\ Req(c) \in Underway'
    <3>1. id[c] # 0
      BY <2>2 DEF EntryInv
    <3>2. Req(c) # Note
      BY <3>1 DEF Req, Note
    <3> QED BY <2>2, <3>2 DEF HandInv, NoCallForgotten
  <2> QED BY <1>1, <2>1, <2>2 DEF NoCallForgotten
<1> QED BY <1>1, <1>2, <1>3 DEF HandInv

\* The steps that only move messages.
LEMMA PassHandInv ==
    ASSUME EntryInv, CloseInv, MsgInv, HandInv,
           Reads \/ NoteDone \/ CloseBegin \/ (\E k \in Closer : Closes(k))
           \/ PeerRead \/ Answers \/ PeerNote \/ PeerWritten \/ PeerDies \/ UNCHANGED vars
    PROVE  HandInv'
<1> USE DEF callVars, peerVars, endVars
<1>1. UNCHANGED <<id, st, pending, box, taken>>
  BY DEF Reads, ReadReply, ReadNote, ReadEOF, NoteDone, CloseBegin, Closes, CloseCAS, CloseChannel,
         PeerRead, Answers, PeerReply, PeerNote, PeerWritten, PeerDies, vars
<1>2. CASE ReadEOF \/ NoteDone \/ CloseBegin \/ (\E k \in Closer : Closes(k)) \/ PeerDies \/ UNCHANGED vars
  <2>1. UNCHANGED <<out, serving, pmu, in, disp>>
    BY <1>2 DEF ReadEOF, NoteDone, CloseBegin, Closes, CloseCAS, CloseChannel, PeerDies, vars
  <2>2. Underway' = Underway
    BY <2>1 DEF Underway
  <2>3. ncClosed => ncClosed'
    <3>1. CASE ReadEOF \/ CloseBegin
      BY <3>1 DEF CloseInv, ReadEOF, CloseBegin, ncClosed, Closer
    <3>2. CASE \E k \in Closer : Closes(k)
      <4>1. PICK k \in Closer : CloseCAS(k) \/ CloseChannel(k)
        BY <3>2 DEF Closes
      <4>2. closer' = [closer EXCEPT ![k] = closer'[k]] /\ closer[k] # "done"
        BY <4>1 DEF CloseInv, CloseCAS, CloseChannel
      <4> QED BY <4>2 DEF CloseInv, ncClosed, Closer
    <3>3. CASE NoteDone \/ PeerDies \/ UNCHANGED vars
      BY <3>3 DEF NoteDone, PeerDies, vars, ncClosed
    <3> QED BY <1>2, <3>1, <3>2, <3>3
  <2> QED BY <1>1, <2>2, <2>3, MoveHandInv
<1>3. CASE ReadReply \/ ReadNote
  <2>1. /\ in # <<>> /\ in' = Tail(in) /\ UNCHANGED <<out, serving, pmu, closer>>
        /\ Head(in) \in Good \cup {Note}
        /\ \/ Head(in).id # 0 /\ disp' = disp \cup {Head(in)}
           \/ Head(in).id = 0 /\ disp' = disp
    BY <1>3, MsgSeqs DEF ReadReply, ReadNote, MsgInv
  <2>2. Range(in) = {Head(in)} \cup Range(in')
    BY <2>1, MsgRanges DEF MsgInv
  <2>3. Head(in).id = 0 => Head(in) = Note
    BY <2>1, GoodReq
  <2>4. Underway' \subseteq Underway /\ Underway \subseteq Underway' \cup {Note}
    BY <2>1, <2>2, <2>3 DEF Underway
  <2>5. ncClosed' <=> ncClosed
    BY <2>1 DEF ncClosed
  <2> QED BY <1>1, <2>4, <2>5, MoveHandInv
<1>4. CASE PeerRead
  <2>1. /\ out # <<>> /\ out' = Tail(out) /\ serving' = serving \cup {Head(out)}
        /\ UNCHANGED <<in, pmu, disp, closer>>
    BY <1>4 DEF PeerRead
  <2>2. Range(out) = {Head(out)} \cup Range(out')
    BY <2>1, MsgRanges DEF MsgInv
  <2>3. Underway' = Underway /\ (ncClosed' <=> ncClosed)
    BY <2>1, <2>2 DEF Underway, ncClosed
  <2> QED BY <1>1, <2>3, MoveHandInv
<1>5. CASE Answers
  <2>1. PICK m \in serving : PeerReply(m)
    BY <1>5 DEF Answers
  <2>2. pmu = <<>> /\ pmu' = <<m>> /\ serving' = serving \ {m} /\ UNCHANGED <<in, out, disp, closer>>
    BY <2>1 DEF PeerReply
  <2>3. Range(pmu) = {} /\ Range(pmu') = {m}
    BY <2>2, MsgRanges
  <2>4. Underway' = Underway /\ (ncClosed' <=> ncClosed)
    BY <2>2, <2>3 DEF Underway, ncClosed
  <2> QED BY <1>1, <2>4, MoveHandInv
<1>6. CASE PeerNote
  <2>1. pmu = <<>> /\ pmu' = <<Note>> /\ UNCHANGED <<serving, in, out, disp, closer>>
    BY <1>6 DEF PeerNote
  <2>2. Range(pmu) = {} /\ Range(pmu') = {Note}
    BY <2>1, MsgRanges
  <2>3. Underway' = Underway \cup {Note} /\ (ncClosed' <=> ncClosed)
    BY <2>1, <2>2 DEF Underway, ncClosed
  <2> QED BY <1>1, <2>3, MoveHandInv
<1>7. CASE PeerWritten
  <2>1. /\ pmu' = <<>> /\ UNCHANGED <<serving, out, disp, closer>>
        /\ \/ ncClosed /\ in' = in
           \/ ~ncClosed /\ in' = in \o pmu
    BY <1>7 DEF PeerWritten
  <2>2. Range(pmu') = {} /\ Range(in \o pmu) = Range(in) \cup Range(pmu)
    BY <2>1, MsgRanges DEF MsgInv
  <2>3. Underway' \subseteq Underway /\ (ncClosed \/ Underway' = Underway) /\ (ncClosed' <=> ncClosed)
    BY <2>1, <2>2 DEF Underway, ncClosed
  <2> QED BY <1>1, <2>3, MoveHandInv
<1> QED BY <1>2, <1>3, <1>4, <1>5, <1>6, <1>7 DEF Reads

\* A call registers before it writes, and takes only its own entry away.
LEMMA CallHandInv ==
    ASSUME EntryInv, MsgInv, HandInv, NEW c \in Call, Begin(c) \/ CtxDone(c) \/ Writes(c) \/ Returns(c)
    PROVE  HandInv'
<1> USE DEF peerVars, endVars
<1>1. /\ UNCHANGED <<serving, pmu, in, disp, taken, closer>>
      /\ out' = out \/ (WriteEnd(c) /\ out' = Append(out, Req(c)))
  BY DEF Begin, CtxDone, Writes, Register, WriteBegin, WriteEnd, WriteError, Returns, SelectCtx,
         SelectClosed, SelectReply, Leave, Req
<1>2. Underway \subseteq Underway' /\ \A m \in Underway' \ Underway : WriteEnd(c) /\ m = Req(c)
  <2>1. CASE out' = out
    BY <1>1, <2>1 DEF Underway
  <2>2. CASE WriteEnd(c) /\ out' = Append(out, Req(c))
    <3>1. Req(c) \in Good
      BY <2>2 DEF WriteEnd, EntryInv, Good, Message, Req
    <3>2. Range(out') = Range(out) \cup {Req(c)}
      BY <2>2, <3>1, MsgRanges DEF MsgInv
    <3> QED BY <1>1, <2>2, <3>2 DEF Underway
  <2> QED BY <1>1, <2>1, <2>2
<1>3. \A d \in Call \ {c} : /\ st'[d] = st[d] /\ id'[d] = id[d] /\ box'[d] = box[d]
                            /\ (<<id[d], d>> \in pending => <<id[d], d>> \in pending')
  <2>1. \A d \in Call \ {c} : st'[d] = st[d] /\ id'[d] = id[d] /\ box'[d] = box[d]
    BY DEF EntryInv, Begin, TakeID, CtxDone, Writes, Register, WriteBegin, WriteEnd, WriteError, Returns,
           SelectCtx, SelectClosed, SelectReply, Leave
  <2>2. \A d \in Call \ {c} : <<id[d], d>> \in pending => id[d] # 0 /\ id[d] # id[c]
    BY DEF EntryInv
  <2>3. \A d \in Call \ {c} : <<id[d], d>> \in pending /\ id[d] # id[c] => <<id[d], d>> \in pending'
    BY DEF Begin, CtxDone, Writes, Register, WriteBegin, WriteEnd, WriteError, Returns,
           SelectCtx, SelectClosed, SelectReply, Leave
  <2> QED BY <2>1, <2>2, <2>3
<1>4. Note' = Note /\ (ncClosed' <=> ncClosed) /\ \A d \in Call \ {c} : Req(d)' = Req(d)
  BY <1>1, <1>3 DEF Note, ncClosed, Req
<1>5. \A d \in Call : box'[d] = box[d] \/ box'[d] = <<>>
  BY DEF EntryInv, Begin, TakeID, CtxDone, Writes, Register, WriteBegin, WriteEnd, WriteError, Returns,
           SelectCtx, SelectClosed, SelectReply, Leave
<1>6. ASSUME st'[c] \in {"registered", "writing"} => <<id'[c], c>> \in pending',
             st[c] \in {"waiting", "leaving", "returned"} => st'[c] \in {"waiting", "leaving", "returned"},
             WriteEnd(c) => st'[c] = "waiting",
             st'[c] = "waiting" => \/ st[c] = "waiting" /\ UNCHANGED <<id, box, pending>>
                                   \/ <<id'[c], c>> \in pending' /\ Req(c)' \in Underway'
      PROVE  HandInv'
  <2>1. \A m \in Underway' : m # Note => st'[m.from] \in {"waiting", "leaving", "returned"}
    <3> SUFFICES ASSUME NEW m \in Underway', m # Note PROVE st'[m.from] \in {"waiting", "leaving", "returned"}
      OBVIOUS
    <3>1. CASE m \in Underway
      <4>1. m.from \in Call /\ st[m.from] \in {"waiting", "leaving", "returned"}
        BY <3>1, UnderwayGood, GoodReq DEF HandInv
      <4> QED BY <1>3, <1>6, <4>1
    <3>2. CASE m \notin Underway
      <4>1. WriteEnd(c) /\ m = Req(c)
        BY <1>2, <3>2
      <4>2. m.from = c
        BY <4>1 DEF Req
      <4> QED BY <1>6, <4>1, <4>2
    <3> QED BY <3>1, <3>2
  <2>2. \A d \in Call : st'[d] \in {"registered", "writing"} => <<id'[d], d>> \in pending'
    BY <1>3, <1>6 DEF HandInv
  <2>3. \A t, u \in taken' : t[1] = u[1] => t = u
    BY <1>1 DEF HandInv
  <2>4. \A t \in taken' : box'[t[1]] = <<>>
    BY <1>1, <1>5 DEF HandInv, NoCallForgotten, EntryInv
  <2>5. ASSUME NEW d \in Call, st'[d] = "waiting", ~ncClosed'
        PROVE  \/ box'[d] # <<>> \/ \E t \in taken' : t[1] = d
               \/ <<id'[d], d>> \in pending' /\ Req(d)' \in Underway'
    <3>1. CASE d # c
      <4>1. \/ box[d] # <<>> \/ \E t \in taken : t[1] = d
            \/ <<id[d], d>> \in pending /\ Req(d) \in Underway
        BY <1>3, <1>4, <2>5, <3>1 DEF HandInv, NoCallForgotten
      <4> QED BY <1>1, <1>2, <1>3, <1>4, <3>1, <4>1
    <3>2. CASE d = c /\ st[c] = "waiting" /\ UNCHANGED <<id, box, pending>>
      <4>1. \/ box[d] # <<>> \/ \E t \in taken : t[1] = d
            \/ <<id[d], d>> \in pending /\ Req(d) \in Underway
        BY <1>4, <2>5, <3>2 DEF HandInv, NoCallForgotten
      <4>2. Req(d)' = Req(d)
        BY <3>2 DEF Req
      <4> QED BY <1>1, <1>2, <3>2, <4>1, <4>2
    <3> QED BY <1>6, <2>5, <3>1, <3>2
  <2> QED BY <1>4, <2>1, <2>2, <2>3, <2>4, <2>5 DEF HandInv, NoCallForgotten
<1>7. st \in [Call -> States] /\ id \in [Call -> Nat]
  BY DEF EntryInv
<1>8. CASE Begin(c)
  <2>1. st[c] = "idle" /\ st'[c] = "new" /\ ~WriteEnd(c)
    BY <1>7, <1>8 DEF Begin, WriteEnd
  <2> QED BY <1>6, <2>1
<1>9. CASE CtxDone(c)
  <2>1. UNCHANGED <<st, id, box, pending>> /\ ~WriteEnd(c)
    BY <1>7, <1>9 DEF CtxDone, WriteEnd
  <2> QED BY <1>6, <2>1 DEF HandInv
<1>10. CASE Register(c)
  <2>1. st[c] = "new" /\ st'[c] = "registered" /\ <<id'[c], c>> \in pending' /\ ~WriteEnd(c)
    BY <1>7, <1>10 DEF Register, WriteEnd
  <2> QED BY <1>6, <2>1
<1>11. CASE WriteBegin(c)
  <2>1. st[c] = "registered" /\ st'[c] \in {"leaving", "writing"} /\ UNCHANGED <<id, pending>> /\ ~WriteEnd(c)
    BY <1>7, <1>11 DEF WriteBegin, WriteEnd
  <2> QED BY <1>6, <2>1 DEF HandInv
<1>12. CASE WriteEnd(c)
  <2>1. st[c] = "writing" /\ st'[c] = "waiting" /\ UNCHANGED <<id, pending>> /\ out' = Append(out, Req(c))
    BY <1>7, <1>12 DEF WriteEnd, Req
  <2>2. Req(c)' = Req(c) /\ <<id'[c], c>> \in pending'
    BY <2>1 DEF Req, HandInv
  <2>3. Req(c) \in Underway'
    <3>1. Req(c) \in Good
      BY <1>12 DEF WriteEnd, EntryInv, Good, Message, Req
    <3>2. Range(out') = Range(out) \cup {Req(c)}
      BY <2>1, <3>1, MsgRanges DEF MsgInv
    <3> QED BY <3>2 DEF Underway
  <2> QED BY <1>6, <2>1, <2>2, <2>3
<1>13. CASE WriteError(c) \/ Returns(c)
  <2>1. st'[c] \in {"leaving", "returned"} /\ ~WriteEnd(c)
    BY <1>7, <1>13 DEF WriteError, WriteEnd, Returns, SelectCtx, SelectClosed, SelectReply, Leave
  <2> QED BY <1>6, <2>1
<1> QED BY <1>8, <1>9, <1>10, <1>11, <1>12, <1>13 DEF Writes

\* The reply's entry is found, and its call's channel is empty.
LEMMA DispatchHandInv ==
    ASSUME EntryInv, MsgInv, HandInv, Dispatches
    PROVE  HandInv'
<1> USE DEF callVars, peerVars, endVars
<1>1. ASSUME NEW m \in disp, Dispatch(m) PROVE HandInv'
  <2>1. /\ disp' = disp \ {m}
        /\ pending' = {p \in pending : p[1] # m.id}
        /\ taken' = taken \cup {<<p[2], m>> : p \in {q \in pending : q[1] = m.id}}
        /\ UNCHANGED <<id, st, box, out, in, pmu, serving, closer>>
    BY <1>1 DEF Dispatch
  <2>2. m \in Good /\ m \in Underway
    BY DEF MsgInv, Underway
  <2>3. /\ m.from \in Call /\ m = Req(m.from) /\ m # Note /\ m.id # 0
        /\ \A c \in Call : m.id = id[c] => m = Req(c)
    BY <2>2, GoodReq
  <2>4. \A c \in Call : id[c] = m.id => c = m.from
    BY <2>3 DEF Req
  <2>5. Underway' \subseteq Underway /\ Underway \subseteq Underway' \cup {m}
    BY <2>1 DEF Underway
  <2>6. Note' = Note /\ (ncClosed' <=> ncClosed) /\ \A c \in Call : Req(c)' = Req(c)
    BY <2>1 DEF Note, ncClosed, Req
  <2>7. st[m.from] \in {"waiting", "leaving", "returned"}
    BY <2>2, <2>3 DEF HandInv
  <2>8. \A c \in Call : st[c] \in {"registered", "writing"} => <<id[c], c>> \in pending'
    BY <2>1, <2>4, <2>7 DEF HandInv
  <2>9. \A t \in taken' : t \in taken \/ (t = <<m.from, m>> /\ <<m.id, m.from>> \in pending)
    <3> SUFFICES ASSUME NEW p \in pending, p[1] = m.id
                 PROVE  p[2] = m.from /\ <<m.id, m.from>> \in pending
      BY <2>1
    <3>1. p = <<p[1], p[2]>> /\ p[2] \in Call /\ p[1] = id[p[2]]
      BY DEF EntryInv
    <3>2. p[2] = m.from
      BY <2>4, <3>1
    <3> QED BY <3>1, <3>2
  <2>10. <<m.id, m.from>> \in pending => box[m.from] = <<>> /\ \A t \in taken : t[1] # m.from
    BY <2>3 DEF EntryInv
  <2>11. /\ \A t, u \in taken' : t[1] = u[1] => t = u
         /\ \A t \in taken' : box[t[1]] = <<>>
    BY <2>9, <2>10 DEF HandInv, NoCallForgotten
  <2>12. ASSUME NEW c \in Call, st[c] = "waiting", ~ncClosed
         PROVE  \/ box[c] # <<>> \/ \E t \in taken' : t[1] = c
                \/ <<id[c], c>> \in pending' /\ Req(c) \in Underway'
    <3>1. \/ box[c] # <<>> \/ \E t \in taken : t[1] = c
          \/ <<id[c], c>> \in pending /\ Req(c) \in Underway
      BY <2>12 DEF HandInv, NoCallForgotten
    <3>2. CASE box[c] # <<>> \/ \E t \in taken : t[1] = c
      BY <2>1, <3>2
    <3>3. CASE <<id[c], c>> \in pending /\ Req(c) \in Underway /\ id[c] = m.id
      <4>1. <<c, m>> \in taken'
        BY <2>1, <3>3
      <4> QED BY <4>1
    <3>4. CASE <<id[c], c>> \in pending /\ Req(c) \in Underway /\ id[c] # m.id
      <4>1. Req(c) # m
        BY <3>4 DEF Req
      <4> QED BY <2>1, <2>5, <3>4, <4>1
    <3> QED BY <3>1, <3>2, <3>3, <3>4
  <2>13. NoCallForgotten'
    BY <2>1, <2>6, <2>11, <2>12 DEF NoCallForgotten
  <2>14. \A x \in Underway' : x # Note => st'[x.from] \in {"waiting", "leaving", "returned"}
    BY <2>1, <2>5 DEF HandInv
  <2>15. \A c \in Call : st'[c] \in {"registered", "writing"} => <<id'[c], c>> \in pending'
    BY <2>1, <2>8
  <2> QED BY <2>6, <2>11, <2>13, <2>14, <2>15 DEF HandInv
<1>2. ASSUME NEW t \in taken, DispatchSend(t) PROVE HandInv'
  <2>1. /\ box' = [box EXCEPT ![t[1]] = <<t[2]>>] /\ taken' = taken \ {t}
        /\ UNCHANGED <<id, st, pending, out, in, pmu, serving, disp, closer>>
    BY <1>2 DEF DispatchSend
  <2>2. /\ Underway' = Underway /\ Note' = Note /\ (ncClosed' <=> ncClosed)
        /\ \A c \in Call : Req(c)' = Req(c)
    BY <2>1 DEF Underway, Note, ncClosed, Req
  <2>3. \A u \in taken' : u[1] # t[1] /\ u[1] \in Call
    BY <1>2, <2>1 DEF HandInv, EntryInv
  <2>4. t[1] \in Call /\ box'[t[1]] # <<>> /\ \A c \in Call \ {t[1]} : box'[c] = box[c]
    BY <2>1 DEF EntryInv
  <2>5. \A u \in taken' : box'[u[1]] = <<>>
    BY <2>1, <2>3, <2>4 DEF HandInv, NoCallForgotten
  <2>6. ASSUME NEW c \in Call, st[c] = "waiting", ~ncClosed
        PROVE  \/ box'[c] # <<>> \/ \E u \in taken' : u[1] = c
               \/ <<id[c], c>> \in pending /\ Req(c) \in Underway
    <3>1. CASE c = t[1]
      BY <2>4, <3>1
    <3>2. CASE c # t[1]
      BY <2>1, <2>4, <2>6, <3>2 DEF HandInv, NoCallForgotten
    <3> QED BY <3>1, <3>2
  <2>7. NoCallForgotten'
    BY <2>1, <2>2, <2>5, <2>6 DEF NoCallForgotten
  <2> QED BY <2>1, <2>2, <2>7 DEF HandInv
<1> QED BY <1>1, <1>2 DEF Dispatches

\* No reply is lost on a waiting call, for any number of calls, however their
\* replies, contexts, failed writes and the two ends of the connection interleave.
THEOREM CallsNotForgotten == Spec => []NoCallForgotten
<1>1. Init => EntryInv /\ CloseInv /\ MsgInv /\ HandInv
  BY CloseInvariant, InitEntryInv, InitMsgInv, InitHandInv
<1>2. EntryInv /\ CloseInv /\ MsgInv /\ HandInv /\ [Next]_vars
        => EntryInv' /\ CloseInv' /\ MsgInv' /\ HandInv'
  <2> SUFFICES ASSUME EntryInv, CloseInv, MsgInv, HandInv, [Next]_vars
               PROVE  EntryInv' /\ CloseInv' /\ MsgInv' /\ HandInv'
    OBVIOUS
  <2>1. EntryInv' /\ CloseInv' /\ MsgInv'
    BY CloseInvariant, NextEntryInv, NextMsgInv
  <2>2. HandInv'
    BY PassHandInv, CallHandInv, DispatchHandInv DEF Next
  <2> QED BY <2>1, <2>2
<1>3. HandInv => NoCallForgotten
  BY DEF HandInv
<1> QED BY <1>1, <1>2, <1>3, PTL DEF Spec

-----------------------------------------------------------------------------
(* Types.                                                                  *)

\* Calls that hold the host's mutex to write.
Writing == {c \in Call : st[c] = "writing"}

\* What TypeOK says beyond the invariants above: mu is held by the one call that
\* writes, and a reply taken out of the map is paired with its call.
RestInv ==
    /\ ctx \in [Call -> BOOLEAN]
    /\ mu = Writing
    /\ \A c, d \in Writing : c = d
    /\ at \in {"read", "notify", "eof"}
    /\ taken \subseteq (Call \X Message)
    /\ alive \in BOOLEAN
    /\ notes \in Nat

\* It holds at first.
LEMMA InitRestInv == Init => RestInv
<1> SUFFICES ASSUME Init PROVE RestInv
  OBVIOUS
<1>1. ctx \in [Call -> BOOLEAN] /\ alive \in BOOLEAN
  BY Zenon DEF Init
<1>2. Writing = {}
  BY DEF Init, Writing
<1>3. at \in {"read", "notify", "eof"} /\ taken \subseteq (Call \X Message) /\ notes \in Nat
  BY DEF Init
<1> QED BY <1>1, <1>2, <1>3 DEF RestInv, Init

\* A call takes mu when nobody writes and gives it back when it has written.
LEMMA CallRestInv ==
    ASSUME RestInv, EntryInv, NEW c \in Call, Begin(c) \/ CtxDone(c) \/ Writes(c) \/ Returns(c)
    PROVE  RestInv'
<1> DEFINE MuInv == mu = Writing /\ \A d, e \in Writing : d = e
<1>1. st \in [Call -> States] /\ MuInv
  BY DEF EntryInv, RestInv
<1>2. UNCHANGED <<at, taken, alive, notes>>
  BY DEF Begin, CtxDone, Writes, Register, WriteBegin, WriteEnd, WriteError, Returns, SelectCtx,
         SelectClosed, SelectReply, Leave, peerVars
<1>3. ctx' \in [Call -> BOOLEAN]
  <2>1. CASE CtxDone(c)
    <3>1. ctx' = [ctx EXCEPT ![c] = TRUE] /\ ctx \in [Call -> BOOLEAN]
      BY <2>1 DEF CtxDone, RestInv
    <3> QED BY <3>1, Zenon
  <2>2. CASE ctx' = ctx
    BY <2>2 DEF RestInv
  <2> QED BY <2>1, <2>2 DEF Begin, Writes, Register, WriteBegin, WriteEnd, WriteError, Returns,
             SelectCtx, SelectClosed, SelectReply, Leave
<1>4. ASSUME st[c] # "writing", mu' = mu, NEW s, s # "writing", st' = [st EXCEPT ![c] = s]
      PROVE  MuInv'
  <2>1. Writing' = Writing
    BY <1>1, <1>4 DEF Writing
  <2> QED BY <1>1, <1>4, <2>1
<1>5. MuInv'
  <2>1. CASE WriteBegin(c)
    <3>1. CASE closed
      BY <1>4, <2>1, <3>1 DEF WriteBegin
    <3>2. CASE ~closed
      <4>1. mu = {} /\ st' = [st EXCEPT ![c] = "writing"] /\ mu' = {c}
        BY <2>1, <3>2 DEF WriteBegin
      <4>2. Writing' = {c}
        BY <1>1, <4>1 DEF Writing
      <4> QED BY <4>1, <4>2
    <3> QED BY <3>1, <3>2
  <2>2. CASE WriteEnd(c) \/ WriteError(c)
    <3>1. PICK s \in {"waiting", "leaving"} : st' = [st EXCEPT ![c] = s]
      BY <2>2 DEF WriteEnd, WriteError
    <3>2. st[c] = "writing" /\ mu' = {}
      BY <2>2 DEF WriteEnd, WriteError
    <3>3. \A d \in Call : st[d] = "writing" => d = c
      BY <1>1, <3>2 DEF Writing
    <3>4. Writing' = {}
      BY <1>1, <3>1, <3>3 DEF Writing
    <3> QED BY <3>2, <3>4
  <2>3. CASE Begin(c)
    BY <1>4, <2>3 DEF Begin
  <2>4. CASE CtxDone(c)
    BY <1>1, <2>4 DEF CtxDone, Writing
  <2>5. CASE Register(c)
    BY <1>4, <2>5 DEF Register
  <2>6. CASE Returns(c)
    BY <1>4, <2>6 DEF Returns, SelectCtx, SelectClosed, SelectReply, Leave
  <2> QED BY <2>1, <2>2, <2>3, <2>4, <2>5, <2>6 DEF Writes
<1> QED BY <1>2, <1>3, <1>5 DEF RestInv

\* Every step keeps it.
LEMMA NextRestInv == RestInv /\ EntryInv /\ MsgInv /\ [Next]_vars => RestInv'
<1> SUFFICES ASSUME RestInv, EntryInv, MsgInv, [Next]_vars PROVE RestInv'
  OBVIOUS
<1>1. ASSUME UNCHANGED <<ctx, mu, st>>, at' \in {"read", "notify", "eof"},
             taken' \subseteq (Call \X Message), alive' \in BOOLEAN, notes' \in Nat
      PROVE  RestInv'
  BY <1>1 DEF RestInv, Writing
<1>2. /\ at \in {"read", "notify", "eof"} /\ taken \subseteq (Call \X Message)
      /\ alive \in BOOLEAN /\ notes \in Nat
  BY DEF RestInv
<1>3. CASE UNCHANGED vars
  BY <1>1, <1>2, <1>3 DEF vars
<1>4. CASE Reads \/ NoteDone \/ CloseBegin \/ \E k \in Closer : Closes(k)
  BY <1>1, <1>2, <1>4 DEF Reads, ReadReply, ReadNote, ReadEOF, NoteDone, CloseBegin, Closes,
        CloseCAS, CloseChannel, callVars, peerVars
<1>5. ASSUME NEW m \in disp, Dispatch(m) PROVE RestInv'
  <2>1. /\ taken' = taken \cup {<<p[2], m>> : p \in {q \in pending : q[1] = m.id}}
        /\ UNCHANGED <<ctx, mu, st, at, alive, notes>>
    BY <1>5 DEF Dispatch, callVars, peerVars
  <2>2. m \in Message /\ pending \subseteq (Nat \X Call)
    BY <1>5 DEF MsgInv, Good, EntryInv
  <2>3. taken' \subseteq (Call \X Message)
    BY <1>2, <2>1, <2>2
  <2> QED BY <1>1, <1>2, <2>1, <2>3
<1>6. ASSUME NEW t \in taken, DispatchSend(t) PROVE RestInv'
  BY <1>1, <1>2, <1>6 DEF DispatchSend, callVars, peerVars
<1>7. CASE PeerRead \/ Answers \/ PeerNote \/ PeerWritten
  BY <1>1, <1>2, <1>7 DEF PeerRead, Answers, PeerReply, PeerNote, PeerWritten, callVars
<1>8. CASE PeerDies
  <2>1. alive' \in BOOLEAN /\ UNCHANGED <<ctx, mu, st, at, taken, notes>>
    BY <1>8 DEF PeerDies, callVars
  <2> QED BY <1>1, <1>2, <2>1
<1> QED BY <1>3, <1>4, <1>5, <1>6, <1>7, <1>8, CallRestInv DEF Next, Dispatches

\* Neither socket holds more than it can, nor the plugin's writer more than one
\* message.
RoomInv == Len(out) <= SockCap /\ Len(in) <= SockCap /\ Len(pmu) <= 1

\* What reading, writing and appending a message do to a length.
LEMMA MsgLengths ==
    ASSUME NEW S
    PROVE  /\ \A q \in Seq(S) : Len(q) \in Nat
           /\ \A q \in Seq(S) : q # <<>> => Len(Tail(q)) = Len(q) - 1
           /\ \A q \in Seq(S), m \in S : Len(Append(q, m)) = Len(q) + 1
           /\ \A q, p \in Seq(S) : Len(q \o p) = Len(q) + Len(p)
           /\ \A m \in S : Len(<<m>>) = 1
<1>1. ASSUME NEW q \in Seq(S) PROVE Len(q) \in Nat
  BY <1>1, LenProperties
<1>2. ASSUME NEW q \in Seq(S), q # <<>> PROVE Len(Tail(q)) = Len(q) - 1
  BY <1>2, HeadTailProperties
<1>3. ASSUME NEW q \in Seq(S), NEW m \in S PROVE Len(Append(q, m)) = Len(q) + 1
  BY <1>3, AppendProperties
<1>4. ASSUME NEW q \in Seq(S), NEW p \in Seq(S) PROVE Len(q \o p) = Len(q) + Len(p)
  BY <1>4, ConcatProperties
<1>5. ASSUME NEW m \in S PROVE Len(<<m>>) = 1
  OBVIOUS
<1> QED BY <1>1, <1>2, <1>3, <1>4, <1>5

\* It holds at first.
LEMMA InitRoomInv == Init => RoomInv
BY SockAssumption DEF Init, RoomInv

\* A writer waits for room and a reader makes some.
LEMMA NextRoomInv == RoomInv /\ EntryInv /\ MsgInv /\ [Next]_vars => RoomInv'
<1> SUFFICES ASSUME RoomInv, EntryInv, MsgInv, [Next]_vars PROVE RoomInv'
  OBVIOUS
<1>1. /\ out \in Seq(Good) /\ in \in Seq(Good \cup {Note}) /\ pmu \in Seq(Good \cup {Note})
      /\ Len(out) \in Nat /\ Len(in) \in Nat /\ Len(pmu) \in Nat /\ SockCap \in Nat
  BY MsgLengths, SockAssumption DEF MsgInv
<1>2. CASE UNCHANGED <<out, in, pmu>>
  BY <1>2 DEF RoomInv
<1>3. ASSUME NEW c \in Call, WriteEnd(c) PROVE RoomInv'
  <2> DEFINE m == [id |-> id[c], from |-> c]
  <2>1. m \in Good
    BY <1>3 DEF WriteEnd, EntryInv, Good, Message
  <2>2. Len(out) < SockCap /\ out' = Append(out, m) /\ UNCHANGED <<in, pmu>>
    BY <1>3 DEF WriteEnd, peerVars
  <2>3. Len(Append(out, m)) = Len(out) + 1
    BY <1>1, <2>1, MsgLengths
  <2> QED BY <1>1, <2>2, <2>3 DEF RoomInv
<1>4. CASE ReadReply \/ ReadNote
  <2>1. in # <<>> /\ in' = Tail(in) /\ UNCHANGED <<out, pmu>>
    BY <1>4 DEF ReadReply, ReadNote, peerVars
  <2>2. Len(Tail(in)) = Len(in) - 1
    BY <1>1, <2>1, MsgLengths
  <2> QED BY <1>1, <2>1, <2>2 DEF RoomInv
<1>5. CASE PeerRead
  <2>1. out # <<>> /\ out' = Tail(out) /\ UNCHANGED <<in, pmu>>
    BY <1>5 DEF PeerRead
  <2>2. Len(Tail(out)) = Len(out) - 1
    BY <1>1, <2>1, MsgLengths
  <2> QED BY <1>1, <2>1, <2>2 DEF RoomInv
<1>6. CASE Answers \/ PeerNote
  <2>1. PICK m : pmu' = <<m>> /\ UNCHANGED <<out, in>>
    BY <1>6 DEF Answers, PeerReply, PeerNote
  <2>2. Len(<<m>>) = 1
    OBVIOUS
  <2> QED BY <2>1, <2>2 DEF RoomInv
<1>7. CASE PeerWritten
  <2>1. /\ pmu' = <<>> /\ out' = out
        /\ in' = in \/ (Len(in) < SockCap /\ in' = in \o pmu)
    BY <1>7 DEF PeerWritten
  <2>2. Len(in \o pmu) = Len(in) + Len(pmu)
    BY <1>1, MsgLengths
  <2>3. Len(pmu') = 0
    BY <2>1
  <2> QED BY <1>1, <2>1, <2>2, <2>3 DEF RoomInv
<1>8. CASE UNCHANGED vars
  BY <1>2, <1>8 DEF vars
<1>9. ASSUME NEW c \in Call, Begin(c) \/ CtxDone(c) \/ Writes(c) \/ Returns(c) PROVE RoomInv'
  BY <1>2, <1>3, <1>9 DEF Begin, CtxDone, Writes, Register, WriteBegin, WriteError, Returns,
        SelectCtx, SelectClosed, SelectReply, Leave, peerVars
<1>10. CASE ReadEOF \/ NoteDone \/ Dispatches
  BY <1>2, <1>10 DEF ReadEOF, NoteDone, Dispatches, Dispatch, DispatchSend, peerVars
<1>11. CASE CloseBegin \/ \E k \in Closer : Closes(k)
  BY <1>2, <1>11 DEF CloseBegin, Closes, CloseCAS, CloseChannel, peerVars
<1>12. CASE PeerDies
  BY <1>2, <1>12 DEF PeerDies
<1> QED BY <1>4, <1>5, <1>6, <1>7, <1>8, <1>9, <1>10, <1>11, <1>12 DEF Next, Reads

\* A call's channel and result are those of calls only.
FcnInv == box = [c \in Call |-> box[c]] /\ res = [c \in Call |-> res[c]]

\* It holds at first and after every step.
LEMMA FcnInvariant ==
    /\ Init => FcnInv
    /\ FcnInv /\ [Next]_vars => FcnInv'
<1>1. Init => FcnInv
  BY DEF Init, FcnInv
<1>2. ASSUME FcnInv, [Next]_vars PROVE FcnInv'
  <2>1. CASE UNCHANGED <<box, res>>
    BY <1>2, <2>1 DEF FcnInv
  <2>2. ASSUME NEW c \in Call, SelectReply(c) PROVE FcnInv'
    BY <1>2, <2>2 DEF FcnInv, SelectReply
  <2>3. ASSUME NEW t \in taken, DispatchSend(t) PROVE FcnInv'
    BY <1>2, <2>3 DEF FcnInv, DispatchSend, callVars
  <2>4. ASSUME NEW c \in Call, Begin(c) \/ CtxDone(c) \/ Writes(c) \/ SelectCtx(c) \/ SelectClosed(c) \/ Leave(c)
        PROVE  UNCHANGED <<box, res>>
    BY <2>4 DEF Begin, CtxDone, Writes, Register, WriteBegin, WriteEnd, WriteError, SelectCtx,
                SelectClosed, Leave
  <2>5. CASE Reads \/ NoteDone \/ CloseBegin \/ (\E k \in Closer : Closes(k)) \/ \E m \in disp : Dispatch(m)
    BY <2>1, <2>5 DEF Reads, ReadReply, ReadNote, ReadEOF, NoteDone, CloseBegin, Closes,
          CloseCAS, CloseChannel, Dispatch, callVars
  <2>6. CASE PeerRead \/ Answers \/ PeerNote \/ PeerWritten \/ PeerDies
    BY <2>1, <2>6 DEF PeerRead, Answers, PeerReply, PeerNote, PeerWritten, PeerDies, callVars
  <2>7. CASE UNCHANGED vars
    BY <2>1, <2>7 DEF vars
  <2> QED BY <1>2, <2>1, <2>2, <2>3, <2>4, <2>5, <2>6, <2>7 DEF Next, Returns, Dispatches
<1> QED BY <1>1, <1>2

\* Every variable of the connection keeps its type, for any number of calls and
\* notifications and sockets of any size, neither of which is ever overfull; and
\* Conn.mu is held by the call that writes.
THEOREM TypeCorrect == Spec => []TypeOK
<1> DEFINE Inv == CloseInv /\ EntryInv /\ MsgInv /\ RestInv /\ RoomInv /\ FcnInv
<1>1. Init => Inv
  BY FcnInvariant, CloseInvariant, InitEntryInv, InitMsgInv, InitRestInv, InitRoomInv
<1>2. Inv /\ [Next]_vars => Inv'
  BY CloseInvariant, NextEntryInv, NextMsgInv, NextRestInv, NextRoomInv, FcnInvariant
<1>3. Inv => TypeOK
  <2> SUFFICES ASSUME Inv PROVE TypeOK
    OBVIOUS
  <2>1. Good \subseteq Message /\ \A c : Own(c) \subseteq Message
    BY DEF Good, Own
  <2>2. Good \cup {Note} \subseteq Message \cup {Note}
    BY <2>1
  <2>3. out \in Seq(Message) /\ in \in Seq(Message \cup {Note}) /\ pmu \in Seq(Message \cup {Note})
    BY <2>1, <2>2, SeqGrows DEF MsgInv
  <2>4. \A c \in Call : box[c] \in Seq(Message) /\ res[c] \in Seq(Message)
    BY <2>1, SeqGrows DEF MsgInv
  <2>5. disp \subseteq Message /\ serving \subseteq Message
    BY <2>1 DEF MsgInv
  <2>6. box \in [Call -> Seq(Message)] /\ res \in [Call -> Seq(Message)]
    BY <2>4 DEF FcnInv
  <2>7. closeCh \in Nat /\ closed \in BOOLEAN
    BY DEF CloseInv
  <2> QED BY <2>3, <2>5, <2>6, <2>7 DEF TypeOK, CloseInv, EntryInv, RestInv, RoomInv, Writing
<1> QED BY <1>1, <1>2, <1>3, PTL DEF Spec

=============================================================================
