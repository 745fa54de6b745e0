-------------------------- MODULE AuditTrail_proofs --------------------------
(***************************************************************************)
(* That the events of a request are numbered apart, for any number of      *)
(* requests and any connection.  SeqUnique is not inductive: a number is   *)
(* new only because none that was taken is above the session's counter,    *)
(* and the counter that is raised is the event's own only because every    *)
(* message names a request.                                                *)
(***************************************************************************)
EXTENDS AuditTrail, SequenceTheorems, TLAPS

\* Every number that was taken is at most the session's counter.
Below == \A e \in Numbered : e.req \in Request /\ e.seq \in Nat /\ e.seq <= seq[e.req]

\* What is on the connection.
Message == [req : Request, kind : Audits \cup Answer \cup Event]

\* No number is given twice, as each is above all that were given out.
SeqInv ==
    /\ seq \in [Request -> Nat]
    /\ DOMAIN slot = Actor
    /\ wire \in Seq(Message)
    /\ cur \subseteq Message
    /\ Below
    /\ SeqUnique

-----------------------------------------------------------------------------
\* What leaves a slot for the table was numbered before; what is new is above.
LEMMA OneAbove ==
    ASSUME SeqInv, seq' \in [Request -> Nat],
           \A r \in Request : seq'[r] >= seq[r],
           \A e \in Numbered' : \/ e \in Numbered
                                \/ /\ e.req \in Request /\ e.seq = seq[e.req] + 1 /\ e.seq <= seq'[e.req],
           \A e, f \in Numbered' \ Numbered : e.req = f.req => e = f
    PROVE  Below' /\ SeqUnique'
<1>1. Below'
  <2> SUFFICES ASSUME NEW e \in Numbered'
               PROVE  e.req \in Request /\ e.seq \in Nat /\ e.seq <= seq'[e.req]
      BY DEF Below
  <2>1. CASE e \in Numbered
    <3>1. e.req \in Request /\ e.seq \in Nat /\ e.seq <= seq[e.req]  BY <2>1 DEF SeqInv, Below
    <3>2. seq[e.req] \in Nat /\ seq'[e.req] \in Nat /\ seq'[e.req] >= seq[e.req]  BY <3>1 DEF SeqInv
    <3> QED  BY <3>1, <3>2
  <2>2. CASE e \notin Numbered
    <3>1. e.req \in Request /\ e.seq = seq[e.req] + 1 /\ e.seq <= seq'[e.req]  BY <2>2
    <3>2. seq[e.req] \in Nat  BY <3>1 DEF SeqInv
    <3> QED  BY <3>1, <3>2
  <2> QED  BY <2>1, <2>2
<1>2. SeqUnique'
  <2>1. ASSUME NEW e \in Numbered, NEW f \in Numbered' \ Numbered, e.req = f.req
        PROVE  e.seq # f.seq
    <3>1. e.req \in Request /\ e.seq \in Nat /\ e.seq <= seq[e.req]  BY DEF SeqInv, Below
    <3>2. f.seq = seq[e.req] + 1 /\ seq[e.req] \in Nat  BY <2>1, <3>1 DEF SeqInv
    <3> QED  BY <3>1, <3>2
  <2> SUFFICES ASSUME NEW e \in Numbered', NEW f \in Numbered', e.req = f.req, e.seq = f.seq
               PROVE  e = f
      BY DEF SeqUnique
  <2>2. CASE e \in Numbered /\ f \in Numbered  BY <2>2 DEF SeqInv, SeqUnique
  <2>3. CASE e \in Numbered /\ f \notin Numbered  BY <2>1, <2>3
  <2>4. CASE e \notin Numbered /\ f \in Numbered
    <3>1. f.seq # e.seq  BY <2>1, <2>4
    <3> QED  BY <3>1
  <2>5. CASE e \notin Numbered /\ f \notin Numbered  BY <2>5
  <2> QED  BY <2>2, <2>3, <2>4, <2>5
<1> QED  BY <1>1, <1>2

\* Steps that number nothing.
LEMMA NoneNumbered ==
    ASSUME SeqInv, UNCHANGED seq, Numbered' \subseteq Numbered
    PROVE  Below' /\ SeqUnique'
  BY DEF SeqInv, Below, SeqUnique

\* A step that gives out one number of one session, above all its others.
LEMMA NewNumber ==
    ASSUME SeqInv, NEW r \in Request, NEW new,
           new.req = r, new.seq = seq[r] + 1, seq' = [seq EXCEPT ![r] = seq[r] + 1],
           Numbered' \subseteq Numbered \cup {new}
    PROVE  seq' \in [Request -> Nat] /\ Below' /\ SeqUnique'
<1>1. seq[r] \in Nat /\ seq' \in [Request -> Nat]  BY DEF SeqInv
<1>2. \A q \in Request : seq'[q] >= seq[q]  BY <1>1 DEF SeqInv
<1>3. new.seq <= seq'[r]  BY <1>1 DEF SeqInv
<1>4. \A e \in Numbered' :
          e \in Numbered \/ (e.req \in Request /\ e.seq = seq[e.req] + 1 /\ e.seq <= seq'[e.req])
    BY <1>3
<1>5. \A e, f \in Numbered' \ Numbered : e.req = f.req => e = f  OBVIOUS
<1> QED  BY <1>1, <1>2, <1>4, <1>5, OneAbove

\* Session.event.
LEMMA TakeSeqKeeps ==
    ASSUME SeqInv, NEW a \in Actor, NEW r \in Request, NEW type,
           TakeSeq(a, r, type), UNCHANGED storeVars
    PROVE  seq' \in [Request -> Nat] /\ DOMAIN slot' = Actor /\ Below' /\ SeqUnique'
<1>1. CASE level = "off"
  <2>1. UNCHANGED <<seq, slot>>  BY <1>1 DEF TakeSeq
  <2>2. Numbered' = Numbered  BY <2>1 DEF Numbered, storeVars
  <2>3. seq' \in [Request -> Nat] /\ DOMAIN slot' = Actor  BY <2>1 DEF SeqInv
  <2> QED  BY <2>1, <2>2, <2>3, NoneNumbered
<1>2. CASE level # "off"
  <2> DEFINE new == [req |-> r, seq |-> seq[r] + 1, type |-> type]
  <2>1. /\ seq'  = [seq EXCEPT ![r] = seq[r] + 1]
        /\ slot' = [slot EXCEPT ![a] = {new}]
      BY <1>2 DEF TakeSeq
  <2>2. new.req = r /\ new.seq = seq[r] + 1  OBVIOUS
  <2> HIDE DEF new
  <2>3. Numbered' \subseteq Numbered \cup {new}
    <3> SUFFICES ASSUME NEW e \in Numbered', e \notin Numbered  PROVE e = new  OBVIOUS
    <3>1. e \notin events /\ e \notin lost /\ \A b \in Actor : e \notin slot[b]  BY DEF Numbered
    <3>2. PICK b \in Actor : e \in slot'[b]  BY <3>1 DEF Numbered, storeVars
    <3>3. b = a  BY <2>1, <3>1, <3>2 DEF SeqInv
    <3> QED  BY <2>1, <3>2, <3>3 DEF SeqInv
  <2> QED  BY <2>1, <2>2, <2>3, NewNumber DEF SeqInv
<1> QED  BY <1>1, <1>2

\* A step that neither numbers an event nor touches the table.
LEMMA QuietKeeps ==
    ASSUME SeqInv, UNCHANGED <<seq, slot, events, lost>>
    PROVE  seq' \in [Request -> Nat] /\ DOMAIN slot' = Actor /\ Below' /\ SeqUnique'
<1>1. Numbered' = Numbered  BY DEF Numbered
<1>2. Below' /\ SeqUnique'  BY <1>1, NoneNumbered
<1> QED  BY <1>2 DEF SeqInv

\* The connection holds messages, whatever is said or read.
LEMMA SayKeeps ==
    ASSUME SeqInv, NEW r \in Request, NEW kind \in Audits \cup Answer \cup Event, NEW next, Say(r, kind, next)
    PROVE  wire' \in Seq(Message)
<1> DEFINE m == [req |-> r, kind |-> kind]
<1>1. m \in Message  BY DEF Message
<1>2. wire' = Append(wire, m)  BY DEF Say
<1> HIDE DEF m
<1> QED  BY <1>1, <1>2, AppendProperties DEF SeqInv

\* The message that is read, and those that stay.
LEMMA ReadKeeps ==
    ASSUME SeqInv, wire # <<>>
    PROVE  Head(wire) \in Message /\ Tail(wire) \in Seq(Message)
BY HeadTailProperties DEF SeqInv

-----------------------------------------------------------------------------
\* Initially nothing is numbered.
LEMMA SeqInit == Init => SeqInv
<1> SUFFICES ASSUME Init PROVE SeqInv  OBVIOUS
<1>1. Numbered = {}  BY DEF Init, Numbered
<1>2. seq \in [Request -> Nat] /\ DOMAIN slot = Actor /\ cur \subseteq Message  BY DEF Init
<1>3. wire \in Seq(Message)  BY EmptySeq DEF Init
<1> QED  BY <1>1, <1>2, <1>3 DEF SeqInv, Below, SeqUnique

\* The handler's steps.
LEMMA SeqHandler ==
    ASSUME SeqInv, NEW r \in Request, Handler(r)
    PROVE  SeqInv'
<1> r \in Actor  BY DEF Actor
<1> DEFINE Good == seq' \in [Request -> Nat] /\ DOMAIN slot' = Actor /\ Below' /\ SeqUnique'
<1>0. ASSUME Good, UNCHANGED <<wire, cur>>  PROVE SeqInv'
    BY <1>0 DEF SeqInv
<1>1. CASE Begin(r)
  <2>0. UNCHANGED <<wire, cur, slot, lost>>  BY <1>1 DEF Begin, readVars
  <2>1. CASE level = "off"
    <3>1. UNCHANGED <<seq, slot, events, lost>>  BY <1>1, <2>0, <2>1 DEF Begin
    <3> QED  BY <1>0, <2>0, <3>1, QuietKeeps
  <2>2. CASE level # "off"
    <3> DEFINE new == [req |-> r, seq |-> seq[r] + 1, type |-> "prepared"]
    <3>1. seq' = [seq EXCEPT ![r] = seq[r] + 1] /\ events' = events \cup {new}
        BY <1>1, <2>2 DEF Begin
    <3>2. new.req = r /\ new.seq = seq[r] + 1  OBVIOUS
    <3> HIDE DEF new
    <3>3. Numbered' \subseteq Numbered \cup {new}  BY <2>0, <3>1 DEF Numbered
    <3> QED  BY <1>0, <2>0, <3>1, <3>2, <3>3, NewNumber DEF SeqInv
  <2> QED  BY <2>1, <2>2
<1>2. CASE Completes(r) \/ StreamOpens(r) \/ TakeData(r) \/ Conclude(r)
  <2>1. UNCHANGED <<wire, cur, storeVars>>
      BY <1>2 DEF Completes, StreamOpens, TakeData, Conclude, readVars, plugVars
  <2>2. UNCHANGED <<seq, slot>> \/ \E type : TakeSeq(r, r, type)
      BY <1>2 DEF Completes, StreamOpens, TakeData, Conclude, StreamMeta
  <2>3. CASE UNCHANGED <<seq, slot>>
    <3>1. UNCHANGED <<seq, slot, events, lost>>  BY <2>1, <2>3 DEF storeVars
    <3> QED  BY <1>0, <2>1, <3>1, QuietKeeps
  <2>4. CASE \E type : TakeSeq(r, r, type)
      BY <1>0, <2>1, <2>4, TakeSeqKeeps
  <2> QED  BY <2>2, <2>3, <2>4
<1>3. CASE CallFails(r) \/ TakeError(r) \/ RangeEnds(r) \/ FinishRow(r) \/ WriteFull(r) \/ Return(r)
  <2>1. UNCHANGED <<wire, cur, seq, slot, events, lost>>
      BY <1>3 DEF CallFails, TakeError, RangeEnds, FinishRow, WriteFull, Return, readVars, plugVars, storeVars
  <2> QED  BY <1>0, <2>1, QuietKeeps
<1> QED  BY <1>1, <1>2, <1>3 DEF Handler

\* The INSERT moves a numbered event to the table, or to those that are lost.
LEMMA SeqInsert ==
    ASSUME SeqInv, NEW a \in Actor, InsertEvent(a)
    PROVE  SeqInv'
<1>1. UNCHANGED <<wire, cur, seq>>  BY DEF InsertEvent, readVars, plugVars
<1>2. PICK e \in slot[a] : events' \subseteq events \cup {e} /\ lost' \subseteq lost \cup {e}
    BY DEF InsertEvent
<1>3. slot' = [slot EXCEPT ![a] = {}]  BY DEF InsertEvent
<1>4. DOMAIN slot' = Actor /\ \A b \in Actor : slot'[b] \subseteq slot[b]  BY <1>3 DEF SeqInv
<1>5. Numbered' \subseteq Numbered  BY <1>2, <1>4 DEF Numbered
<1> QED  BY <1>1, <1>4, <1>5, NoneNumbered DEF SeqInv

\* The reader's steps.
LEMMA SeqServe ==
    ASSUME SeqInv, Serve
    PROVE  SeqInv'
<1>1. CASE FetchHandler
  <2>1. wire # <<>> /\ wire' = Tail(wire) /\ cur' \in {cur, {Head(wire)}}
      BY <1>1 DEF FetchHandler, readVars
  <2>2. UNCHANGED <<seq, slot, events, lost>>  BY <1>1 DEF FetchHandler, storeVars
  <2>3. wire' \in Seq(Message) /\ cur' \subseteq Message  BY <2>1, ReadKeeps DEF SeqInv
  <2> QED  BY <2>2, <2>3, QuietKeeps DEF SeqInv
<1>2. CASE AuditPayload \/ AuditDone
  <2>1. UNCHANGED <<wire, seq, slot, events, lost>> /\ cur' \in {cur, {}}
      BY <1>2 DEF AuditPayload, AuditDone, storeVars, plugVars
  <2> QED  BY <2>1, QuietKeeps DEF SeqInv
<1>3. CASE AuditEvent
  <2>1. PICK m \in cur : TakeSeq(Reader, m.req, m.kind)  BY <1>3 DEF AuditEvent
  <2>2. m.req \in Request /\ Reader \in Actor  BY DEF SeqInv, Message, Actor
  <2>3. UNCHANGED <<wire, cur, storeVars>>  BY <1>3 DEF AuditEvent, plugVars
  <2> QED  BY <2>1, <2>2, <2>3, TakeSeqKeeps DEF SeqInv
<1>4. CASE Deliver
  <2>1. wire # <<>> /\ wire' = Tail(wire) /\ UNCHANGED <<cur, seq, slot, events, lost>>
      BY <1>4 DEF Deliver, readVars, storeVars
  <2> QED  BY <2>1, ReadKeeps, QuietKeeps DEF SeqInv
<1> QED  BY <1>1, <1>2, <1>3, <1>4 DEF Serve

\* What the plugin says is an audit, an answer or an event.
LEMMA PluginSays ==
    ASSUME NEW r, Plugin(r)
    PROVE  \E kind \in Audits \cup Answer \cup Event : \E next : Say(r, kind, next)
<1>1. CASE PluginStarts(r)  BY <1>1 DEF PluginStarts, Audits, Answer
<1>2. CASE PluginHears(r)  BY <1>2 DEF PluginHears, Audits
<1>3. CASE PluginAnswers(r)  BY <1>3 DEF PluginAnswers, Answer
<1>4. CASE PluginReplies(r)  BY <1>4 DEF PluginReplies, Answer
<1>5. CASE PluginStreams(r)
  <2>1. \A s \in Sayings : s[2] \in Audits \cup Event  BY DEF Sayings, Audits, Event
  <2> QED  BY <1>5, <2>1 DEF PluginStreams, Event
<1> QED  BY <1>1, <1>2, <1>3, <1>4, <1>5 DEF Plugin

\* The plugin writes messages.
LEMMA SeqPlugin ==
    ASSUME SeqInv, NEW r \in Request, Plugin(r)
    PROVE  SeqInv'
<1>1. UNCHANGED <<cur, seq, slot, events, lost>>
    BY DEF Plugin, PluginStarts, PluginHears, PluginAnswers, PluginReplies, PluginStreams, Outside,
           readVars, storeVars
<1>2. \E kind \in Audits \cup Answer \cup Event : \E next : Say(r, kind, next)  BY PluginSays
<1>3. wire' \in Seq(Message)  BY <1>2, SayKeeps
<1> QED  BY <1>1, <1>3, QuietKeeps DEF SeqInv

\* Every step keeps the invariant.
LEMMA SeqStep == SeqInv /\ [Next]_vars => SeqInv'
<1> SUFFICES ASSUME SeqInv, [Next]_vars PROVE SeqInv'  OBVIOUS
<1>1. CASE UNCHANGED vars
  <2>1. UNCHANGED <<wire, cur, seq, slot, events, lost>>  BY <1>1 DEF vars
  <2> QED  BY <2>1, QuietKeeps DEF SeqInv
<1>2. ASSUME NEW r \in Request, ClientLeaves(r)  PROVE SeqInv'
  <2>1. UNCHANGED <<wire, cur, seq, slot, events, lost>>
      BY <1>2 DEF ClientLeaves, readVars, plugVars, storeVars
  <2> QED  BY <2>1, QuietKeeps DEF SeqInv
<1> QED  BY <1>1, <1>2, SeqHandler, SeqInsert, SeqServe, SeqPlugin DEF Next

\* No two events of a request have the same number, for any number of requests
\* whose handlers share the reader of one connection (Session.event).
THEOREM NumbersApart == Spec => []SeqUnique
<1>1. SeqInv => SeqUnique  BY DEF SeqInv
<1> QED  BY <1>1, SeqInit, SeqStep, PTL DEF Spec

-----------------------------------------------------------------------------
(* Types.                                                                  *)

\* What handlers, reader and plugin are at.
HandType ==
    /\ level \in {"off", "metadata", "full"}
    /\ mode \in [Request -> {"none", "complete", "stream"}]
    /\ pc \in [Request -> {"idle", "calling", "opened", "ranging", "ended", "finishing", "filing",
                          "returning", "returned"}]
    /\ outcome \in [Request -> {"none", "ok", "error", "canceled"}]
    /\ row \in [Request -> {"none", "started", "ok", "error", "canceled"}]
    /\ onTrace \subseteq Request
    /\ reader \in {"read", "payload", "event", "insert"}
    /\ replied \subseteq Request
    /\ plug \in [Request -> {"none", "asked", "doing", "denied", "answering", "open", "started", "begun",
                            "first", "flowing", "erred", "finished", "ended", "done"}]

\* Who has left.
FlagType == left \in [Request -> BOOLEAN]

\* What is gathered for the files, and what they hold.
FileType ==
    /\ payload \in [Request -> SUBSET Parts]
    /\ copy \in [Request -> SUBSET Parts]
    /\ file \in [Request -> (SUBSET Parts) \cup {NoFile}]
    /\ cur \subseteq [req : Request, kind : Audits]

\* The events, where they stand.
EventType ==
    /\ seq \in [Request -> Nat]
    /\ slot \in [Actor -> SUBSET Row]
    /\ events \subseteq Row
    /\ lost \subseteq Row
    /\ late \in [Request -> Nat]

\* The connection, and what came from it.
WireType ==
    /\ wire \in Seq(Message) /\ Len(wire) <= SockCap
    /\ reply \in [Request -> {"none"} \cup Answer]
    /\ chan \in [Request -> Seq(Event)]

TypeInv == HandType /\ FlagType /\ FileType /\ EventType /\ WireType

\* The parts make up TypeOK.
LEMMA TypeParts == TypeInv => TypeOK
  BY DEF TypeInv, HandType, FlagType, FileType, EventType, WireType, TypeOK, Message

\* Initially every variable has its type.
LEMMA TypeInit == Init => TypeInv
<1> SUFFICES ASSUME Init PROVE TypeInv
  OBVIOUS
<1>1. HandType
  BY DEF Init, HandType
<1>2. FlagType
  BY Zenon DEF Init, FlagType
<1>3. FileType
  BY DEF Init, FileType
<1>4. EventType
  BY DEF Init, EventType
<1>5. WireType
  BY SockAssumption, EmptySeq DEF Init, WireType
<1> QED BY <1>1, <1>2, <1>3, <1>4, <1>5 DEF TypeInv

\* Where the handlers, the reader and the plugin go.
LEMMA HandStep ==
    ASSUME HandType, Next
    PROVE  HandType'
<1>1. ASSUME NEW r \in Request, Handler(r)
      PROVE  HandType'
  <2>1. CASE Begin(r)
    BY <2>1 DEF HandType, Begin, Become, readVars
  <2>2. CASE CallFails(r) \/ Completes(r) \/ StreamOpens(r)
    BY <2>2 DEF HandType, CallFails, Completes, StreamOpens, Become, reqVars, readVars, plugVars
  <2>3. CASE TakeData(r) \/ TakeError(r) \/ RangeEnds(r)
    BY <2>3 DEF HandType, TakeData, TakeError, RangeEnds, Become, reqVars, readVars, plugVars
  <2>4. CASE Conclude(r)
    BY <2>4 DEF HandType, Conclude, Become, reqVars, readVars, plugVars
  <2>5. CASE FinishRow(r)
    <3>1. \E n \in {"filing", "ended", "returning"} : pc' = [pc EXCEPT ![r] = n]
      BY <2>5 DEF FinishRow, AfterFinish, Become
    <3>2. \E v \in {row[r], outcome[r]} : row' = [row EXCEPT ![r] = v]
      BY <2>5 DEF FinishRow
    <3>3. UNCHANGED <<level, mode, outcome, onTrace, reader, replied, plug>>
      BY <2>5 DEF FinishRow, reqVars, readVars, plugVars
    <3> QED BY <3>1, <3>2, <3>3 DEF HandType
  <2>6. CASE WriteFull(r) \/ Return(r)
    BY <2>6 DEF HandType, WriteFull, Return, AfterFinish, Become, reqVars, readVars, plugVars
  <2> QED BY <1>1, <2>1, <2>2, <2>3, <2>4, <2>5, <2>6 DEF Handler
<1>2. ASSUME NEW r \in Request, ClientLeaves(r)
      PROVE  HandType'
  BY <1>2 DEF HandType, ClientLeaves, reqVars, readVars, plugVars
<1>3. ASSUME NEW r \in Request, Plugin(r)
      PROVE  HandType'
  <2>1. /\ UNCHANGED <<level, mode, pc, outcome, row, onTrace, reader>>
        /\ replied' \in {replied, replied \cup {r}}
    BY <1>3 DEF Plugin, PluginStarts, PluginHears, PluginAnswers, PluginReplies, PluginStreams, Outside,
                reqVars, handVars, readVars
  <2>2. PICK next \in {"doing", "denied", "answering", "open", "started", "begun", "first", "flowing",
                       "erred", "finished", "ended", "done"} : plug' = [plug EXCEPT ![r] = next]
    <3>1. CASE PluginStarts(r) \/ PluginHears(r) \/ PluginAnswers(r)
      BY <3>1 DEF PluginStarts, PluginHears, PluginAnswers, Say
    <3>2. CASE PluginReplies(r)
      BY <3>2 DEF PluginReplies, Say
    <3>3. CASE PluginStreams(r)
      BY <3>3 DEF PluginStreams, Sayings, Say
    <3> QED BY <1>3, <3>1, <3>2, <3>3 DEF Plugin
  <2> QED BY <2>1, <2>2 DEF HandType
<1>4. ASSUME NEW a \in Actor, InsertEvent(a)
      PROVE  HandType'
  BY <1>4 DEF HandType, InsertEvent, reqVars, handVars, readVars, plugVars
<1>5. CASE Serve
  BY <1>5 DEF HandType, Serve, FetchHandler, AuditPayload, AuditEvent, AuditDone, Deliver, reqVars, handVars,
              readVars, plugVars
<1> QED BY <1>1, <1>2, <1>3, <1>4, <1>5 DEF Next

\* Clients only leave.
LEMMA FlagStep ==
    ASSUME FlagType, Next
    PROVE  FlagType'
<1>1. UNCHANGED left \/ \E r \in Request : left' = [left EXCEPT ![r] = TRUE]
  BY DEF Next, Handler, Begin, CallFails, Completes, StreamOpens, TakeData, TakeError, RangeEnds, Conclude,
         FinishRow, WriteFull, Return, ClientLeaves, Plugin, PluginStarts, PluginHears, PluginAnswers,
         PluginReplies, PluginStreams, Outside, InsertEvent, Serve, FetchHandler, AuditPayload, AuditEvent,
         AuditDone, Deliver, handVars
<1> QED BY <1>1, Zenon DEF FlagType

\* Payloads, copies and files consist of parts after every step.
LEMMA FileStep ==
    ASSUME FileType, WireType, Next
    PROVE  FileType'
<1>1. CASE FetchHandler
  <2>1. Head(wire) \in Message
    BY <1>1, HeadTailProperties DEF FetchHandler, WireType
  <2>2. cur' \subseteq cur \cup {Head(wire)} /\ Head(wire).kind \in Audits
    BY <1>1 DEF FetchHandler, readVars
  <2>3. Head(wire) \in [req : Request, kind : Audits]
    BY <2>1, <2>2 DEF Message
  <2>4. UNCHANGED <<payload, copy, file>>
    BY <1>1 DEF FetchHandler, handVars
  <2> QED BY <2>2, <2>3, <2>4 DEF FileType
<1>2. CASE AuditPayload
  <2>1. PICK m \in cur : payload' = [payload EXCEPT ![m.req] = @ \cup ({m.kind} \cap Parts)]
    BY <1>2 DEF AuditPayload
  <2>2. UNCHANGED <<copy, file, cur>>
    BY <1>2 DEF AuditPayload, handVars
  <2> QED BY <2>1, <2>2 DEF FileType
<1>3. CASE AuditDone
  BY <1>3 DEF AuditDone, FileType, handVars
<1>4. ASSUME NEW r \in Request, FinishRow(r) \/ WriteFull(r)
      PROVE  FileType'
  BY <1>4 DEF FinishRow, WriteFull, FileType, readVars
<1>5. CASE UNCHANGED <<payload, copy, file, cur>>
  BY <1>5 DEF FileType
<1>6. ASSUME NEW r \in Request, Handler(r) \/ ClientLeaves(r) \/ Plugin(r)
      PROVE  FinishRow(r) \/ WriteFull(r) \/ UNCHANGED <<payload, copy, file, cur>>
  BY <1>6 DEF Handler, Begin, CallFails, Completes, StreamOpens, TakeData, TakeError, RangeEnds, Conclude,
              Return, ClientLeaves, Plugin, PluginStarts, PluginHears, PluginAnswers, PluginReplies,
              PluginStreams, Outside, handVars, readVars
<1>7. ASSUME NEW a \in Actor, InsertEvent(a)
      PROVE  UNCHANGED <<payload, copy, file, cur>>
  BY <1>7 DEF InsertEvent, handVars, readVars
<1>8. CASE AuditEvent \/ Deliver
  BY <1>8, <1>5 DEF AuditEvent, Deliver, handVars, readVars
<1> QED BY <1>1, <1>2, <1>3, <1>4, <1>5, <1>6, <1>7, <1>8 DEF Next, Serve

\* A number taken is that of a row.
LEMMA TakeSeqType ==
    ASSUME EventType, NEW a \in Actor, NEW r \in Request, NEW type \in Audits \cup Own,
           TakeSeq(a, r, type), UNCHANGED storeVars
    PROVE  EventType'
<1>1. CASE level = "off"
  BY <1>1 DEF TakeSeq, EventType, storeVars
<1>2. CASE level # "off"
  <2> DEFINE new == [req |-> r, seq |-> seq[r] + 1, type |-> type]
  <2>1. seq[r] \in Nat
    BY DEF EventType
  <2>2. new \in Row
    BY <2>1 DEF Row
  <2>3. seq' = [seq EXCEPT ![r] = seq[r] + 1] /\ slot' = [slot EXCEPT ![a] = {new}]
    BY <1>2 DEF TakeSeq
  <2> HIDE DEF new
  <2>4. seq' \in [Request -> Nat]
    BY <2>1, <2>3 DEF EventType
  <2>5. slot' \in [Actor -> SUBSET Row]
    BY <2>2, <2>3 DEF EventType
  <2> QED BY <2>4, <2>5 DEF EventType, storeVars
<1> QED BY <1>1, <1>2

\* Events stay events wherever a step puts them.
LEMMA EventStep ==
    ASSUME EventType, FileType, Next
    PROVE  EventType'
<1>1. CASE UNCHANGED <<seq, slot, events, lost, late>>
  BY <1>1 DEF EventType
<1>2. ASSUME NEW r \in Request, Begin(r)
      PROVE  EventType'
  <2>1. UNCHANGED <<slot, lost, late>>
    BY <1>2 DEF Begin
  <2>2. CASE level = "off"
    BY <1>1, <1>2, <2>1, <2>2 DEF Begin
  <2>3. CASE level # "off"
    <3> DEFINE new == [req |-> r, seq |-> seq[r] + 1, type |-> "prepared"]
    <3>1. seq[r] \in Nat
      BY DEF EventType
    <3>2. new \in Row
      BY <3>1 DEF Row, Own
    <3>3. seq' = [seq EXCEPT ![r] = seq[r] + 1] /\ events' = events \cup {new}
      BY <1>2, <2>3 DEF Begin
    <3> HIDE DEF new
    <3> QED BY <2>1, <3>1, <3>2, <3>3 DEF EventType
  <2> QED BY <2>2, <2>3
<1>3. ASSUME NEW r \in Request, Completes(r) \/ StreamOpens(r) \/ TakeData(r) \/ Conclude(r)
      PROVE  EventType'
  <2>1. UNCHANGED storeVars
    BY <1>3 DEF Completes, StreamOpens, TakeData, Conclude
  <2>2. UNCHANGED <<seq, slot>> \/ \E type \in Own : TakeSeq(r, r, type)
    BY <1>3 DEF Completes, StreamOpens, TakeData, Conclude, StreamMeta, Own
  <2>3. r \in Actor
    BY DEF Actor
  <2>4. CASE UNCHANGED <<seq, slot>>
    BY <1>1, <2>1, <2>4 DEF storeVars
  <2>5. CASE \E type \in Own : TakeSeq(r, r, type)
    BY <2>1, <2>3, <2>5, TakeSeqType
  <2> QED BY <2>2, <2>4, <2>5
<1>4. ASSUME NEW a \in Actor, InsertEvent(a)
      PROVE  EventType'
  <2>1. PICK e \in slot[a] : /\ events' \subseteq events \cup {e} /\ lost' \subseteq lost \cup {e}
                             /\ late' \in {late, [late EXCEPT ![e.req] = late[e.req] + 1]}
    <3>1. PICK e \in slot[a] :
              /\ \/ events' = events \cup {e} /\ lost' = lost
                 \/ lost' = lost \cup {e} /\ events' = events
              /\ late' = [late EXCEPT ![e.req] = IF pc[e.req] = "returned" THEN @ + 1 ELSE @]
      BY <1>4 DEF InsertEvent
    <3>2. late' = late \/ late' = [late EXCEPT ![e.req] = late[e.req] + 1]
      BY <3>1 DEF EventType
    <3> QED BY <3>1, <3>2
  <2>2. e \in Row
    BY DEF EventType
  <2>3. slot' = [slot EXCEPT ![a] = {}] /\ seq' = seq
    BY <1>4 DEF InsertEvent
  <2>4. e.req \in Request
    BY <2>2 DEF Row
  <2>5. late' \in [Request -> Nat]
    BY <2>1, <2>4 DEF EventType
  <2>6. slot' \in [Actor -> SUBSET Row]
    BY <2>3 DEF EventType
  <2> QED BY <2>1, <2>2, <2>3, <2>5, <2>6 DEF EventType
<1>5. CASE AuditEvent
  <2>1. PICK m \in cur : TakeSeq(Reader, m.req, m.kind)
    BY <1>5 DEF AuditEvent
  <2>2. m.req \in Request /\ m.kind \in Audits \cup Own /\ Reader \in Actor
    BY DEF FileType, Actor
  <2>3. UNCHANGED storeVars
    BY <1>5 DEF AuditEvent
  <2> QED BY <2>1, <2>2, <2>3, TakeSeqType
<1>6. ASSUME NEW r \in Request, Handler(r) \/ ClientLeaves(r) \/ Plugin(r)
      PROVE  \/ Begin(r) \/ Completes(r) \/ StreamOpens(r) \/ TakeData(r) \/ Conclude(r)
             \/ UNCHANGED <<seq, slot, events, lost, late>>
  BY <1>6 DEF Handler, CallFails, TakeError, RangeEnds, FinishRow, WriteFull, Return, ClientLeaves, Plugin,
              PluginStarts, PluginHears, PluginAnswers, PluginReplies, PluginStreams, Outside, storeVars
<1>7. CASE FetchHandler \/ AuditPayload \/ AuditDone \/ Deliver
  BY <1>1, <1>7 DEF FetchHandler, AuditPayload, AuditDone, Deliver, storeVars
<1> QED BY <1>1, <1>2, <1>3, <1>4, <1>5, <1>6, <1>7 DEF Next, Serve

\* The connection keeps its capacity and carries messages only.
LEMMA WireStep ==
    ASSUME WireType, Next
    PROVE  WireType'
<1>1. CASE UNCHANGED <<wire, reply, chan>>
  BY <1>1 DEF WireType
<1>2. ASSUME NEW r \in Request, TakeData(r)
      PROVE  WireType'
  <2>1. chan[r] \in Seq(Event) /\ chan[r] # <<>>
    BY <1>2 DEF TakeData, WireType
  <2>2. Tail(chan[r]) \in Seq(Event)
    BY <2>1, HeadTailProperties
  <2>3. chan' = [chan EXCEPT ![r] = Tail(chan[r])] /\ UNCHANGED <<wire, reply>>
    BY <1>2 DEF TakeData, plugVars
  <2> QED BY <2>2, <2>3 DEF WireType
<1>3. ASSUME wire # <<>>, wire' = Tail(wire)
      PROVE  wire' \in Seq(Message) /\ Len(wire') <= SockCap /\ Head(wire) \in Message
  BY <1>3, HeadTailProperties, SockAssumption DEF WireType
<1>4. CASE FetchHandler
  <2>1. wire # <<>> /\ wire' = Tail(wire) /\ UNCHANGED <<reply, chan>>
    BY <1>4 DEF FetchHandler, inVars
  <2> QED BY <1>3, <2>1 DEF WireType
<1>5. CASE Deliver
  <2> DEFINE h == Head(wire)
  <2>1. wire # <<>> /\ wire' = Tail(wire) /\ h.kind \notin Audits
    BY <1>5 DEF Deliver
  <2>2. h \in Message /\ wire' \in Seq(Message) /\ Len(wire') <= SockCap
    BY <1>3, <2>1
  <2>3. h.req \in Request /\ h.kind \in Answer \cup Event
    BY <2>1, <2>2 DEF Message
  <2>4. CASE h.kind \in Answer
    <3>1. reply' = [reply EXCEPT ![h.req] = h.kind] /\ UNCHANGED chan
      BY <1>5, <2>4 DEF Deliver
    <3> QED BY <2>2, <2>3, <2>4, <3>1 DEF WireType
  <2>5. CASE h.kind \notin Answer
    <3>1. chan' = [chan EXCEPT ![h.req] = Append(chan[h.req], h.kind)] /\ UNCHANGED reply
      BY <1>5, <2>5 DEF Deliver
    <3>2. chan[h.req] \in Seq(Event) /\ h.kind \in Event
      BY <2>3, <2>5 DEF WireType
    <3>3. Append(chan[h.req], h.kind) \in Seq(Event)
      BY <3>2, AppendProperties
    <3> QED BY <2>2, <3>1, <3>3 DEF WireType
  <2> QED BY <2>4, <2>5
<1>6. ASSUME NEW r \in Request, Plugin(r)
      PROVE  WireType'
  <2>1. UNCHANGED <<reply, chan>>
    BY <1>6 DEF Plugin, PluginStarts, PluginHears, PluginAnswers, PluginReplies, PluginStreams, Outside, inVars
  <2>2. PICK kind \in Audits \cup Answer \cup Event : \E next : Say(r, kind, next)
    BY <1>6, PluginSays
  <2>3. [req |-> r, kind |-> kind] \in Message
    BY DEF Message
  <2>4. wire' = Append(wire, [req |-> r, kind |-> kind]) /\ Len(wire) < SockCap
    BY <2>2 DEF Say
  <2>5. wire' \in Seq(Message) /\ Len(wire') = Len(wire) + 1 /\ Len(wire) \in Nat
    BY <2>3, <2>4, AppendProperties, LenProperties DEF WireType
  <2> QED BY <2>1, <2>4, <2>5, SockAssumption DEF WireType
<1>7. ASSUME NEW r \in Request, Handler(r) \/ ClientLeaves(r)
      PROVE  TakeData(r) \/ UNCHANGED <<wire, reply, chan>>
  BY <1>7 DEF Handler, Begin, CallFails, Completes, StreamOpens, TakeError, RangeEnds, Conclude, FinishRow,
              WriteFull, Return, ClientLeaves, plugVars, inVars
<1>8. ASSUME NEW a \in Actor, InsertEvent(a)
      PROVE  UNCHANGED <<wire, reply, chan>>
  BY <1>8 DEF InsertEvent, plugVars, inVars
<1>9. CASE AuditPayload \/ AuditEvent \/ AuditDone
  BY <1>1, <1>9 DEF AuditPayload, AuditEvent, AuditDone, plugVars, inVars
<1> QED BY <1>1, <1>2, <1>4, <1>5, <1>6, <1>7, <1>8, <1>9 DEF Next, Serve

\* Every step keeps the types.
LEMMA TypeStep == TypeInv /\ [Next]_vars => TypeInv'
<1> SUFFICES ASSUME TypeInv, [Next]_vars PROVE TypeInv'
  OBVIOUS
<1>1. CASE UNCHANGED vars
  BY <1>1 DEF TypeInv, HandType, FlagType, FileType, EventType, WireType, vars
<1>2. CASE Next
  BY <1>2, HandStep, FlagStep, FileStep, EventStep, WireStep DEF TypeInv
<1> QED BY <1>1, <1>2

\* Type correctness, for any number of requests and any connection: the socket
\* never holds more than it can, an event's number is a number and the trace
\* file has no part but the two.
THEOREM TypeCorrect == Spec => []TypeOK
  BY TypeInit, TypeStep, TypeParts, PTL DEF Spec
=============================================================================
