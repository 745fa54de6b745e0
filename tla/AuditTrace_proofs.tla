------------------------- MODULE AuditTrace_proofs --------------------------
(***************************************************************************)
(* That a successful request's trace is complete, that at most one audit   *)
(* follows its handler, and that its audits are numbered in the order in   *)
(* which the plugin said them, for any number of requests and any          *)
(* connection.  Who holds an audit that is on its way is said by ReaderInv *)
(* and OwnInv; that a returned handler is followed by one of them at most, *)
(* by LateInv.  The plugin's result or end comes behind all its audits     *)
(* (CloseInv), none is lost while the handler is there (CarryInv,          *)
(* PartInv), and OkInv is what a handler relies on that takes its request  *)
(* for a success.  OrderInv says that what has been numbered stands below  *)
(* what is to come.                                                        *)
(***************************************************************************)
EXTENDS AuditTrail_proofs

\* A message of kind about r is on the connection, at i.
Is(i, r, kind) == wire[i].req = r /\ wire[i].kind = kind
On(r, kind) == \E i \in DOMAIN wire : Is(i, r, kind)
\* A notification of r is in the reader's hands, not numbered yet.
InHand(r, kind) == reader \in {"payload", "event"} /\ [req |-> r, kind |-> kind] \in cur
\* Its event is numbered and not in the store yet.
Slotted(r, type) == \E e \in slot[Reader] : e.req = r /\ e.type = type
\* The stream's end is in the handler's channel.
EndsIn(r) == \E i \in DOMAIN chan[r] : chan[r][i] = "end"

\* Handlers that are registered for no audit: not yet, or not any more.
Outer == {"idle", "returned"}

-----------------------------------------------------------------------------
(* What the steps leave alone.                                             *)

\* One more message on the connection.
LEMMA SaidOn ==
    ASSUME WireType, NEW r \in Request, NEW kind \in Audits \cup Answer \cup Event, NEW next,
           Say(r, kind, next)
    PROVE  /\ \A i \in DOMAIN wire' : \/ i \in DOMAIN wire /\ wire'[i] = wire[i]
                                      \/ wire'[i].req = r /\ wire'[i].kind = kind /\ i = Len(wire) + 1
           /\ \A i \in DOMAIN wire : i \in DOMAIN wire' /\ wire'[i] = wire[i] /\ i <= Len(wire)
           /\ \A q, k : On(q, k)' <=> On(q, k) \/ (q = r /\ k = kind)
<1> DEFINE m == [req |-> r, kind |-> kind]
<1>1. wire' = Append(wire, m) /\ wire \in Seq(Message) /\ m \in Message
  BY DEF Say, WireType, Message
<1>2. m.req = r /\ m.kind = kind
  OBVIOUS
<1> HIDE DEF m
<1>3. /\ Len(wire') = Len(wire) + 1 /\ Len(wire) \in Nat
      /\ DOMAIN wire = 1 .. Len(wire) /\ DOMAIN wire' = 1 .. Len(wire')
      /\ \A i \in 1 .. Len(wire) : wire'[i] = wire[i]
      /\ wire'[Len(wire) + 1] = m
  BY <1>1, AppendProperties, LenProperties
<1>4. \A i \in DOMAIN wire' : \/ i \in DOMAIN wire /\ wire'[i] = wire[i]
                              \/ wire'[i].req = r /\ wire'[i].kind = kind /\ i = Len(wire) + 1
  BY <1>2, <1>3
<1>5. \A i \in DOMAIN wire : i \in DOMAIN wire' /\ wire'[i] = wire[i] /\ i <= Len(wire)
  BY <1>3
<1>6. Len(wire) + 1 \in DOMAIN wire'
  BY <1>3
<1>7. \A q, k : On(q, k)' <=> On(q, k) \/ (q = r /\ k = kind)
  BY <1>2, <1>3, <1>4, <1>5, <1>6 DEF On, Is
<1> QED BY <1>4, <1>5, <1>7

\* One message less: the first.
LEMMA ReadOn ==
    ASSUME WireType, wire # <<>>, wire' = Tail(wire)
    PROVE  /\ Head(wire) \in Message
           /\ 1 \in DOMAIN wire /\ wire[1] = Head(wire)
           /\ \A i \in DOMAIN wire' : i + 1 \in DOMAIN wire /\ wire'[i] = wire[i + 1] /\ i \in Nat \ {0}
           /\ \A q, k : On(q, k)' => On(q, k)
           /\ \A q, k : On(q, k) => On(q, k)' \/ (Head(wire).req = q /\ Head(wire).kind = k)
<1>1. wire \in Seq(Message)
  BY DEF WireType
<1>2. /\ Head(wire) \in Message /\ Len(wire) \in Nat \ {0}
      /\ Len(wire') = Len(wire) - 1
      /\ DOMAIN wire = 1 .. Len(wire) /\ DOMAIN wire' = 1 .. Len(wire')
      /\ \A i \in 1 .. Len(wire') : wire'[i] = wire[i + 1]
      /\ Head(wire) = wire[1]
  BY <1>1, HeadTailProperties, LenProperties, EmptySeq
<1>3. \A i \in DOMAIN wire' : i + 1 \in DOMAIN wire /\ wire'[i] = wire[i + 1] /\ i \in Nat \ {0}
  BY <1>2
<1>4. \A i \in DOMAIN wire : i = 1 \/ (i - 1 \in DOMAIN wire' /\ wire'[i - 1] = wire[i])
  BY <1>2
<1>5. \A q, k : On(q, k)' => On(q, k)
  BY <1>3 DEF On, Is
<1>6. \A q, k : On(q, k) => On(q, k)' \/ (Head(wire).req = q /\ Head(wire).kind = k)
  BY <1>2, <1>4 DEF On, Is
<1> QED BY <1>2, <1>3, <1>5, <1>6

\* A handler's step touches its own request only, and neither the connection
\* nor the reader.
LEMMA HandlerFrame ==
    ASSUME TypeInv, NEW r \in Request, Handler(r)
    PROVE  /\ UNCHANGED <<level, left, late, lost, reader, cur, wire, replied, reply, payload>>
           /\ slot'[Reader] = slot[Reader]
           /\ pc[r] # "returned" /\ pc'[r] # "idle"
           /\ pc'[r] = "returned" => slot'[r] = {} /\ pc[r] # "idle"
           /\ r \in onTrace' <=> pc'[r] # "returned" /\ (r \in onTrace \/ pc[r] = "idle")
           /\ \A e \in slot'[r] : e \in slot[r] \/ (e.req = r /\ e.type \in Own)
           /\ \A e \in events' \ events : e.type = "prepared"
           /\ events \subseteq events'
<1> USE DEF TypeInv, EventType, HandType, Become
<1> r \in Actor /\ Reader \in Actor /\ r # Reader
  BY RequestAssumption DEF Actor
<1> DEFINE Frame == UNCHANGED <<level, left, late, lost, reader, cur, wire, replied, reply, payload>>
           Own1 == \A e \in slot'[r] : e \in slot[r] \/ (e.req = r /\ e.type \in Own)
<1>0. ASSUME NEW type \in Own, TakeSeq(r, r, type)
      PROVE  slot'[Reader] = slot[Reader] /\ Own1
  <2>1. slot' = slot \/ slot' = [slot EXCEPT ![r] = {[req |-> r, seq |-> seq[r] + 1, type |-> type]}]
    BY <1>0 DEF TakeSeq
  <2> QED BY <2>1
<1>1. CASE Begin(r)
  <2>1. Frame /\ UNCHANGED slot
    BY <1>1 DEF Begin, readVars, inVars
  <2>2. pc[r] = "idle" /\ pc' = [pc EXCEPT ![r] = "calling"] /\ onTrace' = onTrace \cup {r}
    BY <1>1 DEF Begin, At
  <2>3. events' = events \/ events' = events \cup {[req |-> r, seq |-> seq[r] + 1, type |-> "prepared"]}
    BY <1>1 DEF Begin
  <2> QED BY <2>1, <2>2, <2>3
<1>2. CASE Completes(r) \/ StreamOpens(r) \/ TakeData(r) \/ Conclude(r)
  <2>1. Frame /\ UNCHANGED <<events, onTrace>>
    BY <1>2 DEF Completes, StreamOpens, TakeData, Conclude, reqVars, storeVars, readVars, plugVars, inVars
  <2>2. UNCHANGED slot \/ \E type \in Own : TakeSeq(r, r, type)
    BY <1>2 DEF Completes, StreamOpens, TakeData, Conclude, StreamMeta, Own
  <2>3. /\ pc[r] \in {"calling", "opened", "ranging", "ended"}
        /\ \E n \in {"finishing", "opened", "ranging", "returning"} : pc' = [pc EXCEPT ![r] = n]
    BY <1>2 DEF Completes, StreamOpens, TakeData, Conclude, At
  <2>4. pc[r] \notin {"idle", "returned"} /\ pc'[r] \notin {"idle", "returned"}
    BY <2>3
  <2>5. slot'[Reader] = slot[Reader] /\ Own1
    BY <1>0, <2>2
  <2> QED BY <2>1, <2>4, <2>5
<1>3. CASE CallFails(r) \/ TakeError(r) \/ RangeEnds(r) \/ FinishRow(r) \/ WriteFull(r)
  <2>1. Frame /\ UNCHANGED <<events, onTrace, slot>>
    BY <1>3 DEF CallFails, TakeError, RangeEnds, FinishRow, WriteFull, reqVars, storeVars, readVars, plugVars, inVars
  <2>2. /\ pc[r] \in {"calling", "opened", "ranging", "finishing", "filing"}
        /\ \E n \in {"finishing", "ended", "filing", "returning"} : pc' = [pc EXCEPT ![r] = n]
    BY <1>3 DEF CallFails, TakeError, RangeEnds, FinishRow, WriteFull, AfterFinish, Ranging, At
  <2>3. pc[r] \notin {"idle", "returned"} /\ pc'[r] \notin {"idle", "returned"}
    BY <2>2
  <2> QED BY <2>1, <2>3
<1>4. CASE Return(r)
  <2>1. Frame /\ UNCHANGED <<events, slot>>
    BY <1>4 DEF Return, reqVars, storeVars, readVars, plugVars, inVars
  <2>2. pc[r] = "returning" /\ slot[r] = {} /\ pc' = [pc EXCEPT ![r] = "returned"] /\ onTrace' = onTrace \ {r}
    BY <1>4 DEF Return, At
  <2> QED BY <2>1, <2>2
<1> QED BY <1>1, <1>2, <1>3, <1>4 DEF Handler

\* A step of one handler leaves the others, and what belongs to their requests, alone.
LEMMA HandlerOthers ==
    ASSUME TypeInv, NEW r \in Request, Handler(r), NEW q \in Request, q # r
    PROVE  /\ pc'[q] = pc[q] /\ outcome'[q] = outcome[q] /\ row'[q] = row[q] /\ copy'[q] = copy[q]
           /\ file'[q] = file[q] /\ mode'[q] = mode[q] /\ plug'[q] = plug[q] /\ chan'[q] = chan[q]
           /\ slot'[q] = slot[q]
           /\ q \in onTrace' <=> q \in onTrace
<1> USE DEF TypeInv, HandType, FileType, EventType, WireType, Become
<1> q \in Actor /\ r \in Actor
  BY DEF Actor
<1>1. CASE Begin(r)
  BY <1>1 DEF Begin, inVars
<1>2. CASE CallFails(r) \/ TakeError(r) \/ RangeEnds(r)
  BY <1>2 DEF CallFails, TakeError, RangeEnds, reqVars, plugVars, inVars
<1>3. CASE Completes(r) \/ StreamOpens(r) \/ TakeData(r) \/ Conclude(r)
  <2>1. \/ UNCHANGED slot
        \/ \E type : TakeSeq(r, r, type)
    BY <1>3 DEF Completes, StreamOpens, TakeData, Conclude, StreamMeta
  <2>2. slot'[q] = slot[q]
    BY <2>1 DEF TakeSeq
  <2>3. UNCHANGED <<row, copy, file, mode, plug, onTrace>>
    BY <1>3 DEF Completes, StreamOpens, TakeData, Conclude, reqVars, plugVars
  <2>4. pc'[q] = pc[q] /\ outcome'[q] = outcome[q]
    BY <1>3 DEF Completes, StreamOpens, TakeData, Conclude
  <2>5. chan'[q] = chan[q]
    BY <1>3 DEF Completes, StreamOpens, TakeData, Conclude, inVars
  <2> QED BY <2>2, <2>3, <2>4, <2>5
<1>4. CASE FinishRow(r) \/ WriteFull(r) \/ Return(r)
  BY <1>4 DEF FinishRow, WriteFull, Return, reqVars, plugVars, inVars
<1> QED BY <1>1, <1>2, <1>3, <1>4 DEF Handler

\* How the plugin goes on with what it says.
Heard == {"answering", "open", "started", "begun", "first", "flowing", "erred", "finished", "ended"}
Sent  == Heard \cup {"doing", "denied"}

\* How far in the order of AuditOrder the plugin is.
Reached(stage) ==
    CASE stage = "none" -> -1
      [] stage = "asked" -> 0
      [] stage = "doing" -> 1
      [] stage \in {"denied", "answering", "open"} -> 2
      [] stage \in {"started", "begun"} -> 3
      [] stage \in {"first", "flowing", "erred"} -> 4
      [] stage \in {"finished", "ended", "done"} -> 5

\* Stages that a step of the plugin may lead to.
Stage == Sent \cup {"asked", "done"}

\* What the steps of the plugin for r have in common: when it may say what, and
\* that it goes on in the order of the upstream.
Move(r, kind, next) ==
    /\ plug[r] \notin {"none", "done"} /\ next \in Stage
    /\ plug[r] = "ended" => kind = "reply"
    /\ kind = "reply" => next = plug[r]
    /\ next = "answering" => mode[r] # "stream"
    /\ kind = "result" => plug[r] = "answering" /\ next = "done"
    /\ kind = "end" => next = "ended" /\ (left[r] \/ plug[r] = "finished")
    /\ next = "finished" => plug[r] = "finished" \/ kind = "finished"
    /\ next \in Sent => plug[r] \in Sent \/ kind = "request"
    /\ next \in Heard => plug[r] \in Heard \/ kind = "response"
    /\ Reached(plug[r]) <= Reached(next)
    /\ kind \in Audits => Reached(plug[r]) <= Place(kind) /\ Place(kind) <= Reached(next)

\* The order in numbers.
LEMMA Reaches ==
    /\ Reached("none") = -1 /\ Reached("asked") = 0 /\ Reached("doing") = 1
    /\ \A p \in {"denied", "answering", "open"} : Reached(p) = 2
    /\ \A p \in {"started", "begun"} : Reached(p) = 3
    /\ \A p \in {"first", "flowing", "erred"} : Reached(p) = 4
    /\ \A p \in {"finished", "ended", "done"} : Reached(p) = 5
  BY DEF Reached

\* The order of the audits in numbers.
LEMMA Places ==
    /\ Place("prepared") = 0 /\ Place("request") = 1 /\ Place("response") = 2 /\ Place("provider_error") = 2
    /\ Place("started") = 3 /\ Place("first") = 4 /\ Place("finished") = 5
  BY DEF Place

\* Every step of the plugin says one thing and is a Move.
LEMMA PluginMoves ==
    ASSUME TypeInv, NEW r \in Request, Plugin(r)
    PROVE  /\ \E kind \in Audits \cup Answer \cup Event : \E next : Say(r, kind, next) /\ Move(r, kind, next)
           /\ Outside
<1>1. CASE PluginStarts(r)
  BY <1>1, Reaches, Places DEF PluginStarts, Move, Audits, Answer, Heard, Sent, Stage
<1>2. CASE PluginHears(r)
  <2>1. PICK kind \in Audits : \E next \in {"denied", "open", "answering"} :
            /\ Say(r, kind, next) /\ kind \in {"provider_error", "response"}
            /\ next # "denied" => kind = "response" /\ (next = "answering" => mode[r] # "stream")
    BY <1>2 DEF PluginHears, Audits
  <2> QED BY <1>2, <2>1, Reaches, Places DEF PluginHears, Move, Audits, Heard, Sent, Stage
<1>3. CASE PluginAnswers(r)
  BY <1>3, Reaches, Places DEF PluginAnswers, Move, Audits, Answer, Heard, Sent, Stage
<1>4. CASE PluginReplies(r)
  BY <1>4, Reaches, Places DEF PluginReplies, Move, Audits, Answer, Heard, Sent, Stage
<1>5. CASE PluginStreams(r)
  <2>1. CASE left[r] /\ plug[r] \in {"begun", "flowing"} /\ Say(r, "end", "ended")
    BY <1>5, <2>1, Reaches, Places DEF PluginStreams, Move, Audits, Event, Heard, Sent, Stage
  <2>2. ASSUME NEW t \in Sayings, plug[r] = t[1], Say(r, t[2], t[3])
        PROVE  t[2] \in Audits \cup Event /\ Move(r, t[2], t[3])
    BY <2>2, Reaches, Places DEF Sayings, Move, Audits, Event, Heard, Sent, Stage
  <2> QED BY <1>5, <2>1, <2>2 DEF PluginStreams
<1> QED BY <1>1, <1>2, <1>3, <1>4, <1>5 DEF Plugin
-----------------------------------------------------------------------------
(* Who holds what: the map of trace handlers, the reader and the slots.    *)

\* The reader holds one message unless it reads, and its slot holds that message's
\* event.
ReaderInv ==
    /\ reader = "read" => cur = {}
    /\ reader # "read" => \E m \in cur : cur = {m}
    /\ reader # "insert" => slot[Reader] = {}
    /\ \A e \in slot[Reader] : [req |-> e.req, kind |-> e.type] \in cur

\* A handler's slot holds events of its own; it is registered exactly while it runs;
\* a request that has not begun is unknown to the plugin.
OwnInv ==
    \A r \in Request :
        /\ \A e \in slot[r] : e.req = r /\ e.type \in Own
        /\ pc[r] \in Outer => slot[r] = {}
        /\ r \in onTrace <=> pc[r] \notin Outer
        /\ pc[r] = "idle" => plug[r] = "none"

\* The reader is about to write an event of r.
Held(r) == \E type \in Audits : InHand(r, type) \/ Slotted(r, type)

\* Of a request whose handler has returned one audit has come late, or one may.
LateInv ==
    \A r \in Request :
        /\ pc[r] # "returned" => late[r] = 0
        /\ late[r] <= 1
        /\ Held(r) => late[r] = 0


\* At first nothing is held.
LEMMA HoldInit == Init => ReaderInv /\ OwnInv /\ LateInv
<1> SUFFICES ASSUME Init PROVE ReaderInv /\ OwnInv /\ LateInv
  OBVIOUS
<1>1. Reader \in Actor /\ \A a \in Actor : slot[a] = {}
  BY DEF Init, Actor
<1>2. reader = "read" /\ cur = {} /\ onTrace = {}
  BY DEF Init
<1>3. \A r \in Request : pc[r] = "idle" /\ plug[r] = "none" /\ late[r] = 0
  BY DEF Init
<1>4. Request \subseteq Actor
  BY DEF Actor
<1> QED BY <1>1, <1>2, <1>3, <1>4 DEF ReaderInv, OwnInv, LateInv, Outer

\* What the reader has in its hands is a notification.
LEMMA CurAudit ==
    ASSUME TypeInv
    PROVE  \A m \in cur : m.req \in Request /\ m.kind \in Audits /\ m = [req |-> m.req, kind |-> m.kind]
  BY DEF TypeInv, FileType

\* The reader goes on from one notification to the next.
LEMMA ReaderStep ==
    ASSUME TypeInv, ReaderInv, Next
    PROVE  ReaderInv'
<1> Reader \in Actor
  BY DEF Actor
<1>1. ASSUME UNCHANGED <<reader, cur>>, slot'[Reader] \in {slot[Reader], {}}
      PROVE  ReaderInv'
  BY <1>1 DEF ReaderInv
<1>2. ASSUME NEW r \in Request, Handler(r)
      PROVE  ReaderInv'
  BY <1>1, <1>2, HandlerFrame
<1>3. ASSUME NEW r \in Request, ClientLeaves(r)
      PROVE  ReaderInv'
  BY <1>1, <1>3 DEF ClientLeaves, readVars
<1>4. ASSUME NEW r \in Request, Plugin(r)
      PROVE  ReaderInv'
  BY <1>1, <1>4, PluginMoves DEF Outside, readVars
<1>5. ASSUME NEW a \in Actor, InsertEvent(a)
      PROVE  ReaderInv'
  <2>1. UNCHANGED <<reader, cur>> /\ slot' = [slot EXCEPT ![a] = {}]
    BY <1>5 DEF InsertEvent, readVars
  <2>2. slot'[Reader] \in {slot[Reader], {}}
    BY <2>1 DEF TypeInv, EventType
  <2> QED BY <1>1, <2>1, <2>2
<1>6. CASE FetchHandler
  <2>1. reader = "read" /\ UNCHANGED slot
    BY <1>6 DEF FetchHandler
  <2>2. \/ UNCHANGED <<reader, cur>>
        \/ reader' = "payload" /\ cur' = {Head(wire)}
    BY <1>6 DEF FetchHandler, readVars
  <2> QED BY <1>1, <2>1, <2>2 DEF ReaderInv
<1>7. CASE AuditPayload
  BY <1>7 DEF AuditPayload, ReaderInv
<1>8. CASE AuditEvent
  <2>1. PICK m \in cur : TakeSeq(Reader, m.req, m.kind)
    BY <1>8 DEF AuditEvent
  <2>2. reader = "event" /\ reader' = "insert" /\ UNCHANGED cur
    BY <1>8 DEF AuditEvent
  <2>3. slot[Reader] = {}
    BY <2>2 DEF ReaderInv
  <2>4. slot' = slot \/ slot' = [slot EXCEPT ![Reader] = {[req |-> m.req, seq |-> seq[m.req] + 1, type |-> m.kind]}]
    BY <2>1 DEF TakeSeq
  <2>5. \A e \in slot'[Reader] : e.req = m.req /\ e.type = m.kind
    BY <2>3, <2>4 DEF TypeInv, EventType
  <2>6. m = [req |-> m.req, kind |-> m.kind]
    BY CurAudit
  <2>7. \A e \in slot'[Reader] : [req |-> e.req, kind |-> e.type] \in cur'
    BY <2>2, <2>5, <2>6
  <2> QED BY <2>2, <2>7 DEF ReaderInv
<1>9. CASE AuditDone
  BY <1>9 DEF AuditDone, ReaderInv
<1>10. CASE Deliver
  BY <1>1, <1>10 DEF Deliver, readVars
<1> QED BY <1>2, <1>3, <1>4, <1>5, <1>6, <1>7, <1>8, <1>9, <1>10 DEF Next, Serve

\* A handler numbers its own events, and is in the map while it runs.
LEMMA OwnStep ==
    ASSUME TypeInv, OwnInv, Next
    PROVE  OwnInv'
<1> Reader \in Actor /\ Request \subseteq Actor
  BY DEF Actor
<1>1. ASSUME UNCHANGED <<pc, onTrace>>, \A r \in Request : slot'[r] \subseteq slot[r],
             \A r \in Request : pc[r] = "idle" => plug'[r] = plug[r]
      PROVE  OwnInv'
  BY <1>1 DEF OwnInv
<1>2. ASSUME NEW r \in Request, Handler(r)
      PROVE  OwnInv'
  <2> SUFFICES ASSUME NEW q \in Request
               PROVE  /\ \A e \in slot'[q] : e.req = q /\ e.type \in Own
                      /\ pc'[q] \in Outer => slot'[q] = {}
                      /\ q \in onTrace' <=> pc'[q] \notin Outer
                      /\ pc'[q] = "idle" => plug'[q] = "none"
    BY DEF OwnInv
  <2>1. CASE q # r
    BY <1>2, <2>1, HandlerOthers DEF OwnInv
  <2>2. CASE q = r
    <3>1. /\ pc[r] # "returned" /\ pc'[r] # "idle"
          /\ pc'[r] = "returned" => slot'[r] = {} /\ pc[r] # "idle"
          /\ r \in onTrace' <=> pc'[r] # "returned" /\ (r \in onTrace \/ pc[r] = "idle")
          /\ \A e \in slot'[r] : e \in slot[r] \/ (e.req = r /\ e.type \in Own)
      BY <1>2, HandlerFrame
    <3>2. r \in onTrace \/ pc[r] = "idle"
      BY <3>1 DEF OwnInv, Outer
    <3> QED BY <2>2, <3>1, <3>2 DEF OwnInv, Outer
  <2> QED BY <2>1, <2>2
<1>3. ASSUME NEW r \in Request, ClientLeaves(r)
      PROVE  OwnInv'
  BY <1>1, <1>3 DEF ClientLeaves, plugVars, inVars
<1>4. ASSUME NEW r \in Request, Plugin(r)
      PROVE  OwnInv'
  <2>1. PICK next : plug' = [plug EXCEPT ![r] = next] /\ plug[r] # "none"
    BY <1>4, PluginMoves DEF Say, Move
  <2>2. UNCHANGED <<pc, onTrace, slot>>
    BY <1>4, PluginMoves DEF Outside, handVars
  <2>3. pc[r] # "idle"
    BY <2>1 DEF OwnInv
  <2> QED BY <1>1, <2>1, <2>2, <2>3 DEF TypeInv, HandType
<1>5. ASSUME NEW a \in Actor, InsertEvent(a)
      PROVE  OwnInv'
  <2>1. slot' = [slot EXCEPT ![a] = {}] /\ UNCHANGED <<pc, onTrace, plug>>
    BY <1>5 DEF InsertEvent, handVars, plugVars, inVars
  <2> QED BY <1>1, <2>1 DEF TypeInv, EventType
<1>6. CASE FetchHandler \/ AuditPayload \/ AuditDone
  BY <1>1, <1>6 DEF FetchHandler, AuditPayload, AuditDone, handVars, plugVars, inVars
<1>7. CASE AuditEvent
  <2>1. UNCHANGED <<pc, onTrace, plug>>
    BY <1>7 DEF AuditEvent, handVars, plugVars, inVars
  <2>2. PICK m \in cur : TakeSeq(Reader, m.req, m.kind)
    BY <1>7 DEF AuditEvent
  <2>3. \A r \in Request : slot'[r] = slot[r]
    BY <2>2, RequestAssumption DEF TakeSeq, TypeInv, EventType
  <2> QED BY <1>1, <2>1, <2>3
<1>8. CASE Deliver
  BY <1>1, <1>8 DEF Deliver, handVars
<1> QED BY <1>2, <1>3, <1>4, <1>5, <1>6, <1>7, <1>8 DEF Next, Serve

\* A handler that has returned is followed by the one event the reader holds.
LEMMA LateStep ==
    ASSUME TypeInv, ReaderInv, OwnInv, LateInv, Next
    PROVE  LateInv'
<1> Reader \in Actor /\ Request \subseteq Actor
  BY DEF Actor
<1>1. ASSUME \A r \in Request : pc'[r] # "returned" => pc[r] # "returned",
             \A r \in Request : late'[r] = late[r] /\ (Held(r)' => Held(r))
      PROVE  LateInv'
  BY <1>1 DEF LateInv
<1>2. ASSUME UNCHANGED <<reader, cur>>, slot'[Reader] = slot[Reader]
      PROVE  \A r \in Request : Held(r)' => Held(r)
  BY <1>2 DEF Held, InHand, Slotted
<1>3. ASSUME NEW r \in Request, Handler(r)
      PROVE  LateInv'
  <2>1. UNCHANGED <<reader, cur, late>> /\ slot'[Reader] = slot[Reader] /\ pc[r] # "returned"
    BY <1>3, HandlerFrame
  <2>2. \A q \in Request : q # r => pc'[q] = pc[q]
    BY <1>3, HandlerOthers
  <2> QED BY <1>1, <1>2, <2>1, <2>2
<1>4. ASSUME NEW r \in Request, ClientLeaves(r)
      PROVE  LateInv'
  BY <1>1, <1>2, <1>4 DEF ClientLeaves, readVars, storeVars
<1>5. ASSUME NEW r \in Request, Plugin(r)
      PROVE  LateInv'
  BY <1>1, <1>2, <1>5, PluginMoves DEF Outside, handVars, readVars, storeVars
<1>6. ASSUME NEW a \in Actor, InsertEvent(a)
      PROVE  LateInv'
  <2>1. PICK e \in slot[a] : late' = [late EXCEPT ![e.req] = IF pc[e.req] = "returned" THEN late[e.req] + 1 ELSE late[e.req]]
    BY <1>6 DEF InsertEvent
  <2>2. slot' = [slot EXCEPT ![a] = {}] /\ UNCHANGED <<pc, reader, cur>>
    BY <1>6 DEF InsertEvent, handVars, readVars
  <2>3. CASE a = Reader
    <3>1. reader = "insert"
      BY <2>1, <2>3 DEF ReaderInv
    <3>2. [req |-> e.req, kind |-> e.type] \in cur
      BY <2>1, <2>3 DEF ReaderInv
    <3>3. e.req \in Request /\ e.type \in Audits
      BY <3>2 DEF TypeInv, FileType
    <3>4. Held(e.req)
      BY <2>1, <2>3, <3>3 DEF Held, Slotted
    <3>5. late[e.req] = 0
      BY <3>3, <3>4 DEF LateInv
    <3>6. \A r \in Request : ~Held(r)'
      BY <2>2, <2>3, <3>1 DEF Held, InHand, Slotted, TypeInv, EventType
    <3>7. \A r \in Request : late'[r] = late[r] \/ (r = e.req /\ late'[r] = 1 /\ pc'[r] = "returned")
      BY <2>1, <2>2, <3>3, <3>5 DEF TypeInv, EventType
    <3> QED BY <2>2, <3>6, <3>7 DEF LateInv
  <2>4. CASE a \in Request
    <3>1. e.req = a /\ pc[a] # "returned"
      BY <2>1, <2>4 DEF OwnInv, Outer
    <3>2. late' = late
      BY <2>1, <2>4, <3>1 DEF TypeInv, EventType
    <3>3. slot'[Reader] = slot[Reader]
      BY <2>2, <2>4, RequestAssumption DEF TypeInv, EventType
    <3> QED BY <1>1, <1>2, <2>2, <3>2, <3>3
  <2> QED BY <2>3, <2>4 DEF Actor
<1>7. CASE FetchHandler
  <2>1. reader = "read" /\ UNCHANGED <<pc, slot, late>>
    BY <1>7 DEF FetchHandler, handVars, storeVars
  <2>2. \/ UNCHANGED <<reader, cur>>
        \/ cur' = {Head(wire)} /\ Head(wire).req \in onTrace
    BY <1>7 DEF FetchHandler, readVars
  <2>3. CASE UNCHANGED <<reader, cur>>
    BY <1>1, <1>2, <2>1, <2>3
  <2>4. CASE cur' = {Head(wire)} /\ Head(wire).req \in onTrace
    <3>1. slot[Reader] = {}
      BY <2>1 DEF ReaderInv
    <3>2. \A r \in Request : Held(r)' => r = Head(wire).req
      BY <2>1, <2>4, <3>1 DEF Held, InHand, Slotted
    <3>3. \A r \in Request : r \in onTrace => late[r] = 0
      BY DEF OwnInv, LateInv, Outer
    <3> QED BY <2>1, <2>4, <3>2, <3>3 DEF LateInv
  <2> QED BY <2>2, <2>3, <2>4
<1>8. CASE AuditPayload
  <2>1. reader = "payload" /\ UNCHANGED <<cur, slot, pc, late>>
    BY <1>8 DEF AuditPayload, handVars, storeVars
  <2>2. \A r \in Request : Held(r)' => Held(r)
    BY <2>1 DEF Held, InHand, Slotted
  <2> QED BY <1>1, <2>1, <2>2
<1>9. CASE AuditEvent
  <2>1. PICK m \in cur : TakeSeq(Reader, m.req, m.kind)
    BY <1>9 DEF AuditEvent
  <2>2. reader = "event" /\ reader' = "insert" /\ UNCHANGED <<cur, pc, late>>
    BY <1>9 DEF AuditEvent, handVars, storeVars
  <2>3. slot' = slot \/ slot' = [slot EXCEPT ![Reader] = {[req |-> m.req, seq |-> seq[m.req] + 1, type |-> m.kind]}]
    BY <2>1 DEF TakeSeq
  <2>4. m.req \in Request /\ m.kind \in Audits /\ m = [req |-> m.req, kind |-> m.kind]
    BY CurAudit
  <2>5. Held(m.req)
    BY <2>2, <2>4 DEF Held, InHand
  <2>6. \A e \in slot'[Reader] : e \in slot[Reader] \/ e.req = m.req
    BY <2>3 DEF TypeInv, EventType
  <2>7. \A r \in Request : Held(r)' => Held(r)
    BY <2>2, <2>5, <2>6 DEF Held, InHand, Slotted
  <2> QED BY <1>1, <2>2, <2>7
<1>10. CASE AuditDone
  <2>1. reader' = "read" /\ UNCHANGED <<slot, pc, late>> /\ slot[Reader] = {}
    BY <1>10 DEF AuditDone, handVars, storeVars
  <2>2. \A r \in Request : ~Held(r)'
    BY <2>1 DEF Held, InHand, Slotted
  <2> QED BY <1>1, <2>1, <2>2
<1>11. CASE Deliver
  BY <1>1, <1>2, <1>11 DEF Deliver, handVars, readVars, storeVars
<1> QED BY <1>3, <1>4, <1>5, <1>6, <1>7, <1>8, <1>9, <1>10, <1>11 DEF Next, Serve

-----------------------------------------------------------------------------
(* A completion's result is the last of its messages, and a stream's end   *)
(* is followed by no audit.                                                *)

\* The plugin's result stands behind everything it says of r, its end behind all but
\* the reply; and a handler that has one of them has no audit behind it.
Closing(r) ==
    /\ plug[r] = "answering" => mode[r] # "stream"
    /\ On(r, "result") \/ reply[r] = "result" => plug[r] = "done" /\ mode[r] # "stream"
    /\ On(r, "end") \/ EndsIn(r) => plug[r] = "ended"
    /\ \A i, j \in DOMAIN wire : i < j /\ wire[j].req = r =>
          ~Is(i, r, "result") /\ (Is(i, r, "end") => wire[j].kind = "reply")
    /\ reply[r] = "result" => \A i \in DOMAIN wire : wire[i].req # r
    /\ EndsIn(r) => \A i \in DOMAIN wire : wire[i].req = r => wire[i].kind = "reply"
    /\ reply[r] = "result" \/ EndsIn(r) => ~Held(r)

CloseInv == \A r \in Request : Closing(r)

\* At first nothing is said.
LEMMA CloseInit == Init => CloseInv
<1> SUFFICES ASSUME Init, NEW r \in Request PROVE Closing(r)
  BY DEF CloseInv
<1>1. plug[r] = "none" /\ reply[r] = "none" /\ DOMAIN chan[r] = {} /\ DOMAIN wire = {}
  BY DEF Init
<1> QED BY <1>1 DEF Closing, On, EndsIn

\* What a handler takes from its channel is not the end.
LEMMA HandlerEnds ==
    ASSUME TypeInv, NEW r \in Request, Handler(r)
    PROVE  \A q \in Request : EndsIn(q)' <=> EndsIn(q)
<1>1. CASE UNCHANGED chan
  BY <1>1 DEF EndsIn
<1>2. CASE TakeData(r)
  <2> DEFINE c == chan[r]
  <2>1. c \in Seq(Event) /\ c # <<>> /\ Head(c) = "data" /\ chan' = [chan EXCEPT ![r] = Tail(c)]
    BY <1>2 DEF TakeData, TypeInv, WireType
  <2>2. chan'[r] = Tail(c) /\ \A q \in Request : q # r => chan'[q] = chan[q]
    BY <2>1 DEF TypeInv, WireType
  <2> HIDE DEF c
  <2>3. /\ Len(c) \in Nat \ {0} /\ DOMAIN c = 1 .. Len(c)
        /\ DOMAIN Tail(c) = 1 .. Len(c) - 1
        /\ \A i \in 1 .. Len(c) - 1 : Tail(c)[i] = c[i + 1]
        /\ c[1] = "data"
    BY <2>1, HeadTailProperties, LenProperties, EmptySeq
  <2>4. (\E i \in DOMAIN Tail(c) : Tail(c)[i] = "end") <=> (\E i \in DOMAIN c : c[i] = "end")
    <3>1. ASSUME NEW i \in DOMAIN c, c[i] = "end"
          PROVE  i - 1 \in DOMAIN Tail(c) /\ Tail(c)[i - 1] = "end"
      BY <2>3, <3>1
    <3>2. ASSUME NEW i \in DOMAIN Tail(c), Tail(c)[i] = "end"
          PROVE  i + 1 \in DOMAIN c /\ c[i + 1] = "end"
      BY <2>3, <3>2
    <3> QED BY <3>1, <3>2
  <2> QED BY <2>2, <2>4 DEF EndsIn, c
<1>3. TakeData(r) \/ UNCHANGED chan
  BY DEF Handler, Begin, CallFails, Completes, StreamOpens, TakeError, RangeEnds, Conclude, FinishRow,
         WriteFull, Return, inVars
<1> QED BY <1>1, <1>2, <1>3

\* A handler asks the plugin once.
LEMMA HandlerAsks ==
    ASSUME TypeInv, NEW r \in Request, Handler(r)
    PROVE  UNCHANGED <<mode, plug>> \/ (pc[r] = "idle" /\ plug'[r] = "asked")
<1>1. CASE Begin(r)
  BY <1>1 DEF Begin, At, TypeInv, HandType
<1> QED BY <1>1 DEF Handler, CallFails, Completes, StreamOpens, TakeData, TakeError, RangeEnds, Conclude,
                    FinishRow, WriteFull, Return, reqVars, plugVars

\* What the connection, the calls and the reader hold is all that matters.
LEMMA CloseSame ==
    ASSUME UNCHANGED <<wire, reply>>, NEW r, Closing(r), plug'[r] = plug[r], mode'[r] = mode[r],
           EndsIn(r)' <=> EndsIn(r), Held(r)' => Held(r)
    PROVE  Closing(r)'
  BY DEF Closing, On, Is

\* Whoever holds an audit of a request did so before, or has just fetched it.
LEMMA HeldStep ==
    ASSUME TypeInv, ReaderInv, Next
    PROVE  \/ \A r \in Request : Held(r)' => Held(r)
           \/ FetchHandler /\ \A r \in Request : Held(r)' => Held(r) \/ r = Head(wire).req
<1> Reader \in Actor
  BY DEF Actor
<1>1. ASSUME UNCHANGED <<reader, cur>>, slot'[Reader] \in {slot[Reader], {}}
      PROVE  \A r \in Request : Held(r)' => Held(r)
  BY <1>1 DEF Held, InHand, Slotted
<1>2. ASSUME NEW r \in Request, Handler(r)
      PROVE  UNCHANGED <<reader, cur>> /\ slot'[Reader] = slot[Reader]
  BY <1>2, HandlerFrame
<1>3. ASSUME NEW r \in Request, ClientLeaves(r) \/ Plugin(r)
      PROVE  UNCHANGED <<reader, cur>> /\ slot' = slot
  BY <1>3, PluginMoves DEF Outside, ClientLeaves, readVars
<1>4. ASSUME NEW a \in Actor, InsertEvent(a)
      PROVE  UNCHANGED <<reader, cur>> /\ slot'[Reader] \in {slot[Reader], {}}
  BY <1>4 DEF InsertEvent, readVars, TypeInv, EventType
<1>5. CASE FetchHandler
  <2>1. UNCHANGED slot /\ (UNCHANGED <<reader, cur>> \/ cur' = {Head(wire)})
    BY <1>5 DEF FetchHandler, readVars
  <2> QED BY <1>5, <2>1, SMTT(20) DEF Held, InHand, Slotted
<1>6. CASE AuditPayload
  <2>1. reader = "payload" /\ UNCHANGED <<cur, slot>>
    BY <1>6 DEF AuditPayload
  <2> QED BY <2>1 DEF Held, InHand, Slotted
<1>7. CASE AuditEvent
  <2>1. PICK m \in cur : TakeSeq(Reader, m.req, m.kind)
    BY <1>7 DEF AuditEvent
  <2>2. reader = "event" /\ reader' = "insert" /\ UNCHANGED cur
    BY <1>7 DEF AuditEvent
  <2>3. slot' = slot \/ slot' = [slot EXCEPT ![Reader] = {[req |-> m.req, seq |-> seq[m.req] + 1, type |-> m.kind]}]
    BY <2>1 DEF TakeSeq
  <2>4. m.req \in Request /\ m.kind \in Audits /\ m = [req |-> m.req, kind |-> m.kind]
    BY CurAudit
  <2>5. Held(m.req)
    BY <2>2, <2>4 DEF Held, InHand
  <2>6. \A e \in slot'[Reader] : e \in slot[Reader] \/ e.req = m.req
    BY <2>3 DEF TypeInv, EventType
  <2> QED BY <2>2, <2>5, <2>6 DEF Held, InHand, Slotted
<1>8. CASE AuditDone
  <2>1. reader' = "read" /\ UNCHANGED slot
    BY <1>8 DEF AuditDone
  <2> QED BY <2>1 DEF Held, InHand, Slotted
<1>9. CASE Deliver
  BY <1>1, <1>9 DEF Deliver, readVars
<1> QED BY <1>1, <1>2, <1>3, <1>4, <1>5, <1>6, <1>7, <1>8, <1>9 DEF Next, Serve

\* A message read is behind no closing one of its request.
LEMMA CloseRead ==
    ASSUME WireType, wire # <<>>, wire' = Tail(wire), NEW r, Closing(r),
           plug'[r] = plug[r], mode'[r] = mode[r],
           reply'[r] = reply[r] \/ (Head(wire).req = r /\ Head(wire).kind = reply'[r]),
           EndsIn(r)' => EndsIn(r) \/ Is(1, r, "end"),
           reply'[r] = "result" \/ EndsIn(r)' => ~Held(r)'
    PROVE  Closing(r)'
<1>1. /\ 1 \in DOMAIN wire /\ wire[1] = Head(wire)
      /\ \A i \in DOMAIN wire' : i + 1 \in DOMAIN wire /\ wire'[i] = wire[i + 1] /\ i \in Nat \ {0}
      /\ \A q, k : On(q, k)' => On(q, k)
  BY ReadOn
<1>2. \A i, j \in DOMAIN wire' : i < j /\ wire'[j].req = r =>
          ~Is(i, r, "result")' /\ (Is(i, r, "end")' => wire'[j].kind = "reply")
  <2> SUFFICES ASSUME NEW i \in DOMAIN wire', NEW j \in DOMAIN wire', i < j, wire'[j].req = r
               PROVE  ~Is(i, r, "result")' /\ (Is(i, r, "end")' => wire'[j].kind = "reply")
    OBVIOUS
  <2>1. i + 1 \in DOMAIN wire /\ j + 1 \in DOMAIN wire /\ i + 1 < j + 1
    BY <1>1
  <2> QED BY <1>1, <2>1 DEF Closing, Is
<1>3. reply'[r] = "result" => (\A i \in DOMAIN wire' : wire'[i].req # r) /\ plug[r] = "done" /\ mode[r] # "stream"
  <2>1. CASE reply[r] = "result"
    BY <1>1, <2>1 DEF Closing
  <2>2. CASE Is(1, r, "result")
    <3>1. \A i \in DOMAIN wire' : wire[i + 1].req # r
      <4> SUFFICES ASSUME NEW i \in DOMAIN wire', wire[i + 1].req = r PROVE FALSE
        OBVIOUS
      <4>1. 1 < i + 1 /\ i + 1 \in DOMAIN wire
        BY <1>1
      <4> QED BY <1>1, <2>2, <4>1 DEF Closing
    <3>2. On(r, "result")
      BY <1>1, <2>2 DEF On
    <3> QED BY <1>1, <3>1, <3>2 DEF Closing
  <2> QED BY <1>1, <2>1, <2>2 DEF Is
<1>4. EndsIn(r)' => (\A i \in DOMAIN wire' : wire'[i].req = r => wire'[i].kind = "reply") /\ plug[r] = "ended"
  <2>1. CASE EndsIn(r)
    BY <1>1, <2>1 DEF Closing
  <2>2. CASE Is(1, r, "end")
    <3>1. \A i \in DOMAIN wire' : wire[i + 1].req = r => wire[i + 1].kind = "reply"
      <4> SUFFICES ASSUME NEW i \in DOMAIN wire', wire[i + 1].req = r PROVE wire[i + 1].kind = "reply"
        OBVIOUS
      <4>1. 1 < i + 1 /\ i + 1 \in DOMAIN wire
        BY <1>1
      <4> QED BY <1>1, <2>2, <4>1 DEF Closing
    <3>2. On(r, "end")
      BY <1>1, <2>2 DEF On
    <3> QED BY <1>1, <3>1, <3>2 DEF Closing
  <2> QED BY <2>1, <2>2
<1> QED BY <1>1, <1>2, <1>3, <1>4 DEF Closing

\* One more event in the channel of a stream.
LEMMA Appended ==
    ASSUME WireType, NEW h \in Message, h.kind \in Event,
           chan' = [chan EXCEPT ![h.req] = Append(chan[h.req], h.kind)], NEW q \in Request
    PROVE  EndsIn(q)' <=> EndsIn(q) \/ (h.req = q /\ h.kind = "end")
<1>1. h.req \in Request
  BY DEF Message
<1>2. CASE q # h.req
  BY <1>2 DEF EndsIn, WireType
<1>3. CASE q = h.req
  <2> DEFINE c == chan[q]
             d == Append(c, h.kind)
  <2>1. c \in Seq(Event) /\ chan'[q] = d
    BY <1>1, <1>3 DEF WireType
  <2>2. /\ Len(d) = Len(c) + 1 /\ Len(c) \in Nat
        /\ DOMAIN c = 1 .. Len(c) /\ DOMAIN d = 1 .. Len(d)
        /\ \A i \in 1 .. Len(c) : d[i] = c[i]
        /\ d[Len(c) + 1] = h.kind
    BY <2>1, AppendProperties, LenProperties
  <2> HIDE DEF d
  <2>3. (\E i \in DOMAIN d : d[i] = "end") <=> (\E i \in DOMAIN c : c[i] = "end") \/ h.kind = "end"
    BY <2>2
  <2> QED BY <1>3, <2>1, <2>3 DEF EndsIn
<1> QED BY <1>2, <1>3

\* What the plugin says next keeps the order.
LEMMA CloseSay ==
    ASSUME TypeInv, NEW r \in Request, NEW kind \in Audits \cup Answer \cup Event, NEW next,
           Say(r, kind, next), Move(r, kind, next), Outside, NEW q \in Request, Closing(q)
    PROVE  Closing(q)'
<1>1. /\ \A i \in DOMAIN wire' : \/ i \in DOMAIN wire /\ wire'[i] = wire[i]
                                 \/ wire'[i].req = r /\ wire'[i].kind = kind /\ i = Len(wire) + 1
      /\ \A i \in DOMAIN wire : i \in DOMAIN wire' /\ wire'[i] = wire[i] /\ i <= Len(wire)
      /\ \A p, k : On(p, k)' <=> On(p, k) \/ (p = r /\ k = kind)
  BY SaidOn DEF TypeInv
<1>2. UNCHANGED <<mode, reply, chan, reader, cur, slot, left>>
  BY DEF Outside, reqVars, readVars, inVars, handVars
<1>3. (EndsIn(q)' <=> EndsIn(q)) /\ (Held(q)' <=> Held(q))
  BY <1>2 DEF EndsIn, Held, InHand, Slotted
<1>4. plug'[q] = (IF q = r THEN next ELSE plug[q])
  BY DEF Say, TypeInv, HandType
<1>5. wire \in Seq(Message) /\ DOMAIN wire = 1 .. Len(wire) /\ Len(wire) \in Nat
  BY LenProperties DEF TypeInv, WireType
<1>6. CASE q # r
  <2>1. \A i, j \in DOMAIN wire' : i < j /\ wire'[j].req = q =>
            ~Is(i, q, "result")' /\ (Is(i, q, "end")' => wire'[j].kind = "reply")
    BY <1>1, <1>6 DEF Closing, Is
  <2>2. reply[q] = "result" => \A i \in DOMAIN wire' : wire'[i].req # q
    BY <1>1, <1>6 DEF Closing
  <2>3. EndsIn(q) => \A i \in DOMAIN wire' : wire'[i].req = q => wire'[i].kind = "reply"
    BY <1>1, <1>6 DEF Closing
  <2> QED BY <1>1, <1>2, <1>3, <1>4, <1>6, <2>1, <2>2, <2>3 DEF Closing
<1>7. CASE q = r
  <2>1. ~On(r, "result") /\ reply[r] # "result"
    BY <1>7 DEF Closing, Move
  <2>2. On(r, "end") \/ EndsIn(r) => kind = "reply" /\ next = "ended"
    BY <1>7 DEF Closing, Move
  <2>3. \A i, j \in DOMAIN wire' : i < j /\ wire'[j].req = r =>
            ~Is(i, r, "result")' /\ (Is(i, r, "end")' => wire'[j].kind = "reply")
    <3> SUFFICES ASSUME NEW i \in DOMAIN wire', NEW j \in DOMAIN wire', i < j, wire'[j].req = r
                 PROVE  ~Is(i, r, "result")' /\ (Is(i, r, "end")' => wire'[j].kind = "reply")
      OBVIOUS
    <3>1. i \in DOMAIN wire /\ wire'[i] = wire[i]
      BY <1>1, <1>5
    <3>2. ~Is(i, r, "result")'
      BY <2>1, <3>1 DEF On, Is
    <3>3. CASE j \in DOMAIN wire /\ wire'[j] = wire[j]
      BY <1>7, <3>1, <3>2, <3>3 DEF Closing, Is
    <3>4. CASE wire'[j].kind = kind
      BY <2>2, <3>1, <3>2, <3>4 DEF On, Is
    <3> QED BY <1>1, <3>3, <3>4
  <2>4. EndsIn(r) => \A i \in DOMAIN wire' : wire'[i].req = r => wire'[i].kind = "reply"
    BY <1>1, <1>7, <2>2 DEF Closing
  <2>5. next = "answering" => mode[r] # "stream"
    BY DEF Move
  <2>6. On(r, "result")' => next = "done" /\ mode[r] # "stream"
    BY <1>1, <1>7, <2>1 DEF Closing, Move
  <2>7. On(r, "end")' \/ EndsIn(r) => next = "ended"
    BY <1>1, <2>2 DEF Move
  <2>8. reply[r] = "result" \/ EndsIn(r) => ~Held(r)
    BY <1>7 DEF Closing
  <2> QED BY <1>2, <1>3, <1>4, <1>7, <2>1, <2>3, <2>4, <2>5, <2>6, <2>7, <2>8 DEF Closing
<1> QED BY <1>6, <1>7

\* Every step keeps what was closed closed.
LEMMA CloseStep ==
    ASSUME TypeInv, ReaderInv, OwnInv, CloseInv, Next
    PROVE  CloseInv'
<1> SUFFICES ASSUME NEW q \in Request PROVE Closing(q)'
  BY DEF CloseInv
<1>0. Closing(q) /\ Reader \in Actor
  BY DEF CloseInv, Actor
<1>1. ASSUME NEW r \in Request, Handler(r)
      PROVE  Closing(q)'
  <2>1. UNCHANGED <<wire, reply>> /\ (Held(q)' => Held(q)) /\ (EndsIn(q)' <=> EndsIn(q))
    BY <1>1, HandlerFrame, HandlerEnds DEF Held, InHand, Slotted
  <2>2. CASE plug'[q] = plug[q] /\ mode'[q] = mode[q]
    BY <1>0, <2>1, <2>2, CloseSame
  <2>3. CASE q = r /\ pc[r] = "idle" /\ plug'[r] = "asked"
    <3>1. plug[r] = "none"
      BY <2>3 DEF OwnInv
    <3> QED BY <1>0, <2>1, <2>3, <3>1 DEF Closing, On, Is
  <2> QED BY <1>1, <2>2, <2>3, HandlerAsks, HandlerOthers
<1>2. ASSUME NEW r \in Request, Plugin(r)
      PROVE  Closing(q)'
  BY <1>0, <1>2, PluginMoves, CloseSay
<1>3. ASSUME UNCHANGED <<wire, reply, chan, plug, mode>>, Held(q)' => Held(q)
      PROVE  Closing(q)'
  BY <1>0, <1>3, CloseSame DEF EndsIn
<1>4. ASSUME NEW r \in Request, ClientLeaves(r)
      PROVE  UNCHANGED <<wire, reply, chan, plug, mode, reader, cur, slot>>
  BY <1>4 DEF ClientLeaves, readVars, plugVars, inVars, reqVars
<1>5. ASSUME NEW a \in Actor, InsertEvent(a)
      PROVE  UNCHANGED <<wire, reply, chan, plug, mode>> /\ ~FetchHandler
  <2>1. UNCHANGED <<wire, reply, chan, plug, mode>>
    BY <1>5 DEF InsertEvent, plugVars, inVars, reqVars
  <2>2. FetchHandler => wire # <<>> /\ wire' = Tail(wire)
    BY DEF FetchHandler
  <2>3. wire # <<>> => Len(Tail(wire)) # Len(wire)
    BY HeadTailProperties, LenProperties, EmptySeq DEF TypeInv, WireType
  <2> QED BY <2>1, <2>2, <2>3
<1>6. CASE FetchHandler
  <2> DEFINE h == Head(wire)
  <2>1. wire # <<>> /\ wire' = Tail(wire) /\ h.kind \in Audits /\ UNCHANGED <<reply, chan, plug, mode>>
    BY <1>6 DEF FetchHandler, inVars, reqVars
  <2>2. Held(q)' => Held(q) \/ q = h.req
    BY <1>6, HeldStep
  <2>3. 1 \in DOMAIN wire /\ wire[1] = h
    BY <2>1, ReadOn DEF TypeInv
  <2>4. q = h.req => reply[q] # "result" /\ ~EndsIn(q)
    BY <1>0, <2>1, <2>3 DEF Closing, Audits
  <2>5. EndsIn(q)' <=> EndsIn(q)
    BY <2>1 DEF EndsIn
  <2>6. reply'[q] = "result" \/ EndsIn(q)' => ~Held(q)'
    BY <1>0, <2>1, <2>2, <2>4, <2>5 DEF Closing
  <2> QED BY <1>0, <2>1, <2>5, <2>6, CloseRead DEF TypeInv
<1>7. CASE Deliver
  <2> DEFINE h == Head(wire)
  <2>1. wire # <<>> /\ wire' = Tail(wire) /\ reader = "read" /\ UNCHANGED <<plug, mode, reader, cur, slot>>
    BY <1>7 DEF Deliver, reqVars, readVars
  <2>2. ~Held(q)'
    BY <2>1 DEF ReaderInv, Held, InHand, Slotted
  <2>3. h \in Message /\ wire[1] = h
    BY <2>1, ReadOn DEF TypeInv
  <2>4. CASE h.kind \in Answer
    <3>1. reply' = [reply EXCEPT ![h.req] = h.kind] /\ UNCHANGED chan
      BY <1>7, <2>4 DEF Deliver
    <3>2. reply'[q] = reply[q] \/ (h.req = q /\ h.kind = reply'[q])
      BY <3>1 DEF TypeInv, WireType
    <3>3. EndsIn(q)' => EndsIn(q)
      BY <3>1 DEF EndsIn
    <3> QED BY <1>0, <2>1, <2>2, <3>2, <3>3, CloseRead DEF TypeInv
  <2>5. CASE h.kind \notin Answer
    <3>1. chan' = [chan EXCEPT ![h.req] = Append(chan[h.req], h.kind)] /\ UNCHANGED reply
      BY <1>7, <2>5 DEF Deliver
    <3>2. h.kind \in Event
      BY <1>7, <2>3, <2>5 DEF Deliver, Message
    <3>3. EndsIn(q)' => EndsIn(q) \/ Is(1, q, "end")
      BY <2>3, <3>1, <3>2, Appended DEF TypeInv, Is
    <3> QED BY <1>0, <2>1, <2>2, <3>1, <3>3, CloseRead DEF TypeInv
  <2> QED BY <2>4, <2>5
<1>8. CASE AuditPayload \/ AuditEvent \/ AuditDone
  <2>1. UNCHANGED <<wire, reply, chan, plug, mode>>
    BY <1>8 DEF AuditPayload, AuditEvent, AuditDone, plugVars, inVars, reqVars
  <2>2. ~FetchHandler
    <3>1. FetchHandler => wire # <<>> /\ wire' = Tail(wire)
      BY DEF FetchHandler
    <3>2. wire # <<>> => Len(Tail(wire)) # Len(wire)
      BY HeadTailProperties, LenProperties, EmptySeq DEF TypeInv, WireType
    <3> QED BY <2>1, <3>1, <3>2
  <2> QED BY <1>3, <2>1, <2>2, HeldStep
<1>9. CASE \E r \in Request : ClientLeaves(r)
  BY <1>3, <1>4, <1>9 DEF Held, InHand, Slotted
<1>10. CASE \E a \in Actor : InsertEvent(a)
  BY <1>3, <1>5, <1>10, HeldStep
<1> QED BY <1>1, <1>2, <1>6, <1>7, <1>8, <1>9, <1>10 DEF Next, Serve

-----------------------------------------------------------------------------
(* While the handler is there no audit is lost on the way to the store.    *)

\* The result, or the end, has been said.
Told(r) == On(r, "result") \/ reply[r] = "result"
Over(r) == On(r, "end") \/ EndsIn(r)

\* An audit the plugin has said, as its stage and its answers show.
Due(r, type) ==
    \/ type = "request"  /\ (plug[r] \in Sent \/ Told(r))
    \/ type = "response" /\ (plug[r] \in Heard \/ Told(r))
    \/ type = "finished" /\ (plug[r] = "finished" \/ (Over(r) /\ ~left[r]))

\* An audit that is somewhere between the connection and the store.
Carried(r, type) == On(r, type) \/ InHand(r, type) \/ Slotted(r, type) \/ Recorded(r, type)

\* While r's handler is registered, what was said is carried.
Keeping(r) ==
    level # "off" /\ pc[r] \notin Outer =>
        \A type \in Audits : Due(r, type) => Carried(r, type)

CarryInv == \A r \in Request : Keeping(r)

\* A part whose audit has been numbered is in the session's payload.
PartInv ==
    \A r \in Request : \A part \in Parts :
        (reader = "event" /\ InHand(r, part)) \/ Slotted(r, part) \/ Recorded(r, part) => part \in payload[r]

\* At first nothing is due.
LEMMA CarryInit == Init => CarryInv /\ PartInv
<1> SUFFICES ASSUME Init, NEW r \in Request PROVE Keeping(r) /\ \A type : ~(reader = "event") /\ ~Slotted(r, type) /\ ~Recorded(r, type)
  BY DEF CarryInv, PartInv
<1>1. pc[r] = "idle" /\ reader = "read" /\ events = {} /\ lost = {}
  BY DEF Init
<1>2. slot[Reader] = {}
  BY DEF Init, Actor
<1> QED BY <1>1, <1>2 DEF Keeping, Outer, Slotted, Recorded

\* Events stay where they are.
LEMMA RecordedStays ==
    ASSUME TypeInv, Next
    PROVE  events \subseteq events' /\ lost \subseteq lost'
<1>1. ASSUME NEW r \in Request, Handler(r) \/ ClientLeaves(r) \/ Plugin(r)
      PROVE  events \subseteq events' /\ lost \subseteq lost'
  BY <1>1, HandlerFrame, PluginMoves DEF Outside, ClientLeaves, storeVars
<1>2. ASSUME NEW a \in Actor, InsertEvent(a)
      PROVE  events \subseteq events' /\ lost \subseteq lost'
  BY <1>2 DEF InsertEvent
<1>3. CASE Serve
  BY <1>3 DEF Serve, FetchHandler, AuditPayload, AuditEvent, AuditDone, Deliver, storeVars
<1> QED BY <1>1, <1>2, <1>3 DEF Next

\* Nothing new is due and nothing carried is lost.
LEMMA CarrySame ==
    ASSUME NEW r, Keeping(r), level' = level, pc'[r] \notin Outer => pc[r] \notin Outer,
           \A type \in Audits : Due(r, type)' => Due(r, type),
           level # "off" /\ pc[r] \notin Outer => \A type \in Audits : Carried(r, type) => Carried(r, type)'
    PROVE  Keeping(r)'
  BY DEF Keeping

\* What the plugin says is due no sooner than it is said.
LEMMA CarrySay ==
    ASSUME TypeInv, NEW r \in Request, NEW kind \in Audits \cup Answer \cup Event, NEW next,
           Say(r, kind, next), Move(r, kind, next), Outside, NEW q \in Request, Keeping(q)
    PROVE  Keeping(q)'
<1>1. \A p, k : On(p, k)' <=> On(p, k) \/ (p = r /\ k = kind)
  BY SaidOn DEF TypeInv
<1>2. UNCHANGED <<level, pc, left, reply, chan, reader, cur, slot, events, lost>>
  BY DEF Outside, reqVars, handVars, readVars, inVars, storeVars
<1>3. plug'[q] = (IF q = r THEN next ELSE plug[q])
  BY DEF Say, TypeInv, HandType
<1>4. EndsIn(q)' <=> EndsIn(q)
  BY <1>2 DEF EndsIn
<1>5. \A type : Carried(q, type) => Carried(q, type)'
  BY <1>1, <1>2 DEF Carried, InHand, Slotted, Recorded
<1>6. \A type \in Audits : Due(q, type)' => Due(q, type) \/ On(q, type)'
  <2>1. CASE q # r
    BY <1>1, <1>2, <1>3, <1>4, <2>1 DEF Due, Told, Over
  <2>2. CASE q = r
    <3>1. next \in Sent => plug[r] \in Sent \/ kind = "request"
      BY DEF Move
    <3>2. next \in Heard => plug[r] \in Heard \/ kind = "response"
      BY DEF Move
    <3>3. next = "finished" => plug[r] = "finished" \/ kind = "finished"
      BY DEF Move
    <3>4. Told(q)' => Told(q) \/ (plug[r] \in Sent /\ plug[r] \in Heard)
      BY <1>1, <1>2, <2>2 DEF Told, Move, Sent, Heard
    <3>5. Over(q)' => Over(q) \/ left[r] \/ plug[r] = "finished"
      BY <1>1, <1>4, <2>2 DEF Over, Move
    <3>6. On(q, kind)'
      BY <1>1, <2>2
    <3> QED BY <1>2, <1>3, <2>2, <3>1, <3>2, <3>3, <3>4, <3>5, <3>6 DEF Due
  <2> QED BY <2>1, <2>2
<1>7. \A type : On(q, type)' => Carried(q, type)'
  BY DEF Carried
<1> QED BY <1>2, <1>5, <1>6, <1>7 DEF Keeping

\* What is due stays due on no step of others.
LEMMA CarryStep ==
    ASSUME TypeInv, ReaderInv, OwnInv, CloseInv, CarryInv, Next
    PROVE  CarryInv'
<1> SUFFICES ASSUME NEW q \in Request PROVE Keeping(q)'
  BY DEF CarryInv
<1>0. Keeping(q) /\ Closing(q) /\ Reader \in Actor
  BY DEF CarryInv, CloseInv, Actor
<1>a. events \subseteq events' /\ lost \subseteq lost'
  BY RecordedStays
<1>b. \A type : Recorded(q, type) => Recorded(q, type)'
  BY <1>a DEF Recorded
<1>1. ASSUME NEW r \in Request, Handler(r)
      PROVE  Keeping(q)'
  <2>1. UNCHANGED <<level, left, reader, cur, wire, reply>> /\ slot'[Reader] = slot[Reader] /\ (EndsIn(q)' <=> EndsIn(q))
    BY <1>1, HandlerFrame, HandlerEnds
  <2>2. \A type : Carried(q, type) => Carried(q, type)'
    BY <1>b, <2>1 DEF Carried, On, Is, InHand, Slotted
  <2>3. CASE plug'[q] = plug[q] /\ (pc'[q] \notin Outer => pc[q] \notin Outer)
    <3>1. \A type \in Audits : Due(q, type)' => Due(q, type)
      BY <2>1, <2>3 DEF Due, Told, Over, On, Is
    <3> QED BY <1>0, <2>1, <2>2, <2>3, <3>1, CarrySame
  <2>4. CASE q = r /\ pc[r] = "idle"
    <3>1. plug[r] = "none" /\ plug'[r] \in {"none", "asked"}
      BY <1>1, <2>4, HandlerAsks DEF OwnInv
    <3>2. ~Told(q) /\ ~Over(q)
      BY <1>0, <2>4, <3>1 DEF Closing, Told, Over
    <3>3. \A type : ~Due(q, type)'
      BY <2>1, <2>4, <3>1, <3>2 DEF Due, Told, Over, On, Is, Sent, Heard
    <3> QED BY <3>3 DEF Keeping
  <2>5. q # r => plug'[q] = plug[q] /\ pc'[q] = pc[q]
    BY <1>1, HandlerOthers
  <2>6. pc[r] # "returned" /\ (pc[r] = "idle" \/ plug' = plug)
    BY <1>1, HandlerFrame, HandlerAsks
  <2> QED BY <2>3, <2>4, <2>5, <2>6 DEF Outer
<1>2. ASSUME NEW r \in Request, Plugin(r)
      PROVE  Keeping(q)'
  BY <1>0, <1>2, PluginMoves, CarrySay
<1>3. ASSUME UNCHANGED <<level, pc, plug, wire, reply, chan>>, left'[q] = left[q] \/ left'[q] = TRUE,
             level # "off" => \A type \in Audits : InHand(q, type) \/ Slotted(q, type) => Carried(q, type)'
      PROVE  Keeping(q)'
  <2>1. \A type \in Audits : Due(q, type)' => Due(q, type)
    BY <1>3 DEF Due, Told, Over, On, Is, EndsIn
  <2>2. level # "off" => \A type \in Audits : Carried(q, type) => Carried(q, type)'
    BY <1>3, <1>b DEF Carried, On, Is
  <2> QED BY <1>0, <1>3, <2>1, <2>2, CarrySame
<1>4. ASSUME NEW r \in Request, ClientLeaves(r)
      PROVE  Keeping(q)'
  <2>1. UNCHANGED <<level, pc, plug, wire, reply, chan, reader, cur, slot>>
    BY <1>4 DEF ClientLeaves, reqVars, readVars, plugVars, inVars
  <2>2. left'[q] = left[q] \/ left'[q] = TRUE
    BY <1>4 DEF ClientLeaves, TypeInv, FlagType
  <2> QED BY <1>3, <2>1, <2>2 DEF Carried, InHand, Slotted
<1>5. ASSUME NEW a \in Actor, InsertEvent(a)
      PROVE  Keeping(q)'
  <2>1. UNCHANGED <<level, pc, plug, wire, reply, chan, left, reader, cur>> /\ slot' = [slot EXCEPT ![a] = {}]
    BY <1>5 DEF InsertEvent, reqVars, handVars, readVars, plugVars, inVars
  <2>2. PICK e \in slot[a] : e \in events' \cup lost'
    BY <1>5 DEF InsertEvent
  <2>3. \A type : Slotted(q, type) => Slotted(q, type)' \/ Recorded(q, type)'
    <3>1. CASE a # Reader
      BY <2>1, <3>1 DEF Slotted, TypeInv, EventType
    <3>2. CASE a = Reader
      <4>1. \A f \in slot[Reader] : f.req = e.req /\ f.type = e.type
        <5> SUFFICES ASSUME NEW f \in slot[Reader] PROVE f.req = e.req /\ f.type = e.type
          OBVIOUS
        <5>1. [req |-> f.req, kind |-> f.type] \in cur /\ [req |-> e.req, kind |-> e.type] \in cur /\ reader # "read"
          BY <2>2, <3>2 DEF ReaderInv
        <5>2. [req |-> f.req, kind |-> f.type] = [req |-> e.req, kind |-> e.type]
          BY <5>1 DEF ReaderInv
        <5> QED BY <5>2
      <4> QED BY <2>2, <4>1 DEF Slotted, Recorded
    <3> QED BY <3>1, <3>2
  <2> QED BY <1>3, <2>1, <2>3 DEF Carried, InHand
<1>6. CASE FetchHandler
  <2> DEFINE h == Head(wire)
  <2>1. wire # <<>> /\ wire' = Tail(wire) /\ reader = "read" /\ UNCHANGED <<level, pc, left, plug, reply, chan, slot>>
    BY <1>6 DEF FetchHandler, inVars, reqVars, handVars
  <2>2. h.req \in onTrace => cur' = {h} /\ reader' = "payload"
    BY <1>6 DEF FetchHandler
  <2>3. /\ h \in Message
        /\ \A p, k : On(p, k)' => On(p, k)
        /\ \A p, k : On(p, k) => On(p, k)' \/ (h.req = p /\ h.kind = k)
    BY <2>1, ReadOn DEF TypeInv
  <2>4. \A type \in Audits : Due(q, type)' => Due(q, type)
    BY <2>1, <2>3 DEF Due, Told, Over, EndsIn
  <2>5. h = [req |-> h.req, kind |-> h.kind]
    BY <2>3 DEF Message
  <2>6. pc[q] \notin Outer => \A type \in Audits : Carried(q, type) => Carried(q, type)'
    <3> SUFFICES ASSUME pc[q] \notin Outer, NEW type \in Audits, Carried(q, type) PROVE Carried(q, type)'
      OBVIOUS
    <3>1. q \in onTrace
      BY DEF OwnInv
    <3>2. CASE On(q, type)
      <4>1. CASE On(q, type)'
        BY <4>1 DEF Carried
      <4>2. CASE h.req = q /\ h.kind = type
        BY <2>2, <2>5, <3>1, <4>2 DEF Carried, InHand
      <4> QED BY <2>3, <3>2, <4>1, <4>2
    <3>3. CASE InHand(q, type)
      BY <2>1, <3>3 DEF InHand
    <3>4. CASE Slotted(q, type)
      BY <2>1, <3>4 DEF Carried, Slotted
    <3>5. CASE Recorded(q, type)
      BY <1>b, <3>5 DEF Carried
    <3> QED BY <3>2, <3>3, <3>4, <3>5 DEF Carried
  <2> QED BY <1>0, <2>1, <2>4, <2>6, CarrySame
<1>7. CASE AuditPayload
  <2>1. UNCHANGED <<level, pc, plug, wire, reply, chan, left, cur, slot>> /\ reader = "payload" /\ reader' = "event"
    BY <1>7 DEF AuditPayload, reqVars, handVars, plugVars, inVars
  <2> QED BY <1>3, <2>1 DEF Carried, InHand, Slotted
<1>8. CASE AuditEvent
  <2>1. UNCHANGED <<level, pc, plug, wire, reply, chan, left, cur>> /\ reader = "event"
    BY <1>8 DEF AuditEvent, reqVars, handVars, plugVars, inVars
  <2>2. PICK m \in cur : TakeSeq(Reader, m.req, m.kind)
    BY <1>8 DEF AuditEvent
  <2>3. slot[Reader] = {} /\ cur = {m}
    BY <2>1, <2>2 DEF ReaderInv
  <2>4. level # "off" => slot'[Reader] = {[req |-> m.req, seq |-> seq[m.req] + 1, type |-> m.kind]}
    <3>1. level # "off" => slot' = [slot EXCEPT ![Reader] = {[req |-> m.req, seq |-> seq[m.req] + 1, type |-> m.kind]}]
      BY <2>2 DEF TakeSeq
    <3>2. DOMAIN slot = Actor
      BY DEF TypeInv, EventType
    <3> QED BY <1>0, <3>1, <3>2
  <2>5. level # "off" => Slotted(m.req, m.kind)'
    <3> DEFINE new == [req |-> m.req, seq |-> seq[m.req] + 1, type |-> m.kind]
    <3>1. new.req = m.req /\ new.type = m.kind
      OBVIOUS
    <3>2. level # "off" => new \in slot'[Reader]
      BY <2>4
    <3> HIDE DEF new
    <3> QED BY <3>1, <3>2 DEF Slotted
  <2>6. \A type : InHand(q, type) => m.req = q /\ m.kind = type
    BY <2>3 DEF InHand
  <2> QED BY <1>3, <2>1, <2>3, <2>5, <2>6 DEF Carried, Slotted
<1>9. CASE AuditDone
  <2>1. UNCHANGED <<level, pc, plug, wire, reply, chan, left, slot>> /\ reader = "insert"
    BY <1>9 DEF AuditDone, reqVars, handVars, plugVars, inVars
  <2> QED BY <1>3, <2>1 DEF Carried, InHand, Slotted
<1>10. CASE Deliver
  <2> DEFINE h == Head(wire)
  <2>1. wire # <<>> /\ wire' = Tail(wire) /\ h.kind \notin Audits /\ UNCHANGED <<level, pc, left, plug, reader, cur, slot>>
    BY <1>10 DEF Deliver, reqVars, handVars, readVars
  <2>2. /\ h \in Message /\ 1 \in DOMAIN wire /\ wire[1] = h
        /\ \A p, k : On(p, k)' => On(p, k)
        /\ \A p, k : On(p, k) => On(p, k)' \/ (h.req = p /\ h.kind = k)
    BY <2>1, ReadOn DEF TypeInv
  <2>3. \A type \in Audits : Carried(q, type) => Carried(q, type)'
    BY <1>b, <2>1, <2>2 DEF Carried, InHand, Slotted
  <2>4. (reply'[q] = "result" => Told(q)) /\ (EndsIn(q)' => Over(q))
    <3>1. CASE h.kind \in Answer
      <4>1. reply' = [reply EXCEPT ![h.req] = h.kind] /\ UNCHANGED chan
        BY <1>10, <3>1 DEF Deliver
      <4>2. reply'[q] = reply[q] \/ (h.req = q /\ h.kind = reply'[q])
        BY <4>1 DEF TypeInv, WireType
      <4> QED BY <2>2, <4>1, <4>2 DEF Told, Over, On, Is, EndsIn
    <3>2. CASE h.kind \notin Answer
      <4>1. chan' = [chan EXCEPT ![h.req] = Append(chan[h.req], h.kind)] /\ UNCHANGED reply
        BY <1>10, <3>2 DEF Deliver
      <4>2. h.kind \in Event
        BY <2>1, <2>2, <3>2 DEF Message
      <4>3. EndsIn(q)' => EndsIn(q) \/ (h.req = q /\ h.kind = "end")
        BY <2>2, <4>1, <4>2, Appended DEF TypeInv
      <4> QED BY <2>2, <4>1, <4>3 DEF Told, Over, On, Is
    <3> QED BY <3>1, <3>2
  <2>5. \A type \in Audits : Due(q, type)' => Due(q, type)
    BY <2>1, <2>2, <2>4 DEF Due, Told, Over
  <2> QED BY <1>0, <2>1, <2>3, <2>5, CarrySame
<1> QED BY <1>1, <1>2, <1>4, <1>5, <1>6, <1>7, <1>8, <1>9, <1>10 DEF Next, Serve

\* A part's audit goes into the payload before it is numbered.
LEMMA PartStep ==
    ASSUME TypeInv, ReaderInv, OwnInv, PartInv, Next
    PROVE  PartInv'
<1> Reader \in Actor /\ Request \subseteq Actor
  BY DEF Actor
<1>1. ASSUME UNCHANGED <<payload, reader, cur, lost>>, slot'[Reader] \in {slot[Reader], {}},
             \A e \in events' \ events : e.type \notin Parts
      PROVE  PartInv'
  BY <1>1 DEF PartInv, InHand, Slotted, Recorded
<1>2. ASSUME NEW r \in Request, Handler(r)
      PROVE  PartInv'
  BY <1>1, <1>2, HandlerFrame DEF Parts
<1>3. ASSUME NEW r \in Request, ClientLeaves(r) \/ Plugin(r)
      PROVE  PartInv'
  <2>1. UNCHANGED <<payload, reader, cur, lost, slot, events>>
    BY <1>3, PluginMoves DEF Outside, ClientLeaves, readVars, storeVars
  <2> QED BY <1>1, <2>1
<1>4. ASSUME NEW a \in Actor, InsertEvent(a)
      PROVE  PartInv'
  <2>1. UNCHANGED <<payload, reader, cur>> /\ slot' = [slot EXCEPT ![a] = {}]
    BY <1>4 DEF InsertEvent, readVars
  <2>2. PICK e \in slot[a] : events' \subseteq events \cup {e} /\ lost' \subseteq lost \cup {e}
    BY <1>4 DEF InsertEvent
  <2>3. \A r \in Request : \A part \in Parts : e.req = r /\ e.type = part => part \in payload[r]
    <3>1. CASE a = Reader
      BY <2>2, <3>1 DEF PartInv, Slotted
    <3>2. CASE a \in Request
      BY <2>2, <3>2 DEF OwnInv, Own, Parts
    <3> QED BY <3>1, <3>2 DEF Actor
  <2>4. slot'[Reader] \subseteq slot[Reader]
    BY <2>1 DEF TypeInv, EventType
  <2> QED BY <2>1, <2>2, <2>3, <2>4 DEF PartInv, InHand, Slotted, Recorded
<1>5. CASE FetchHandler
  <2>1. reader = "read" /\ reader' # "event" /\ UNCHANGED <<payload, slot, events, lost>>
    BY <1>5 DEF FetchHandler, storeVars, readVars
  <2> QED BY <2>1 DEF PartInv, Slotted, Recorded
<1>6. CASE AuditPayload
  <2>1. UNCHANGED <<cur, slot, events, lost>> /\ reader = "payload"
    BY <1>6 DEF AuditPayload, storeVars
  <2>2. PICK m \in cur : payload' = [payload EXCEPT ![m.req] = payload[m.req] \cup ({m.kind} \cap Parts)]
    BY <1>6 DEF AuditPayload
  <2>3. cur = {m} /\ m.req \in Request
    BY <2>1, <2>2 DEF ReaderInv, TypeInv, FileType
  <2>4. \A r \in Request : \A part \in Parts : [req |-> r, kind |-> part] \in cur => m.req = r /\ m.kind = part
    BY <2>3
  <2>5. \A r \in Request : payload[r] \subseteq payload'[r]
    BY <2>2 DEF TypeInv, FileType
  <2>6. \A part \in Parts : m.kind = part => part \in payload'[m.req]
    BY <2>2, <2>3 DEF TypeInv, FileType
  <2> QED BY <2>1, <2>4, <2>5, <2>6 DEF PartInv, InHand, Slotted, Recorded
<1>7. CASE AuditEvent
  <2>1. UNCHANGED <<payload, cur, events, lost>> /\ reader = "event" /\ reader' = "insert"
    BY <1>7 DEF AuditEvent, storeVars
  <2>2. PICK m \in cur : TakeSeq(Reader, m.req, m.kind)
    BY <1>7 DEF AuditEvent
  <2>3. slot' = slot \/ slot' = [slot EXCEPT ![Reader] = {[req |-> m.req, seq |-> seq[m.req] + 1, type |-> m.kind]}]
    BY <2>2 DEF TakeSeq
  <2>4. \A e \in slot'[Reader] : e \in slot[Reader] \/ (e.req = m.req /\ e.type = m.kind)
    BY <2>3 DEF TypeInv, EventType
  <2>5. m.req \in Request /\ m = [req |-> m.req, kind |-> m.kind]
    BY CurAudit
  <2>6. \A part \in Parts : m.kind = part => part \in payload[m.req]
    BY <2>1, <2>2, <2>5 DEF PartInv, InHand
  <2> QED BY <2>1, <2>4, <2>6 DEF PartInv, Slotted, Recorded
<1>8. CASE AuditDone
  <2>1. reader' = "read" /\ UNCHANGED <<payload, slot, events, lost>>
    BY <1>8 DEF AuditDone, storeVars
  <2> QED BY <2>1 DEF PartInv, Slotted, Recorded
<1>9. CASE Deliver
  <2>1. UNCHANGED <<payload, reader, cur, slot, events, lost>>
    BY <1>9 DEF Deliver, readVars, storeVars
  <2> QED BY <1>1, <2>1
<1> QED BY <1>2, <1>3, <1>4, <1>5, <1>6, <1>7, <1>8, <1>9 DEF Next, Serve

-----------------------------------------------------------------------------
(* What a handler that takes its request for a success may rely on.        *)

\* The handler has met the plugin's last word.
Served(r) == reply[r] = "result" \/ EndsIn(r)

\* A handler ends its loop without an error only at the stream's end; one that takes
\* its request for a success has all audits recorded, and its row and file say so.
Success(r) ==
    /\ pc[r] = "ended" => left[r] \/ outcome[r] = "error" \/ EndsIn(r)
    /\ level = "off" => row[r] # "ok"
    /\ row[r] = "ok" => outcome[r] = "ok" /\ pc[r] \in {"filing", "returning", "returned"}
    /\ outcome[r] = "ok" =>
        /\ pc[r] \in {"finishing", "filing", "returning", "returned"}
        /\ Served(r)
        /\ late[r] = 0
        /\ level # "off" =>
            /\ Recorded(r, "request") /\ Recorded(r, "response")
            /\ mode[r] = "stream" => Recorded(r, "finished")
    /\ row[r] = "ok" /\ pc[r] = "filing" => copy[r] = Parts
    /\ row[r] = "ok" /\ level = "full" /\ pc[r] \in {"returning", "returned"} => file[r] = Parts

OkInv == \A r \in Request : Success(r)

\* At first nothing has succeeded.
LEMMA OkInit == Init => OkInv
<1> SUFFICES ASSUME Init, NEW r \in Request PROVE Success(r)
  BY DEF OkInv
<1>1. pc[r] = "idle" /\ row[r] = "none" /\ outcome[r] = "none"
  BY DEF Init
<1> QED BY <1>1 DEF Success

\* The plugin's last word to a handler comes behind the audits, so these are
\* recorded when the handler hears it.
LEMMA ServedWhole ==
    ASSUME ReaderInv, CloseInv, CarryInv, NEW r \in Request, Served(r), level # "off", pc[r] \notin Outer
    PROVE  /\ Recorded(r, "request") /\ Recorded(r, "response")
           /\ EndsIn(r) /\ ~left[r] => Recorded(r, "finished")
<1>1. \A type \in Audits : ~On(r, type) /\ ~InHand(r, type) /\ ~Slotted(r, type)
  BY DEF CloseInv, Closing, Served, On, Is, Held, Audits
<1>2. \A type \in Audits : Due(r, type) => Recorded(r, type)
  BY <1>1 DEF CarryInv, Keeping, Carried
<1>3. Told(r) \/ plug[r] = "ended"
  BY DEF Served, Told, CloseInv, Closing
<1>4. Due(r, "request") /\ Due(r, "response") /\ (EndsIn(r) /\ ~left[r] => Due(r, "finished"))
  BY <1>3 DEF Due, Over, Heard, Sent
<1> QED BY <1>2, <1>4 DEF Audits

\* The handler's own steps.
LEMMA OkOwn ==
    ASSUME TypeInv, ReaderInv, OwnInv, LateInv, CloseInv, CarryInv, PartInv, OkInv,
           NEW r \in Request, Handler(r)
    PROVE  Success(r)'
<1> USE DEF TypeInv, HandType, FileType, Become
<1>0. Success(r) /\ Closing(r)
  BY DEF OkInv, CloseInv
<1>a. /\ UNCHANGED <<level, left, late, lost, reply>> /\ events \subseteq events'
      /\ EndsIn(r)' <=> EndsIn(r)
      /\ pc[r] # "returned"
  BY HandlerFrame, HandlerEnds
<1>b. \A type : Recorded(r, type) => Recorded(r, type)'
  BY <1>a DEF Recorded
<1>c. late[r] = 0
  BY <1>a DEF LateInv
<1>d. Served(r)' <=> Served(r)
  BY <1>a DEF Served
<1>1. CASE Begin(r)
  <2>1. pc[r] = "idle" /\ pc'[r] = "calling" /\ UNCHANGED outcome /\ (row'[r] = row[r] \/ row'[r] = "started")
    BY <1>1 DEF Begin, At
  <2>2. outcome[r] # "ok" /\ row[r] # "ok"
    BY <1>0, <2>1 DEF Success
  <2> QED BY <2>1, <2>2 DEF Success
<1>2. CASE CallFails(r) \/ TakeError(r)
  <2>1. /\ pc[r] \in {"calling", "opened", "ranging"} /\ pc'[r] = "finishing"
        /\ outcome'[r] = "error" /\ UNCHANGED row
    BY <1>2 DEF CallFails, TakeError, Ranging, At
  <2>2. row[r] # "ok"
    BY <1>0, <2>1 DEF Success
  <2> QED BY <2>1, <2>2 DEF Success
<1>3. CASE Completes(r)
  <2>1. pc[r] = "calling" /\ reply[r] = "result" /\ pc'[r] = "finishing" /\ outcome'[r] = "ok" /\ UNCHANGED <<row, mode>>
    BY <1>3 DEF Completes, At, reqVars
  <2>2. row[r] # "ok" /\ mode[r] # "stream" /\ Served(r)
    BY <1>0, <2>1 DEF Success, Closing, Served
  <2>3. level # "off" => Recorded(r, "request") /\ Recorded(r, "response")
    BY <2>1, <2>2, ServedWhole DEF Outer
  <2> QED BY <1>a, <1>b, <1>c, <1>d, <2>1, <2>2, <2>3 DEF Success
<1>4. CASE StreamOpens(r) \/ TakeData(r)
  <2>1. /\ pc[r] \in {"calling", "opened", "ranging"} /\ pc'[r] \in {"opened", "ranging"}
        /\ UNCHANGED <<row, outcome>>
    BY <1>4 DEF StreamOpens, TakeData, At
  <2>2. row[r] # "ok" /\ outcome[r] # "ok"
    BY <1>0, <2>1 DEF Success
  <2> QED BY <2>1, <2>2 DEF Success
<1>5. CASE RangeEnds(r)
  <2>1. /\ pc[r] \in {"opened", "ranging"} /\ pc'[r] = "ended" /\ UNCHANGED <<row, outcome>>
        /\ left[r] \/ (chan[r] # <<>> /\ Head(chan[r]) = "end")
    BY <1>5 DEF RangeEnds, Ranging, At
  <2>2. row[r] # "ok" /\ outcome[r] # "ok"
    BY <1>0, <2>1 DEF Success
  <2>3. chan[r] # <<>> /\ Head(chan[r]) = "end" => EndsIn(r)
    <3>1. chan[r] \in Seq(Event)
      BY DEF WireType
    <3>2. chan[r] # <<>> => 1 \in DOMAIN chan[r] /\ Head(chan[r]) = chan[r][1]
      BY <3>1, HeadTailProperties, LenProperties, EmptySeq
    <3> QED BY <3>2 DEF EndsIn
  <2> QED BY <1>a, <2>1, <2>2, <2>3 DEF Success
<1>6. CASE Conclude(r)
  <2>1. pc[r] = "ended" /\ UNCHANGED <<row, mode>>
    BY <1>6 DEF Conclude, At, reqVars
  <2>2. row[r] # "ok" /\ outcome[r] # "ok"
    BY <1>0, <2>1 DEF Success
  <2>3. \/ pc'[r] = "finishing" /\ outcome'[r] = "canceled"
        \/ pc'[r] = "returning" /\ outcome' = outcome
        \/ pc'[r] = "finishing" /\ outcome'[r] = "ok" /\ ~left[r] /\ outcome[r] # "error"
    BY <1>6 DEF Conclude
  <2>4. CASE pc'[r] = "finishing" /\ outcome'[r] = "ok" /\ ~left[r] /\ outcome[r] # "error"
    <3>1. EndsIn(r)
      BY <1>0, <2>1, <2>4 DEF Success
    <3>2. level # "off" => Recorded(r, "request") /\ Recorded(r, "response") /\ Recorded(r, "finished")
      BY <2>1, <2>4, <3>1, ServedWhole DEF Outer, Served
    <3> QED BY <1>a, <1>b, <1>c, <1>d, <2>1, <2>2, <2>4, <3>1, <3>2 DEF Success, Served
  <2>5. CASE \/ pc'[r] = "finishing" /\ outcome'[r] = "canceled"
             \/ pc'[r] = "returning" /\ outcome' = outcome
    BY <2>1, <2>2, <2>5 DEF Success
  <2> QED BY <2>3, <2>4, <2>5
<1>7. CASE FinishRow(r)
  <2>1. pc[r] = "finishing" /\ UNCHANGED <<mode, outcome>> /\ copy'[r] = payload[r]
    BY <1>7 DEF FinishRow, At, reqVars
  <2>2. row'[r] = (IF level = "off" THEN row[r] ELSE outcome[r])
    BY <1>7 DEF FinishRow
  <2>3. pc'[r] = (IF level = "full" THEN "filing" ELSE AfterFinish(r))
    BY <1>7 DEF FinishRow
  <2>4. row[r] # "ok"
    BY <1>0, <2>1 DEF Success
  <2>5. AfterFinish(r) \in {"ended", "returning"} /\ (AfterFinish(r) = "ended" => outcome[r] = "error")
    BY DEF AfterFinish
  <2>6. CASE outcome[r] # "ok"
    <3>1. row'[r] # "ok" /\ outcome'[r] # "ok" /\ (pc'[r] = "ended" => outcome'[r] = "error")
      BY <2>1, <2>2, <2>3, <2>4, <2>5, <2>6
    <3> QED BY <3>1 DEF Success
  <2>7. CASE outcome[r] = "ok"
    <3>1. level # "off" => payload[r] = Parts
      BY <1>0, <2>7 DEF Success, PartInv, Parts
    <3>2. pc'[r] \in {"filing", "returning"} /\ (level = "full" => pc'[r] = "filing")
      BY <2>3, <2>5, <2>7
    <3>3. /\ Served(r) /\ late[r] = 0
          /\ level # "off" =>
              /\ Recorded(r, "request") /\ Recorded(r, "response")
              /\ mode[r] = "stream" => Recorded(r, "finished")
      BY <1>0, <2>7 DEF Success
    <3>4. (level = "off" => row'[r] # "ok") /\ (row'[r] = "ok" => outcome'[r] = "ok")
      BY <2>1, <2>2, <2>4
    <3> QED BY <1>a, <1>b, <1>d, <2>1, <2>7, <3>1, <3>2, <3>3, <3>4 DEF Success
  <2> QED BY <2>6, <2>7
<1>8. CASE WriteFull(r)
  <2>1. pc[r] = "filing" /\ UNCHANGED <<mode, outcome, row, copy>> /\ file'[r] = copy[r] /\ pc'[r] = AfterFinish(r)
    BY <1>8 DEF WriteFull, At, reqVars
  <2>2. AfterFinish(r) \in {"ended", "returning"} /\ (AfterFinish(r) = "ended" => outcome[r] = "error")
    BY DEF AfterFinish
  <2>3. row[r] = "ok" => file'[r] = Parts
    BY <1>0, <2>1 DEF Success
  <2> QED BY <1>0, <1>a, <1>b, <1>d, <2>1, <2>2, <2>3 DEF Success
<1>9. CASE Return(r)
  <2>1. pc[r] = "returning" /\ UNCHANGED <<mode, outcome, row, copy, file>> /\ pc'[r] = "returned"
    BY <1>9 DEF Return, At, reqVars
  <2> QED BY <1>0, <1>a, <1>b, <1>d, <2>1 DEF Success
<1> QED BY <1>1, <1>2, <1>3, <1>4, <1>5, <1>6, <1>7, <1>8, <1>9 DEF Handler

\* Nobody else takes a success back.
LEMMA OkStep ==
    ASSUME TypeInv, ReaderInv, OwnInv, LateInv, CloseInv, CarryInv, PartInv, OkInv, Next
    PROVE  OkInv'
<1> SUFFICES ASSUME NEW q \in Request PROVE Success(q)'
  BY DEF OkInv
<1> USE DEF TypeInv
<1>0. Success(q) /\ Closing(q) /\ Reader \in Actor /\ q \in Actor
  BY DEF OkInv, CloseInv, Actor
<1>a. \A type : Recorded(q, type) => Recorded(q, type)'
  BY RecordedStays DEF Recorded
<1>1. ASSUME level' = level, pc'[q] = pc[q], outcome'[q] = outcome[q], row'[q] = row[q], copy'[q] = copy[q],
             file'[q] = file[q], mode'[q] = mode[q], left[q] => left'[q], EndsIn(q) => EndsIn(q)',
             reply[q] = "result" => reply'[q] = "result", outcome[q] = "ok" => late'[q] = late[q]
      PROVE  Success(q)'
  BY <1>0, <1>1, <1>a DEF Success, Served
<1>2. ASSUME NEW r \in Request, Handler(r)
      PROVE  Success(q)'
  <2>1. CASE q = r
    BY <1>2, <2>1, OkOwn
  <2>2. CASE q # r
    BY <1>1, <1>2, <2>2, HandlerOthers, HandlerFrame, HandlerEnds
  <2> QED BY <2>1, <2>2
<1>3. ASSUME NEW r \in Request, ClientLeaves(r) \/ Plugin(r)
      PROVE  Success(q)'
  <2>1. UNCHANGED <<level, pc, outcome, row, copy, file, mode, chan, reply, late>>
    BY <1>3, PluginMoves DEF Outside, ClientLeaves, reqVars, handVars, inVars, storeVars
  <2>2. left[q] => left'[q]
    BY <1>3, PluginMoves DEF Outside, ClientLeaves, handVars, FlagType
  <2> QED BY <1>1, <2>1, <2>2 DEF EndsIn
<1>4. ASSUME NEW a \in Actor, InsertEvent(a)
      PROVE  Success(q)'
  <2>1. UNCHANGED <<level, pc, left, outcome, row, copy, file, mode, chan, reply>>
    BY <1>4 DEF InsertEvent, reqVars, handVars, inVars
  <2>2. PICK e \in slot[a] : late' = [late EXCEPT ![e.req] = IF pc[e.req] = "returned" THEN late[e.req] + 1 ELSE late[e.req]]
    BY <1>4 DEF InsertEvent
  <2>3. outcome[q] = "ok" => late'[q] = late[q]
    <3>1. CASE e.req # q
      BY <2>2, <3>1 DEF EventType
    <3>2. CASE e.req = q /\ a = Reader
      <4>1. [req |-> e.req, kind |-> e.type] \in cur
        BY <2>2, <3>2 DEF ReaderInv
      <4>2. Held(q)
        BY <2>2, <3>2, <4>1, CurAudit DEF Held, Slotted
      <4> QED BY <1>0, <4>2 DEF Success, Served, Closing
    <3>3. CASE e.req = q /\ a \in Request
      <4>1. a = q /\ pc[q] # "returned"
        BY <2>2, <3>3 DEF OwnInv, Outer
      <4> QED BY <2>2, <3>3, <4>1 DEF EventType
    <3> QED BY <3>1, <3>2, <3>3 DEF Actor
  <2> QED BY <1>1, <2>1, <2>3 DEF EndsIn
<1>5. CASE FetchHandler \/ AuditPayload \/ AuditEvent \/ AuditDone
  <2>1. UNCHANGED <<level, pc, left, outcome, row, copy, file, mode, chan, reply, late>>
    BY <1>5 DEF FetchHandler, AuditPayload, AuditEvent, AuditDone, reqVars, handVars, inVars, storeVars
  <2> QED BY <1>1, <2>1 DEF EndsIn
<1>6. CASE Deliver
  <2> DEFINE h == Head(wire)
  <2>1. wire # <<>> /\ wire' = Tail(wire) /\ UNCHANGED <<level, pc, left, outcome, row, copy, file, mode, late>>
    BY <1>6 DEF Deliver, reqVars, handVars, storeVars
  <2>2. h \in Message /\ 1 \in DOMAIN wire /\ wire[1] = h /\ h.kind \notin Audits
    BY <1>6, <2>1, ReadOn DEF Deliver
  <2>3. CASE h.kind \in Answer
    <3>1. reply' = [reply EXCEPT ![h.req] = h.kind] /\ UNCHANGED chan
      BY <1>6, <2>3 DEF Deliver
    <3>2. reply[q] = "result" => h.req # q
      BY <1>0, <2>2 DEF Closing
    <3>3. reply[q] = "result" => reply'[q] = "result"
      BY <3>1, <3>2 DEF WireType
    <3> QED BY <1>1, <2>1, <3>1, <3>3 DEF EndsIn
  <2>4. CASE h.kind \notin Answer
    <3>1. chan' = [chan EXCEPT ![h.req] = Append(chan[h.req], h.kind)] /\ UNCHANGED reply
      BY <1>6, <2>4 DEF Deliver
    <3>2. h.kind \in Event
      BY <2>2, <2>4 DEF Message
    <3>3. EndsIn(q) => EndsIn(q)'
      BY <2>2, <3>1, <3>2, Appended
    <3> QED BY <1>1, <2>1, <3>1, <3>3
  <2> QED BY <2>3, <2>4
<1> QED BY <1>2, <1>3, <1>4, <1>5, <1>6 DEF Next, Serve

-----------------------------------------------------------------------------
(* All of them together.                                                   *)

\* All of it is inductive together.
TraceInv == TypeInv /\ ReaderInv /\ OwnInv /\ LateInv /\ CloseInv /\ CarryInv /\ PartInv /\ OkInv

\* It holds at first, ...
LEMMA TraceInit == Init => TraceInv
  BY TypeInit, HoldInit, CloseInit, CarryInit, OkInit DEF TraceInv

\* ... and every step keeps it.
LEMMA TraceStep == TraceInv /\ [Next]_vars => TraceInv'
<1> SUFFICES ASSUME TraceInv, [Next]_vars PROVE TraceInv'
  OBVIOUS
<1>1. TypeInv'
  BY TypeStep DEF TraceInv
<1>2. CASE Next
  BY <1>1, <1>2, ReaderStep, OwnStep, LateStep, CloseStep, CarryStep, PartStep, OkStep DEF TraceInv
<1>3. CASE UNCHANGED vars
  <2>1. ReaderInv' /\ OwnInv' /\ LateInv' /\ PartInv'
    BY <1>3 DEF TraceInv, vars, ReaderInv, OwnInv, LateInv, PartInv, Held, InHand, Slotted, Recorded
  <2>2. CloseInv'
    <3>1. UNCHANGED <<wire, reply, plug, mode, chan, reader, cur, slot>>
      BY <1>3 DEF vars
    <3>2. \A r \in Request : (EndsIn(r)' <=> EndsIn(r)) /\ (Held(r)' => Held(r))
      BY <3>1 DEF EndsIn, Held, InHand, Slotted
    <3> QED BY <3>1, <3>2, CloseSame DEF TraceInv, CloseInv
  <2>3. CarryInv'
    BY <1>3 DEF TraceInv, vars, CarryInv, Keeping, Due, Told, Over, Carried, On, Is, EndsIn, InHand, Slotted, Recorded
  <2>4. OkInv'
    BY <1>3 DEF TraceInv, vars, OkInv, Success, Served, EndsIn, Recorded
  <2> QED BY <1>1, <2>1, <2>2, <2>3, <2>4 DEF TraceInv
<1> QED BY <1>2, <1>3

\* When a request is stored as ok its trace is complete, for any number of
\* requests on one connection: onNotify runs on the goroutine that reads, so the
\* audits are in the store before the answer behind them reaches the handler.
THEOREM TracesComplete == Spec => []TraceComplete
<1>1. TraceInv => TraceComplete
  BY DEF TraceInv, OkInv, Success, TraceComplete
<1> QED BY <1>1, TraceInit, TraceStep, PTL DEF Spec

\* A handler that has returned is followed by one event at most, and one whose
\* request succeeded by none: Return takes the trace handler away, and the
\* reader had fetched it for one notification at most.
THEOREM LateAuditsFew == Spec => []LateAudits
<1>1. TraceInv => LateAudits
  BY DEF TraceInv, LateInv, OkInv, Success, LateAudits
<1> QED BY <1>1, TraceInit, TraceStep, PTL DEF Spec

-----------------------------------------------------------------------------
(* The numbers follow the order in which the plugin speaks.                *)

\* The events whose order matters.
Timed == Audits \cup {"prepared"}

\* An event of this type has been numbered.
Passed(r, type) == \E e \in Numbered : e.req = r /\ e.type = type

\* What is numbered, in the reader's hand and on the connection stands in the order
\* of the upstream, none of it ahead of the plugin; so do the numbers.
Ordered(r) ==
    /\ \A i, j \in DOMAIN wire :
          /\ i < j /\ wire[i].req = r /\ wire[j].req = r
          /\ wire[i].kind \in Audits /\ wire[j].kind \in Audits
          => Place(wire[i].kind) <= Place(wire[j].kind)
    /\ \A type \in Timed, kind \in Audits :
          Passed(r, type) /\ (InHand(r, kind) \/ On(r, kind)) => Place(type) <= Place(kind)
    /\ \A k, l \in Audits : InHand(r, k) /\ On(r, l) => Place(k) <= Place(l)
    /\ \A kind \in Audits : InHand(r, kind) \/ On(r, kind) => Place(kind) <= Reached(plug[r])
    /\ \A type \in Timed : Passed(r, type) => Place(type) <= Reached(plug[r])
    /\ \A e, f \in Numbered :
          e.req = r /\ f.req = r /\ e.type \in Timed /\ f.type \in Timed /\ Place(e.type) < Place(f.type)
          => e.seq < f.seq

OrderInv == \A r \in Request : Ordered(r)

\* The order is by numbers.
LEMMA PlaceNat == \A type \in Timed : Place(type) \in 0 .. 5
  BY Places DEF Timed, Audits

\* At first nothing is numbered.
LEMMA OrderInit == Init => OrderInv
<1> SUFFICES ASSUME Init, NEW r \in Request PROVE Ordered(r)
  BY DEF OrderInv
<1>1. Numbered = {} /\ cur = {} /\ DOMAIN wire = {}
  BY DEF Init, Numbered
<1> QED BY <1>1 DEF Ordered, Passed, InHand, On

\* Nothing is numbered, fetched or said.
LEMMA OrderSame ==
    ASSUME NEW r, Ordered(r), UNCHANGED wire, plug'[r] = plug[r],
           \A kind \in Audits : InHand(r, kind)' => InHand(r, kind),
           \A e \in Numbered' : e.req = r /\ e.type \in Timed => e \in Numbered
    PROVE  Ordered(r)'
<1>1. \A type \in Timed : Passed(r, type)' => Passed(r, type)
  BY DEF Passed
<1> QED BY <1>1 DEF Ordered, On, Is

\* The first message is taken, into the reader's hands or elsewhere.
LEMMA OrderRead ==
    ASSUME TypeInv, NEW r \in Request, Ordered(r), wire # <<>>, wire' = Tail(wire), plug'[r] = plug[r],
           UNCHANGED <<slot, events, lost>>,
           \A kind \in Audits : InHand(r, kind)' => InHand(r, kind) \/ Is(1, r, kind)
    PROVE  Ordered(r)'
<1>1. /\ 1 \in DOMAIN wire
      /\ \A i \in DOMAIN wire' : i + 1 \in DOMAIN wire /\ wire'[i] = wire[i + 1] /\ i \in Nat \ {0}
      /\ \A q, k : On(q, k)' => On(q, k)
  BY ReadOn DEF TypeInv
<1>2. \A type : Passed(r, type)' <=> Passed(r, type)
  BY DEF Passed, Numbered
<1>3. \A kind \in Audits : Is(1, r, kind) => On(r, kind)
  BY <1>1 DEF On
<1>4. \A i, j \in DOMAIN wire' :
          /\ i < j /\ wire'[i].req = r /\ wire'[j].req = r
          /\ wire'[i].kind \in Audits /\ wire'[j].kind \in Audits
          => Place(wire'[i].kind) <= Place(wire'[j].kind)
  <2> SUFFICES ASSUME NEW i \in DOMAIN wire', NEW j \in DOMAIN wire', i < j, wire'[i].req = r, wire'[j].req = r,
                      wire'[i].kind \in Audits, wire'[j].kind \in Audits
               PROVE  Place(wire'[i].kind) <= Place(wire'[j].kind)
    OBVIOUS
  <2>1. i + 1 \in DOMAIN wire /\ j + 1 \in DOMAIN wire /\ i + 1 < j + 1
    BY <1>1
  <2> QED BY <1>1, <2>1 DEF Ordered
<1>5. \A k, l \in Audits : Is(1, r, k) /\ On(r, l)' => Place(k) <= Place(l)
  <2> SUFFICES ASSUME NEW k \in Audits, NEW l \in Audits, Is(1, r, k), On(r, l)' PROVE Place(k) <= Place(l)
    OBVIOUS
  <2>1. PICK j \in DOMAIN wire' : wire'[j].req = r /\ wire'[j].kind = l
    BY DEF On, Is
  <2>2. j + 1 \in DOMAIN wire /\ 1 < j + 1 /\ wire[j + 1].req = r /\ wire[j + 1].kind = l
    BY <1>1, <2>1
  <2> QED BY <1>1, <2>2 DEF Ordered, Is
<1>6. \A k, l \in Audits : InHand(r, k)' /\ On(r, l)' => Place(k) <= Place(l)
  BY <1>1, <1>5 DEF Ordered
<1>7. \A kind \in Audits : InHand(r, kind)' \/ On(r, kind)' => InHand(r, kind) \/ On(r, kind)
  BY <1>1, <1>3
<1>8. Numbered' = Numbered
  BY DEF Numbered
<1> QED BY <1>2, <1>4, <1>6, <1>7, <1>8 DEF Ordered

\* What the plugin says is behind what it said.
LEMMA OrderSay ==
    ASSUME TypeInv, NEW r \in Request, NEW kind \in Audits \cup Answer \cup Event, NEW next,
           Say(r, kind, next), Move(r, kind, next), Outside, NEW q \in Request, Ordered(q)
    PROVE  Ordered(q)'
<1>1. /\ \A i \in DOMAIN wire' : \/ i \in DOMAIN wire /\ wire'[i] = wire[i]
                                 \/ wire'[i].req = r /\ wire'[i].kind = kind /\ i = Len(wire) + 1
      /\ \A i \in DOMAIN wire : i \in DOMAIN wire' /\ wire'[i] = wire[i] /\ i <= Len(wire)
      /\ \A p, k : On(p, k)' <=> On(p, k) \/ (p = r /\ k = kind)
  BY SaidOn DEF TypeInv
<1>2. UNCHANGED <<reader, cur, slot, events, lost>>
  BY DEF Outside, readVars, storeVars
<1>3. plug'[q] = (IF q = r THEN next ELSE plug[q])
  BY DEF Say, TypeInv, HandType
<1>4. Numbered' = Numbered /\ (\A k : InHand(q, k)' <=> InHand(q, k)) /\ \A t : Passed(q, t)' <=> Passed(q, t)
  BY <1>2 DEF Numbered, InHand, Passed
<1>5. DOMAIN wire = 1 .. Len(wire) /\ Len(wire) \in Nat
  BY LenProperties DEF TypeInv, WireType
<1>6. CASE q # r
  <2>1. \A k : On(q, k)' <=> On(q, k)
    BY <1>1, <1>6
  <2>2. \A i, j \in DOMAIN wire' :
            /\ i < j /\ wire'[i].req = q /\ wire'[j].req = q
            /\ wire'[i].kind \in Audits /\ wire'[j].kind \in Audits
            => Place(wire'[i].kind) <= Place(wire'[j].kind)
    BY <1>1, <1>6 DEF Ordered
  <2> QED BY <1>3, <1>4, <1>6, <2>1, <2>2 DEF Ordered
<1>7. CASE q = r
  <2>1. /\ Reached(plug[r]) <= Reached(next)
        /\ kind \in Audits => Reached(plug[r]) <= Place(kind) /\ Place(kind) <= Reached(next)
    BY DEF Move
  <2>2. plug[r] \in {"none", "asked", "doing", "denied", "answering", "open", "started", "begun",
                     "first", "flowing", "erred", "finished", "ended", "done"}
    BY DEF TypeInv, HandType
  <2>3. Reached(plug[r]) \in Int
    BY <2>2, Reaches
  <2>4. \A k \in Audits : InHand(r, k) \/ On(r, k) => Place(k) <= Reached(plug[r])
    BY <1>7 DEF Ordered
  <2>5. \A t \in Timed : Passed(r, t) => Place(t) <= Reached(plug[r])
    BY <1>7 DEF Ordered
  <2>6. \A t \in Timed : Place(t) \in Int
    BY PlaceNat
  <2>7. \A t \in Timed : Place(t) <= Reached(plug[r]) /\ kind \in Audits => Place(t) <= Place(kind)
    BY <2>1, <2>3, <2>6 DEF Timed
  <2>8. Reached(next) \in Int
    BY Reaches DEF Move, Stage, Sent, Heard
  <2>9. \A t \in Timed : Place(t) <= Reached(plug[r]) => Place(t) <= Reached(next)
    BY <2>1, <2>3, <2>6, <2>8
  <2>10. \A i, j \in DOMAIN wire' :
            /\ i < j /\ wire'[i].req = r /\ wire'[j].req = r
            /\ wire'[i].kind \in Audits /\ wire'[j].kind \in Audits
            => Place(wire'[i].kind) <= Place(wire'[j].kind)
    <3> SUFFICES ASSUME NEW i \in DOMAIN wire', NEW j \in DOMAIN wire', i < j, wire'[i].req = r, wire'[j].req = r,
                        wire'[i].kind \in Audits, wire'[j].kind \in Audits
                 PROVE  Place(wire'[i].kind) <= Place(wire'[j].kind)
      OBVIOUS
    <3>1. i \in DOMAIN wire /\ wire'[i] = wire[i]
      BY <1>1, <1>5
    <3>2. CASE j \in DOMAIN wire /\ wire'[j] = wire[j]
      BY <1>7, <3>1, <3>2 DEF Ordered
    <3>3. CASE wire'[j].kind = kind
      <4>1. On(r, wire[i].kind)
        BY <3>1 DEF On, Is
      <4> QED BY <2>4, <2>7, <3>1, <3>3, <4>1 DEF Timed
    <3> QED BY <1>1, <3>2, <3>3
  <2>11. \A k \in Audits : On(r, k)' => On(r, k) \/ k = kind
    BY <1>1
  <2>12. \A t \in Timed, k \in Audits :
            Passed(r, t) /\ (InHand(r, k) \/ On(r, k)') => Place(t) <= Place(k)
    BY <1>7, <2>5, <2>7, <2>11 DEF Ordered
  <2>13. \A k, l \in Audits : InHand(r, k) /\ On(r, l)' => Place(k) <= Place(l)
    BY <1>7, <2>4, <2>7, <2>11 DEF Ordered, Timed
  <2>14. \A k \in Audits : InHand(r, k) \/ On(r, k)' => Place(k) <= Reached(next)
    BY <2>1, <2>4, <2>9, <2>11 DEF Timed
  <2>15. \A t \in Timed : Passed(r, t) => Place(t) <= Reached(next)
    BY <2>5, <2>9
  <2> QED BY <1>3, <1>4, <1>7, <2>10, <2>12, <2>13, <2>14, <2>15 DEF Ordered
<1> QED BY <1>6, <1>7

\* Every step keeps the order.
LEMMA OrderStep ==
    ASSUME SeqInv, TypeInv, ReaderInv, OwnInv, OrderInv, Next
    PROVE  OrderInv'
<1> SUFFICES ASSUME NEW q \in Request PROVE Ordered(q)'
  BY DEF OrderInv
<1>0. Ordered(q) /\ Reader \in Actor
  BY DEF OrderInv, Actor
<1>1. ASSUME NEW r \in Request, Handler(r)
      PROVE  Ordered(q)'
  <2>0. r \in Actor
    BY DEF Actor
  <2>1. UNCHANGED <<wire, reader, cur, lost>> /\ \A k : InHand(q, k)' <=> InHand(q, k)
    BY <1>1, HandlerFrame DEF InHand
  <2>2. CASE Begin(r)
    <3>1. UNCHANGED slot /\ plug' = [plug EXCEPT ![r] = "asked"] /\ plug[r] = "none"
      BY <2>2 DEF Begin, At, OwnInv
    <3>2. events' \subseteq events \cup {[req |-> r, seq |-> seq[r] + 1, type |-> "prepared"]}
      BY <2>2 DEF Begin
    <3>3. \A e \in Numbered' : e \in Numbered \/ (e.req = r /\ e.type = "prepared")
      BY <2>1, <3>1, <3>2 DEF Numbered
    <3>4. CASE q # r
      BY <1>0, <2>1, <3>1, <3>3, <3>4, OrderSame DEF TypeInv, HandType
    <3>5. CASE q = r
      <4>1. Reached(plug[r]) = -1 /\ plug'[r] = "asked"
        BY <3>1, Reaches DEF TypeInv, HandType
      <4>2. /\ \A k \in Audits : ~InHand(r, k) /\ ~On(r, k)
            /\ \A t \in Timed : ~Passed(r, t)
        BY <1>0, <3>5, <4>1, PlaceNat DEF Ordered, Timed
      <4>3. \A k \in Audits : ~InHand(r, k)' /\ ~On(r, k)'
        BY <2>1, <3>5, <4>2 DEF On, Is
      <4>4. \A e \in Numbered' : e.req = r /\ e.type \in Timed => e.type = "prepared"
        BY <3>3, <4>2 DEF Passed
      <4>5. \A t \in Timed : Passed(r, t)' => t = "prepared"
        BY <4>4 DEF Passed
      <4>6. \A i \in DOMAIN wire' : wire'[i].req = r => wire'[i].kind \notin Audits
        BY <4>3 DEF On, Is
      <4> QED BY <3>5, <4>1, <4>3, <4>4, <4>5, <4>6, Reaches, Places DEF Ordered
    <3> QED BY <3>4, <3>5
  <2>3. CASE Completes(r) \/ StreamOpens(r) \/ TakeData(r) \/ Conclude(r)
    <3>1. UNCHANGED <<plug, events>>
      BY <2>3 DEF Completes, StreamOpens, TakeData, Conclude, plugVars, storeVars
    <3>2. \/ UNCHANGED slot
          \/ \E type \in Own \ {"prepared"} : TakeSeq(r, r, type)
      BY <2>3 DEF Completes, StreamOpens, TakeData, Conclude, StreamMeta, Own
    <3>3. \A e \in Numbered' : e.type \in Timed => e \in Numbered
      <4>1. CASE UNCHANGED slot
        BY <2>1, <3>1, <4>1 DEF Numbered
      <4>2. ASSUME NEW type \in Own \ {"prepared"}, TakeSeq(r, r, type)
            PROVE  \A e \in Numbered' : e.type \in Timed => e \in Numbered
        <5> DEFINE new == [req |-> r, seq |-> seq[r] + 1, type |-> type]
        <5>1. slot' = slot \/ slot' = [slot EXCEPT ![r] = {new}]
          BY <4>2 DEF TakeSeq
        <5>2. new.type \notin Timed
          BY DEF Own, Timed, Audits
        <5> HIDE DEF new
        <5>3. \A a \in Actor : slot'[a] \subseteq slot[a] \cup {new}
          BY <5>1 DEF TypeInv, EventType
        <5> QED BY <2>1, <3>1, <5>2, <5>3 DEF Numbered
      <4> QED BY <3>2, <4>1, <4>2
    <3> QED BY <1>0, <2>1, <3>1, <3>3, OrderSame
  <2>4. CASE CallFails(r) \/ TakeError(r) \/ RangeEnds(r) \/ FinishRow(r) \/ WriteFull(r) \/ Return(r)
    <3>1. UNCHANGED <<plug, slot, events>>
      BY <2>4 DEF CallFails, TakeError, RangeEnds, FinishRow, WriteFull, Return, plugVars, storeVars
    <3>2. Numbered' = Numbered
      BY <2>1, <3>1 DEF Numbered
    <3> QED BY <1>0, <2>1, <3>1, <3>2, OrderSame
  <2> QED BY <1>1, <2>2, <2>3, <2>4 DEF Handler
<1>2. ASSUME NEW r \in Request, Plugin(r)
      PROVE  Ordered(q)'
  BY <1>0, <1>2, PluginMoves, OrderSay
<1>3. ASSUME NEW r \in Request, ClientLeaves(r)
      PROVE  Ordered(q)'
  <2>1. UNCHANGED <<wire, plug, reader, cur, slot, events, lost>>
    BY <1>3 DEF ClientLeaves, readVars, plugVars, storeVars
  <2> QED BY <1>0, <2>1, OrderSame DEF InHand, Numbered
<1>4. ASSUME NEW a \in Actor, InsertEvent(a)
      PROVE  Ordered(q)'
  <2>1. UNCHANGED <<wire, plug, reader, cur>> /\ slot' = [slot EXCEPT ![a] = {}]
    BY <1>4 DEF InsertEvent, readVars, plugVars
  <2>2. PICK e \in slot[a] : events' \subseteq events \cup {e} /\ lost' \subseteq lost \cup {e}
    BY <1>4 DEF InsertEvent
  <2>3. \A b \in Actor : slot'[b] \subseteq slot[b]
    BY <2>1 DEF TypeInv, EventType
  <2>4. Numbered' \subseteq Numbered
    BY <2>2, <2>3 DEF Numbered
  <2> QED BY <1>0, <2>1, <2>4, OrderSame DEF InHand
<1>5. CASE FetchHandler
  <2> DEFINE h == Head(wire)
  <2>1. wire # <<>> /\ wire' = Tail(wire) /\ UNCHANGED <<plug, slot, events, lost>>
    BY <1>5 DEF FetchHandler, storeVars
  <2>2. UNCHANGED <<reader, cur>> \/ cur' = {h}
    BY <1>5 DEF FetchHandler, readVars
  <2>3. wire[1] = h
    BY <2>1, ReadOn DEF TypeInv
  <2>4. \A kind : InHand(q, kind)' => InHand(q, kind) \/ Is(1, q, kind)
    <3>1. CASE UNCHANGED <<reader, cur>>
      BY <3>1 DEF InHand
    <3>2. CASE cur' = {h}
      <4> SUFFICES ASSUME NEW kind, InHand(q, kind)' PROVE Is(1, q, kind)
        OBVIOUS
      <4>1. h = [req |-> q, kind |-> kind]
        BY <3>2 DEF InHand
      <4>2. h.req = q /\ h.kind = kind
        BY <4>1
      <4> QED BY <2>3, <4>2 DEF Is
    <3> QED BY <2>2, <3>1, <3>2
  <2> QED BY <1>0, <2>1, <2>4, OrderRead
<1>6. CASE AuditPayload
  <2>1. UNCHANGED <<wire, plug, cur, slot, events, lost>> /\ reader = "payload"
    BY <1>6 DEF AuditPayload, plugVars, storeVars
  <2> QED BY <1>0, <2>1, OrderSame DEF InHand, Numbered
<1>7. CASE AuditEvent
  <2>1. UNCHANGED <<wire, plug, cur, events, lost>> /\ reader = "event" /\ reader' = "insert"
    BY <1>7 DEF AuditEvent, plugVars, storeVars
  <2>2. PICK m \in cur : TakeSeq(Reader, m.req, m.kind)
    BY <1>7 DEF AuditEvent
  <2>3. m.req \in Request /\ m.kind \in Audits /\ m = [req |-> m.req, kind |-> m.kind]
    BY CurAudit
  <2>4. InHand(m.req, m.kind) /\ \A k : ~InHand(q, k)'
    BY <2>1, <2>3 DEF InHand
  <2>5. CASE level = "off"
    <3>1. Numbered' = Numbered
      BY <2>1, <2>2, <2>5 DEF Numbered, TakeSeq
    <3> QED BY <1>0, <2>1, <2>4, <3>1, OrderSame
  <2>6. CASE level # "off"
    <3> DEFINE new == [req |-> m.req, seq |-> seq[m.req] + 1, type |-> m.kind]
    <3>1. slot' = [slot EXCEPT ![Reader] = {new}]
      BY <2>2, <2>6 DEF TakeSeq
    <3>2. new.req = m.req /\ new.type = m.kind /\ new.seq = seq[m.req] + 1 /\ seq[m.req] \in Nat
      BY <2>3 DEF TypeInv, EventType
    <3> HIDE DEF new
    <3>3. \A e \in Numbered' : e \in Numbered \/ e = new
      <4>1. \A a \in Actor : slot'[a] \subseteq slot[a] \cup {new}
        BY <3>1 DEF TypeInv, EventType
      <4> QED BY <2>1, <4>1 DEF Numbered
    <3>4. CASE q # m.req
      BY <1>0, <2>1, <2>4, <3>2, <3>3, <3>4, OrderSame
    <3>5. CASE q = m.req
      <4>1. \A t \in Timed : Passed(q, t)' => Passed(q, t) \/ t = m.kind
        BY <3>2, <3>3 DEF Passed
      <4>2. \A e \in Numbered : e.req = q /\ e.type \in Timed => e.seq < new.seq /\ Place(e.type) <= Place(m.kind)
        <5> SUFFICES ASSUME NEW e \in Numbered, e.req = q, e.type \in Timed
                     PROVE  e.seq < new.seq /\ Place(e.type) <= Place(m.kind)
          OBVIOUS
        <5>1. e.seq \in Nat /\ e.seq <= seq[q]
          BY DEF SeqInv, Below
        <5>2. Passed(q, e.type)
          BY DEF Passed
        <5>3. Place(e.type) <= Place(m.kind)
          BY <1>0, <2>3, <2>4, <3>5, <5>2 DEF Ordered
        <5> QED BY <3>2, <3>5, <5>1, <5>3
      <4>3. \A e, f \in Numbered' :
                e.req = q /\ f.req = q /\ e.type \in Timed /\ f.type \in Timed /\ Place(e.type) < Place(f.type)
                => e.seq < f.seq
        <5> SUFFICES ASSUME NEW e \in Numbered', NEW f \in Numbered', e.req = q, f.req = q,
                            e.type \in Timed, f.type \in Timed, Place(e.type) < Place(f.type)
                     PROVE  e.seq < f.seq
          OBVIOUS
        <5>1. Place(e.type) \in Int /\ Place(f.type) \in Int
          BY PlaceNat
        <5>2. CASE e \in Numbered /\ f \in Numbered
          BY <1>0, <5>2 DEF Ordered
        <5>3. CASE e \in Numbered /\ f = new
          BY <4>2, <5>3
        <5>4. CASE e = new /\ f \in Numbered
          <6>1. Place(f.type) <= Place(e.type)
            BY <3>2, <4>2, <5>4
          <6> QED BY <5>1, <6>1
        <5>5. CASE e = new /\ f = new
          BY <5>1, <5>5
        <5> QED BY <3>3, <5>2, <5>3, <5>4, <5>5
      <4>4. \A k : On(q, k)' <=> On(q, k)
        BY <2>1 DEF On, Is
      <4>5. \A t \in Timed, k \in Audits : Passed(q, t)' /\ On(q, k) => Place(t) <= Place(k)
        BY <1>0, <2>3, <2>4, <3>5, <4>1 DEF Ordered, Timed
      <4>6. \A t \in Timed : Passed(q, t)' => Place(t) <= Reached(plug[q])
        BY <1>0, <2>3, <2>4, <3>5, <4>1 DEF Ordered, Timed
      <4> QED BY <1>0, <2>1, <2>4, <4>3, <4>4, <4>5, <4>6 DEF Ordered
    <3> QED BY <3>4, <3>5
  <2> QED BY <2>5, <2>6
<1>8. CASE AuditDone
  <2>1. UNCHANGED <<wire, plug, slot, events, lost>> /\ reader' = "read"
    BY <1>8 DEF AuditDone, plugVars, storeVars
  <2> QED BY <1>0, <2>1, OrderSame DEF InHand, Numbered
<1>9. CASE Deliver
  <2>1. wire # <<>> /\ wire' = Tail(wire) /\ UNCHANGED <<plug, reader, cur, slot, events, lost>>
    BY <1>9 DEF Deliver, readVars, storeVars
  <2> QED BY <1>0, <2>1, OrderRead DEF InHand
<1> QED BY <1>1, <1>2, <1>3, <1>4, <1>5, <1>6, <1>7, <1>8, <1>9 DEF Next, Serve

\* By their numbers a request's audits follow its first events and each other as
\* things happened at the upstream, for any number of requests: one goroutine
\* reads and numbers them one by one.
THEOREM AuditsInOrder == Spec => []AuditOrder
<1> DEFINE Inv == SeqInv /\ TypeInv /\ ReaderInv /\ OwnInv /\ OrderInv
<1>1. Init => Inv
  BY SeqInit, TypeInit, HoldInit, OrderInit
<1>2. Inv /\ [Next]_vars => Inv'
  <2> SUFFICES ASSUME Inv, [Next]_vars PROVE Inv'
    OBVIOUS
  <2>1. SeqInv' /\ TypeInv'
    BY SeqStep, TypeStep
  <2>2. CASE Next
    BY <2>1, <2>2, ReaderStep, OwnStep, OrderStep
  <2>3. CASE UNCHANGED vars
    <3>1. ReaderInv' /\ OwnInv'
      BY <2>3 DEF vars, ReaderInv, OwnInv
    <3>2. UNCHANGED <<wire, plug, reader, cur, slot, events, lost>>
      BY <2>3 DEF vars
    <3>3. OrderInv'
      BY <3>2, OrderSame DEF OrderInv, InHand, Numbered
    <3> QED BY <2>1, <3>1, <3>3
  <2> QED BY <2>2, <2>3
<1>3. Inv => AuditOrder
  <2> SUFFICES ASSUME Inv PROVE AuditOrder
    OBVIOUS
  <2>1. \A e \in Numbered : e.req \in Request
    BY DEF SeqInv, Below
  <2> QED BY <2>1 DEF OrderInv, Ordered, AuditOrder, Timed
<1> QED BY <1>1, <1>2, <1>3, PTL DEF Spec
=============================================================================
