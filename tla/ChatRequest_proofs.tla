-------------------------- MODULE ChatRequest_proofs --------------------------
(***************************************************************************)
(* Proofs about ChatRequest for any set of requests: what the store says   *)
(* of a request, step by step of its handler (RowInv, StoredInv); what its *)
(* client has been sent and what row and counter say of it (TellInv); that *)
(* the gauge counts the open streams (GaugeInv); and what a stream that is *)
(* recorded as ok has received (CompleteInv).                              *)
(***************************************************************************)
EXTENDS ChatRequest, SequenceTheorems, FiniteSetTheorems, TLAPS

\* The row of a stream that had an error event.
Failed == [status |-> "error", tokens |-> FALSE]

\* Outcomes are written where nothing is stored yet, or over the error of a
\* stream that can no longer finish.
RowInv ==
    /\ DOMAIN row = Request /\ DOMAIN pc = Request
    /\ DOMAIN streamErr = Request /\ DOMAIN unsaid = Request
    /\ \A r \in Request :
        /\ pc[r] = "idle" => row[r].status = "none"
        /\ pc[r] \in {"idle", "parsing", "completing", "opening"} => ~streamErr[r]
        /\ pc[r] \in {"parsing", "completing", "opening", "recording"} => row[r].status = "started"
        /\ pc[r] \in {"ranging", "ended"} => row[r].status = "started" \/ (row[r] = Failed /\ streamErr[r])

\* While the store is open a handler that is past its Finish has stored it;
\* once it is closed in good order, nobody is left who could.
StoredInv ==
    /\ StoreOpen =>
        \A r \in Request : row[r].status = "started" /\ ~unsaid[r] =>
            /\ pc[r] \notin {"refusing", "answering", "rejecting", "returning", "done"}
            /\ pc[r] \in {"ranging", "ended"} => ~streamErr[r]
    /\ ~StoreOpen /\ ~late =>
        /\ Busy = {}
        /\ \A r \in Request : row[r].status = "started" => unsaid[r]
    /\ app = "failing" => late

-----------------------------------------------------------------------------
\* Before any request.
LEMMA RowInit == Init => RowInv
  BY DEF Init, RowInv

\* Each step of a handler finds its row as RowInv says and leaves it so.
LEMMA RowStep == RowInv /\ [Next]_vars => RowInv'
<1> SUFFICES ASSUME RowInv, [Next]_vars PROVE RowInv'
  OBVIOUS
<1> USE DEF RowInv, At, Goto, Finish, Failed, StoreOpen
<1>1. ASSUME NEW r \in Request, Handler(r) PROVE RowInv'
  <2>1. CASE Accept(r)
    BY <2>1 DEF Accept
  <2>2. CASE BodyError(r)
    BY <2>2 DEF BodyError
  <2>3. CASE Refuse(r)
    BY <2>3 DEF Refuse
  <2>4. CASE WriteRefusal(r)
    BY <2>4 DEF WriteRefusal
  <2>5. CASE CallComplete(r)
    BY <2>5 DEF CallComplete
  <2>6. CASE CompleteFails(r)
    BY <2>6 DEF CompleteFails
  <2>7. CASE Completes(r)
    BY <2>7 DEF Completes
  <2>8. CASE WriteAnswer(r)
    BY <2>8 DEF WriteAnswer
  <2>9. CASE CallStream(r)
    BY <2>9 DEF CallStream
  <2>10. CASE StreamRefused(r)
    BY <2>10 DEF StreamRefused
  <2>11. CASE WriteRejection(r)
    BY <2>11 DEF WriteRejection
  <2>12. CASE StreamOpens(r)
    BY <2>12 DEF StreamOpens
  <2>13. CASE TakeData(r)
    BY <2>13 DEF TakeData
  <2>14. CASE TakeEnd(r)
    BY <2>14 DEF TakeEnd
  <2>15. CASE TakeError(r)
    BY <2>15 DEF TakeError
  <2>16. CASE TakeBareError(r)
    BY <2>16 DEF TakeBareError
  <2>17. CASE RangeEnds(r)
    BY <2>17 DEF RangeEnds
  <2>18. CASE ConcludeLeft(r)
    BY <2>18 DEF ConcludeLeft
  <2>19. CASE ConcludeError(r)
    BY <2>19 DEF ConcludeError
  <2>20. CASE ConcludeOk(r)
    BY <2>20 DEF ConcludeOk
  <2>21. CASE RecordOk(r)
    BY <2>21 DEF RecordOk
  <2>22. CASE Return(r)
    BY <2>22 DEF Return
  <2> QED
    BY <1>1, <2>1, <2>2, <2>3, <2>4, <2>5, <2>6, <2>7, <2>8, <2>9, <2>10, <2>11, <2>12, <2>13, <2>14, <2>15, <2>16, <2>17, <2>18, <2>19, <2>20, <2>21, <2>22 DEF Handler
<1>2. ASSUME NEW r \in Request, Environment(r) PROVE RowInv'
  BY <1>2 DEF Environment, PluginEmits, ClientLeaves
<1>3. CASE AppStep
  BY <1>3 DEF AppStep, Signal, Drained, DrainTimeout, ListenFails, Exit
<1>4. CASE UNCHANGED vars
  BY <1>4 DEF vars
<1> QED
  BY <1>1, <1>2, <1>3, <1>4 DEF Next

\* What a step may do to a stored outcome.
OutcomeKept ==
    \A r \in Request : row[r].status \in {"ok", "error", "canceled"} /\ row'[r] # row[r] =>
        row[r].status = "error" /\ row'[r].status = "canceled" /\ left[r]

\* A step changes no outcome but as OutcomeStays allows.
LEMMA OutcomeStep == RowInv /\ [Next]_vars => OutcomeKept
<1> SUFFICES ASSUME RowInv, [Next]_vars PROVE OutcomeKept
  OBVIOUS
<1> USE DEF RowInv, OutcomeKept, At, Goto, Finish, Failed, StoreOpen
<1>1. ASSUME NEW r \in Request, Handler(r) PROVE OutcomeKept
  <2>1. CASE Accept(r)
    BY <2>1 DEF Accept
  <2>2. CASE BodyError(r)
    BY <2>2 DEF BodyError
  <2>3. CASE Refuse(r)
    BY <2>3 DEF Refuse
  <2>4. CASE WriteRefusal(r)
    BY <2>4 DEF WriteRefusal
  <2>5. CASE CallComplete(r)
    BY <2>5 DEF CallComplete
  <2>6. CASE CompleteFails(r)
    BY <2>6 DEF CompleteFails
  <2>7. CASE Completes(r)
    BY <2>7 DEF Completes
  <2>8. CASE WriteAnswer(r)
    BY <2>8 DEF WriteAnswer
  <2>9. CASE CallStream(r)
    BY <2>9 DEF CallStream
  <2>10. CASE StreamRefused(r)
    BY <2>10 DEF StreamRefused
  <2>11. CASE WriteRejection(r)
    BY <2>11 DEF WriteRejection
  <2>12. CASE StreamOpens(r)
    BY <2>12 DEF StreamOpens
  <2>13. CASE TakeData(r)
    BY <2>13 DEF TakeData
  <2>14. CASE TakeEnd(r)
    BY <2>14 DEF TakeEnd
  <2>15. CASE TakeError(r)
    BY <2>15 DEF TakeError
  <2>16. CASE TakeBareError(r)
    BY <2>16 DEF TakeBareError
  <2>17. CASE RangeEnds(r)
    BY <2>17 DEF RangeEnds
  <2>18. CASE ConcludeLeft(r)
    BY <2>18 DEF ConcludeLeft
  <2>19. CASE ConcludeError(r)
    BY <2>19 DEF ConcludeError
  <2>20. CASE ConcludeOk(r)
    BY <2>20 DEF ConcludeOk
  <2>21. CASE RecordOk(r)
    BY <2>21 DEF RecordOk
  <2>22. CASE Return(r)
    BY <2>22 DEF Return
  <2> QED
    BY <1>1, <2>1, <2>2, <2>3, <2>4, <2>5, <2>6, <2>7, <2>8, <2>9, <2>10, <2>11, <2>12, <2>13, <2>14, <2>15, <2>16, <2>17, <2>18, <2>19, <2>20, <2>21, <2>22 DEF Handler
<1>2. ASSUME NEW r \in Request, Environment(r) PROVE OutcomeKept
  BY <1>2 DEF Environment, PluginEmits, ClientLeaves
<1>3. CASE AppStep
  BY <1>3 DEF AppStep, Signal, Drained, DrainTimeout, ListenFails, Exit
<1>4. CASE UNCHANGED vars
  BY <1>4 DEF vars
<1> QED
  BY <1>1, <1>2, <1>3, <1>4 DEF Next

\* A stored outcome stays; only the error of a client that has left becomes
\* canceled.
THEOREM OutcomesStay == Spec => OutcomeStays
<1>1. RowInv /\ [Next]_vars => [OutcomeKept]_vars
  BY OutcomeStep
<1>2. OutcomeStays <=> [][OutcomeKept]_vars
  BY PTL DEF OutcomeStays, OutcomeKept
<1> QED
  BY RowInit, RowStep, <1>1, <1>2, PTL DEF Spec

-----------------------------------------------------------------------------
\* Before any request.
LEMMA StoredInit == Init => StoredInv
  BY DEF Init, StoredInv, StoreOpen, Busy

\* Each step keeps the store complete while it is open.
LEMMA StoredStep == RowInv /\ StoredInv /\ [Next]_vars => StoredInv'
<1> SUFFICES ASSUME RowInv, StoredInv, [Next]_vars PROVE StoredInv'
  OBVIOUS
<1> USE DEF RowInv, StoredInv, Busy, appVars, At, Goto, Finish, Failed, StoreOpen
<1>1. ASSUME NEW r \in Request, Handler(r) PROVE StoredInv'
  <2>1. CASE Accept(r)
    BY <2>1 DEF Accept
  <2>2. CASE BodyError(r)
    BY <2>2 DEF BodyError
  <2>3. CASE Refuse(r)
    BY <2>3 DEF Refuse
  <2>4. CASE WriteRefusal(r)
    BY <2>4 DEF WriteRefusal
  <2>5. CASE CallComplete(r)
    BY <2>5 DEF CallComplete
  <2>6. CASE CompleteFails(r)
    BY <2>6 DEF CompleteFails
  <2>7. CASE Completes(r)
    BY <2>7 DEF Completes
  <2>8. CASE WriteAnswer(r)
    BY <2>8 DEF WriteAnswer
  <2>9. CASE CallStream(r)
    BY <2>9 DEF CallStream
  <2>10. CASE StreamRefused(r)
    BY <2>10 DEF StreamRefused
  <2>11. CASE WriteRejection(r)
    BY <2>11 DEF WriteRejection
  <2>12. CASE StreamOpens(r)
    BY <2>12 DEF StreamOpens
  <2>13. CASE TakeData(r)
    BY <2>13 DEF TakeData
  <2>14. CASE TakeEnd(r)
    BY <2>14 DEF TakeEnd
  <2>15. CASE TakeError(r)
    BY <2>15 DEF TakeError
  <2>16. CASE TakeBareError(r)
    BY <2>16 DEF TakeBareError
  <2>17. CASE RangeEnds(r)
    BY <2>17 DEF RangeEnds
  <2>18. CASE ConcludeLeft(r)
    BY <2>18 DEF ConcludeLeft
  <2>19. CASE ConcludeError(r)
    BY <2>19 DEF ConcludeError
  <2>20. CASE ConcludeOk(r)
    BY <2>20 DEF ConcludeOk
  <2>21. CASE RecordOk(r)
    BY <2>21 DEF RecordOk
  <2>22. CASE Return(r)
    BY <2>22 DEF Return
  <2> QED
    BY <1>1, <2>1, <2>2, <2>3, <2>4, <2>5, <2>6, <2>7, <2>8, <2>9, <2>10, <2>11, <2>12, <2>13, <2>14, <2>15, <2>16, <2>17, <2>18, <2>19, <2>20, <2>21, <2>22 DEF Handler
<1>2. ASSUME NEW r \in Request, Environment(r) PROVE StoredInv'
  BY <1>2 DEF Environment, PluginEmits, ClientLeaves
<1>3. CASE AppStep
  <2>1. CASE Signal
    BY <2>1 DEF Signal
  <2>2. CASE Drained
    <3>1. \A r \in Request : pc[r] \in {"idle", "done"}
      BY <2>2 DEF Drained
    <3>2. \A r \in Request : row[r].status = "started" => unsaid[r]
      BY <2>2, <3>1 DEF Drained
    <3> QED
      BY <2>2, <3>1, <3>2 DEF Drained
  <2>3. CASE DrainTimeout \/ ListenFails
    BY <2>3 DEF DrainTimeout, ListenFails
  <2>4. CASE Exit
    BY <2>4 DEF Exit
  <2> QED
    BY <1>3, <2>1, <2>2, <2>3, <2>4 DEF AppStep
<1>4. CASE UNCHANGED vars
  BY <1>4 DEF vars
<1> QED
  BY <1>1, <1>2, <1>3, <1>4 DEF Next

\* After a shutdown that waited for the handlers every stored request has its
\* outcome, but for an error event that carried none.
THEOREM DrainComplete == Spec => []DrainKeeps
<1>1. StoredInv => DrainKeeps
  BY DEF StoredInv, DrainKeeps, StoreOpen
<1> QED
  BY RowInit, RowStep, StoredInit, StoredStep, <1>1, PTL DEF Spec

-----------------------------------------------------------------------------
(* What the client is sent.                                                *)

\* What a client may be sent.
Items == {"refusal", "answer", "header", "chunk", "error", "final", "usage", "done"}

\* It was sent this.
Has(w, item) == \E i \in DOMAIN w : w[i] = item

\* A stream under way: the header, then chunks and errors.
Body(w) ==
    /\ Len(w) >= 1 /\ w[1] = "header"
    /\ \A i \in 2 .. Len(w) : w[i] \in {"chunk", "error"}

\* A stream that has failed.
Failing(w) ==
    /\ Len(w) >= 2 /\ w[1] = "header" /\ w[Len(w)] = "done"
    /\ \A i \in 2 .. Len(w) - 1 : w[i] \in {"chunk", "error"}

\* A stream that has finished, with its usage if there is one.
Trailer(shown) == IF shown THEN <<"final", "usage", "done">> ELSE <<"final", "done">>

Finishing(w, shown) ==
    \E n \in 1 .. Len(w) :
        /\ Len(w) = n + (IF shown THEN 3 ELSE 2)
        /\ w[1] = "header" /\ \A i \in 2 .. n : w[i] = "chunk"
        /\ w[n + 1] = "final" /\ w[Len(w)] = "done"
        /\ shown => w[n + 2] = "usage"

\* The shape SseShape asks of each request.
WellFormed(w) ==
    /\ \A i \in DOMAIN w :
        /\ w[i] \in {"refusal", "answer"} => Len(w) = 1
        /\ w[i] = "header" => i = 1
        /\ w[i] \notin {"refusal", "answer"} => w[1] = "header"
        /\ w[i] = "done" => i = Len(w)
        /\ w[i] = "usage" => i = Len(w) - 1 /\ w[i - 1] = "final"
    /\ ~(Has(w, "final") /\ Has(w, "error"))

\* One item written after w.
LEMMA OneMore ==
    ASSUME NEW w \in Seq(Items), NEW x \in Items
    PROVE  /\ w \o <<x>> \in Seq(Items) /\ Len(w \o <<x>>) = Len(w) + 1
           /\ \A i \in 1 .. Len(w) : (w \o <<x>>)[i] = w[i]
           /\ (w \o <<x>>)[Len(w) + 1] = x
           /\ \A item : Has(w \o <<x>>, item) <=> Has(w, item) \/ item = x
<1>1. /\ w \o <<x>> \in Seq(Items) /\ Len(w \o <<x>>) = Len(w) + 1
      /\ \A i \in 1 .. Len(w) : (w \o <<x>>)[i] = w[i]
      /\ (w \o <<x>>)[Len(w) + 1] = x
  OBVIOUS
<1>2. DOMAIN w = 1 .. Len(w) /\ DOMAIN (w \o <<x>>) = 1 .. Len(w) + 1 /\ Len(w) \in Nat
  BY <1>1
<1>3. ASSUME NEW item PROVE Has(w \o <<x>>, item) <=> Has(w, item) \/ item = x
  BY <1>1, <1>2 DEF Has
<1> QED BY <1>1, <1>3

\* What the first items of an answer are.
LEMMA FirstItem ==
    ASSUME NEW x \in Items
    PROVE  /\ <<>> \o <<x>> = <<x>>
           /\ \A item : Has(<<x>>, item) <=> item = x
           /\ x = "header" => Body(<<x>>)
           /\ x \in {"header", "refusal", "answer"} => WellFormed(<<x>>)
<1>1. <<x>> \in Seq(Items) /\ Len(<<x>>) = 1 /\ <<x>>[1] = x /\ DOMAIN <<x>> = {1}
  OBVIOUS
<1>2. \A item : Has(<<x>>, item) <=> item = x
  BY <1>1 DEF Has
<1> QED BY <1>1, <1>2 DEF Body, WellFormed

\* The loop adds chunks and errors to a body.
LEMMA BodyGrows ==
    ASSUME NEW w \in Seq(Items), Body(w), NEW x \in {"chunk", "error"}
    PROVE  Body(w \o <<x>>)
<1>1. /\ Len(w \o <<x>>) = Len(w) + 1 /\ Len(w) \in Nat
      /\ \A i \in 1 .. Len(w) : (w \o <<x>>)[i] = w[i]
      /\ (w \o <<x>>)[Len(w) + 1] = x
  BY OneMore DEF Items
<1>2. \A i \in 2 .. Len(w) + 1 : i \in 2 .. Len(w) \/ i = Len(w) + 1
  BY <1>1
<1> QED BY <1>1, <1>2 DEF Body

\* A failed stream ends with [DONE].
LEMMA BodyFails ==
    ASSUME NEW w \in Seq(Items), Body(w)
    PROVE  Failing(w \o <<"done">>)
BY OneMore DEF Body, Failing, Items

\* A body is well formed.
LEMMA BodyFormed ==
    ASSUME NEW w \in Seq(Items), Body(w)
    PROVE  WellFormed(w) /\ ~Has(w, "done") /\ ~Has(w, "final") /\ Has(w, "header")
<1>1. DOMAIN w = 1 .. Len(w) /\ Len(w) \in Nat
  OBVIOUS
<1>2. \A i \in DOMAIN w : i = 1 \/ i \in 2 .. Len(w)
  BY <1>1
<1>3. ~Has(w, "done") /\ ~Has(w, "final") /\ Has(w, "header")
  BY <1>1, <1>2 DEF Has, Body
<1> QED BY <1>1, <1>2, <1>3 DEF Body, WellFormed

\* So is one that failed.
LEMMA FailingFormed ==
    ASSUME NEW w \in Seq(Items), Failing(w)
    PROVE  WellFormed(w) /\ Has(w, "done") /\ ~Has(w, "final") /\ Has(w, "header")
<1>1. DOMAIN w = 1 .. Len(w) /\ Len(w) \in Nat
  OBVIOUS
<1>2. \A i \in DOMAIN w : i = 1 \/ i \in 2 .. Len(w) - 1 \/ i = Len(w)
  BY <1>1
<1>3. Has(w, "done") /\ ~Has(w, "final") /\ Has(w, "header")
  BY <1>1, <1>2 DEF Has, Failing
<1>4. \A i \in DOMAIN w :
        /\ w[i] \notin {"refusal", "answer", "usage"}
        /\ w[i] = "header" => i = 1
        /\ w[i] = "done" => i = Len(w)
  BY <1>1, <1>2 DEF Failing
<1> QED BY <1>3, <1>4 DEF Failing, WellFormed

\* And one that finished, which shows its usage where SseShape asks for it.
LEMMA FinishingFormed ==
    ASSUME NEW w \in Seq(Items), NEW shown \in BOOLEAN, Finishing(w, shown)
    PROVE  /\ WellFormed(w)
           /\ Has(w, "done") /\ Has(w, "final") /\ Has(w, "header") /\ ~Has(w, "error")
           /\ Has(w, "usage") <=> shown
<1>1. DOMAIN w = 1 .. Len(w) /\ Len(w) \in Nat
  OBVIOUS
<1>2. PICK n \in 1 .. Len(w) :
        /\ Len(w) = n + (IF shown THEN 3 ELSE 2)
        /\ w[1] = "header" /\ \A i \in 2 .. n : w[i] = "chunk"
        /\ w[n + 1] = "final" /\ w[Len(w)] = "done"
        /\ shown => w[n + 2] = "usage"
  BY DEF Finishing
<1>3. \A i \in DOMAIN w : i = 1 \/ i \in 2 .. n \/ i = n + 1 \/ (shown /\ i = n + 2) \/ i = Len(w)
  BY <1>1, <1>2
<1>4. /\ Has(w, "done") /\ Has(w, "final") /\ Has(w, "header") /\ ~Has(w, "error")
      /\ Has(w, "usage") <=> shown
  <2>1. Has(w, "done") /\ Has(w, "header")
    BY <1>1, <1>2 DEF Has
  <2>2. Has(w, "final") /\ n + 1 \in DOMAIN w /\ (shown => n + 2 \in DOMAIN w)
    BY <1>1, <1>2 DEF Has
  <2>3. ~Has(w, "error")
    BY <1>2, <1>3 DEF Has
  <2>4. Has(w, "usage") <=> shown
    BY <1>2, <1>3, <2>2 DEF Has
  <2> QED BY <2>1, <2>2, <2>3, <2>4
<1>5. \A i \in DOMAIN w :
        /\ w[i] \notin {"refusal", "answer"}
        /\ w[i] = "header" => i = 1
        /\ w[i] = "done" => i = Len(w)
        /\ w[i] = "usage" => i = Len(w) - 1 /\ w[i - 1] = "final"
  BY <1>1, <1>2, <1>3
<1> QED BY <1>2, <1>4, <1>5 DEF WellFormed

\* A body without an error is finished by its trailer.
LEMMA BodyFinishes ==
    ASSUME NEW w \in Seq(Items), Body(w), ~Has(w, "error"), NEW shown \in BOOLEAN
    PROVE  w \o Trailer(shown) \in Seq(Items) /\ Finishing(w \o Trailer(shown), shown)
<1>1. DOMAIN w = 1 .. Len(w) /\ Len(w) \in Nat /\ Len(w) >= 1
  BY DEF Body
<1>2. w[1] = "header" /\ \A i \in 2 .. Len(w) : w[i] = "chunk"
  BY <1>1 DEF Body, Has
<1>3. CASE shown
  <2>1. Trailer(shown) = <<"final", "usage", "done">> /\ Trailer(shown) \in Seq(Items)
    BY <1>3 DEF Trailer, Items
  <2> DEFINE v == w \o <<"final", "usage", "done">>
  <2>2. /\ v \in Seq(Items) /\ Len(v) = Len(w) + 3
        /\ \A i \in 1 .. Len(w) : v[i] = w[i]
        /\ v[Len(w) + 1] = "final" /\ v[Len(w) + 2] = "usage" /\ v[Len(w) + 3] = "done"
    BY <2>1, <1>1
  <2> HIDE DEF v
  <2>3. Finishing(v, shown)
    BY <1>1, <1>2, <1>3, <2>2 DEF Finishing
  <2> QED BY <2>1, <2>2, <2>3 DEF v
<1>4. CASE ~shown
  <2>1. Trailer(shown) = <<"final", "done">> /\ Trailer(shown) \in Seq(Items)
    BY <1>4 DEF Trailer, Items
  <2> DEFINE v == w \o <<"final", "done">>
  <2>2. /\ v \in Seq(Items) /\ Len(v) = Len(w) + 2
        /\ \A i \in 1 .. Len(w) : v[i] = w[i]
        /\ v[Len(w) + 1] = "final" /\ v[Len(w) + 2] = "done"
    BY <2>1, <1>1
  <2> HIDE DEF v
  <2>3. Finishing(v, shown)
    BY <1>1, <1>2, <1>4, <2>2 DEF Finishing
  <2> QED BY <2>1, <2>2, <2>3 DEF v
<1> QED BY <1>3, <1>4

-----------------------------------------------------------------------------
(* Type correctness.                                                       *)

\* TypeOK without the gauge, and what the client's leaving is a function of.
ValuesInv ==
    /\ pc \in [Request -> Streaming \cup {"idle", "parsing", "refusing", "completing", "answering", "done"}]
    /\ wire \in [Request -> Seq(Items)]
    /\ usage \in [Request -> BOOLEAN]
    /\ streamErr \in [Request -> BOOLEAN]
    /\ unsaid \in [Request -> BOOLEAN]
    /\ left \in [Request -> BOOLEAN]
    /\ row \in [Request -> [status : {"none", "started", "ok", "error", "canceled"}, tokens : BOOLEAN]]
    /\ total \in [Request -> Seq({"ok", "error"})]
    /\ app \in {"up", "draining", "closed", "failing", "exited"}
    /\ late \in BOOLEAN

\* The streams that are open: however many requests there are, finitely many.
Open == {r \in Request : pc[r] \in Streaming}

\* The gauge is the number of open streams.
GaugeInv == IsFiniteSet(Open) /\ active = Cardinality(Open)

\* Initially the values have their types.
LEMMA ValuesInit == Init => ValuesInv
<1> SUFFICES ASSUME Init PROVE ValuesInv
  OBVIOUS
<1>1. /\ usage \in [Request -> BOOLEAN] /\ streamErr \in [Request -> BOOLEAN]
      /\ unsaid \in [Request -> BOOLEAN] /\ left \in [Request -> BOOLEAN] /\ late \in BOOLEAN
  BY Zenon DEF Init, Delivery!Init
<1>2. row \in [Request -> [status : {"none", "started", "ok", "error", "canceled"}, tokens : BOOLEAN]]
  BY DEF Init
<1>3. /\ wire \in [Request -> Seq(Items)] /\ total \in [Request -> Seq({"ok", "error"})]
  BY DEF Init
<1>4. /\ pc \in [Request -> Streaming \cup {"idle", "parsing", "refusing", "completing", "answering", "done"}]
      /\ app \in {"up", "draining", "closed", "failing", "exited"}
  BY DEF Init
<1> QED BY <1>1, <1>2, <1>3, <1>4 DEF ValuesInv

\* What is written, counted and recorded has its type.
LEMMA StepTypes ==
    ASSUME ValuesInv, NEW r \in Request
    PROVE  /\ \A x \in Items : Write(r, <<x>>) => wire' \in [Request -> Seq(Items)]
           /\ \A shown \in BOOLEAN : Write(r, Trailer(shown)) => wire' \in [Request -> Seq(Items)]
           /\ \A label \in {"ok", "error"} : Count(r, label) => total' \in [Request -> Seq({"ok", "error"})]
           /\ \A s \in {"ok", "error", "canceled"}, tokens \in BOOLEAN : Finish(r, s, tokens) =>
                 row' \in [Request -> [status : {"none", "started", "ok", "error", "canceled"}, tokens : BOOLEAN]]
<1>1. ASSUME NEW x \in Items, Write(r, <<x>>) PROVE wire' \in [Request -> Seq(Items)]
  <2>1. wire[r] \o <<x>> \in Seq(Items)
    BY OneMore DEF ValuesInv
  <2> QED BY <1>1, <2>1 DEF Write, ValuesInv
<1>2. ASSUME NEW shown \in BOOLEAN, Write(r, Trailer(shown)) PROVE wire' \in [Request -> Seq(Items)]
  <2>1. Trailer(shown) \in Seq(Items)
    <3>1. <<"final", "usage", "done">> \in Seq(Items) /\ <<"final", "done">> \in Seq(Items)
      BY DEF Items
    <3> QED BY <3>1 DEF Trailer
  <2>2. wire[r] \o Trailer(shown) \in Seq(Items)
    BY <2>1, ConcatProperties DEF ValuesInv
  <2> QED BY <1>2, <2>2 DEF Write, ValuesInv
<1>3. ASSUME NEW label \in {"ok", "error"}, Count(r, label) PROVE total' \in [Request -> Seq({"ok", "error"})]
  <2>1. Append(total[r], label) \in Seq({"ok", "error"})
    BY AppendProperties DEF ValuesInv
  <2> QED BY <1>3, <2>1 DEF Count, ValuesInv
<1>4. ASSUME NEW s \in {"ok", "error", "canceled"}, NEW tokens \in BOOLEAN, Finish(r, s, tokens)
      PROVE  row' \in [Request -> [status : {"none", "started", "ok", "error", "canceled"}, tokens : BOOLEAN]]
  BY <1>4 DEF Finish, ValuesInv
<1> QED BY <1>1, <1>2, <1>3, <1>4

\* Each step of a handler keeps the types.
LEMMA ValuesHandler ==
    ASSUME ValuesInv, NEW r \in Request, Handler(r)
    PROVE  ValuesInv'
<1> USE StepTypes DEF ValuesInv, streamVars, appVars, At, Goto, Streaming, Items
<1>1. CASE Accept(r)
  BY <1>1 DEF Accept
<1>2. CASE BodyError(r)
  BY <1>2 DEF BodyError
<1>3. CASE Refuse(r)
  BY <1>3 DEF Refuse
<1>4. CASE WriteRefusal(r)
  BY <1>4 DEF WriteRefusal
<1>5. CASE CallComplete(r)
  BY <1>5 DEF CallComplete
<1>6. CASE CompleteFails(r)
  BY <1>6 DEF CompleteFails
<1>7. CASE Completes(r)
  BY <1>7 DEF Completes
<1>8. CASE WriteAnswer(r)
  BY <1>8 DEF WriteAnswer
<1>9. CASE CallStream(r)
  BY <1>9 DEF CallStream
<1>10. CASE StreamRefused(r)
  BY <1>10 DEF StreamRefused, Delivery!Refuse
<1>11. CASE WriteRejection(r)
  BY <1>11 DEF WriteRejection
<1>12. CASE StreamOpens(r)
  BY <1>12 DEF StreamOpens
<1>13. CASE TakeData(r)
  BY <1>13 DEF TakeData, Delivery!Deliver
<1>14. CASE TakeEnd(r)
  BY <1>14 DEF TakeEnd, Delivery!Deliver
<1>15. CASE TakeError(r)
  BY <1>15 DEF TakeError, Delivery!Deliver
<1>16. CASE TakeBareError(r)
  BY <1>16 DEF TakeBareError, Delivery!Deliver
<1>17. CASE RangeEnds(r)
  BY <1>17 DEF RangeEnds, Delivery!End
<1>18. CASE ConcludeLeft(r)
  BY <1>18 DEF ConcludeLeft
<1>19. CASE ConcludeError(r)
  BY <1>19 DEF ConcludeError
<1>20. CASE ConcludeOk(r)
  <2>1. Write(r, Trailer(usage[r])) /\ UNCHANGED <<usage, streamErr, unsaid, row, total, left, app, late>>
    BY <1>20, Zenon DEF ConcludeOk, Trailer
  <2>2. pc' = [pc EXCEPT ![r] = "recording"] /\ usage[r] \in BOOLEAN
    BY <1>20 DEF ConcludeOk
  <2>3. wire' \in [Request -> Seq(Items)]
    BY <2>1, <2>2
  <2> QED BY <2>1, <2>2, <2>3
<1>21. CASE RecordOk(r)
  BY <1>21 DEF RecordOk
<1>22. CASE Return(r)
  BY <1>22 DEF Return
<1> QED
  BY <1>1, <1>2, <1>3, <1>4, <1>5, <1>6, <1>7, <1>8, <1>9, <1>10, <1>11, <1>12, <1>13, <1>14, <1>15, <1>16, <1>17, <1>18, <1>19, <1>20, <1>21, <1>22 DEF Handler

\* Every step does.
LEMMA ValuesStep == ValuesInv /\ [Next]_vars => ValuesInv'
<1> SUFFICES ASSUME ValuesInv, [Next]_vars PROVE ValuesInv'
  OBVIOUS
<1>1. ASSUME NEW r \in Request, Environment(r) PROVE ValuesInv'
  BY <1>1 DEF ValuesInv, Environment, PluginEmits, ClientLeaves, Delivery!Emit, Delivery!Leave, appVars
<1>2. CASE AppStep
  BY <1>2 DEF ValuesInv, AppStep, Signal, Drained, DrainTimeout, ListenFails, Exit, streamVars
<1>3. CASE UNCHANGED vars
  BY <1>3 DEF ValuesInv, vars
<1> QED
  BY <1>1, <1>2, <1>3, ValuesHandler DEF Next

\* A step of r that leaves r on its side of the gauge leaves the gauge alone.
LEMMA GaugeStays ==
    ASSUME GaugeInv, active' = active, NEW r,
           \A q \in Request \ {r} : pc'[q] = pc[q], pc'[r] \in Streaming <=> pc[r] \in Streaming
    PROVE  GaugeInv'
<1>1. Open' = Open
  BY DEF Open
<1> QED BY <1>1 DEF GaugeInv

\* Each step of a handler keeps the gauge, whose increment and deferred
\* decrement are the first and the last step of handleStream.
LEMMA GaugeHandler ==
    ASSUME ValuesInv, GaugeInv, NEW r \in Request, Handler(r)
    PROVE  GaugeInv'
<1>0. pc \in [Request -> Streaming \cup {"idle", "parsing", "refusing", "completing", "answering", "done"}]
  BY DEF ValuesInv
<1> USE <1>0, GaugeStays DEF At, Goto, Streaming
<1>1. CASE Accept(r)
  BY <1>1 DEF Accept
<1>2. CASE BodyError(r)
  BY <1>2 DEF BodyError
<1>3. CASE Refuse(r)
  BY <1>3 DEF Refuse
<1>4. CASE WriteRefusal(r)
  BY <1>4 DEF WriteRefusal
<1>5. CASE CallComplete(r)
  BY <1>5 DEF CallComplete
<1>6. CASE CompleteFails(r)
  BY <1>6 DEF CompleteFails
<1>7. CASE Completes(r)
  BY <1>7 DEF Completes
<1>8. CASE WriteAnswer(r)
  BY <1>8 DEF WriteAnswer
<1>9. CASE CallStream(r)
  <2>1. r \notin Open /\ active' = active + 1
    BY <1>9 DEF CallStream, Open
  <2>2. Open' = Open \cup {r}
    BY <1>9 DEF CallStream, Open
  <2>3. IsFiniteSet(Open \cup {r}) /\ Cardinality(Open \cup {r}) = Cardinality(Open) + 1
    BY <2>1, FS_AddElement DEF GaugeInv
  <2> QED BY <2>1, <2>2, <2>3 DEF GaugeInv
<1>10. CASE StreamRefused(r)
  BY <1>10 DEF StreamRefused, Delivery!Refuse
<1>11. CASE WriteRejection(r)
  BY <1>11 DEF WriteRejection
<1>12. CASE StreamOpens(r)
  BY <1>12 DEF StreamOpens
<1>13. CASE TakeData(r)
  BY <1>13 DEF TakeData, Delivery!Deliver
<1>14. CASE TakeEnd(r)
  BY <1>14 DEF TakeEnd, Delivery!Deliver
<1>15. CASE TakeError(r)
  BY <1>15 DEF TakeError, Delivery!Deliver
<1>16. CASE TakeBareError(r)
  BY <1>16 DEF TakeBareError, Delivery!Deliver
<1>17. CASE RangeEnds(r)
  BY <1>17 DEF RangeEnds, Delivery!End
<1>18. CASE ConcludeLeft(r)
  BY <1>18 DEF ConcludeLeft
<1>19. CASE ConcludeError(r)
  BY <1>19 DEF ConcludeError
<1>20. CASE ConcludeOk(r)
  BY <1>20 DEF ConcludeOk
<1>21. CASE RecordOk(r)
  BY <1>21 DEF RecordOk
<1>22. CASE Return(r)
  <2>1. r \in Open /\ active' = active - 1
    BY <1>22 DEF Return, Open
  <2>2. Open' = Open \ {r}
    BY <1>22 DEF Return, Open
  <2>3. IsFiniteSet(Open \ {r}) /\ Cardinality(Open \ {r}) = Cardinality(Open) - 1
    BY <2>1, FS_RemoveElement DEF GaugeInv
  <2> QED BY <2>1, <2>2, <2>3 DEF GaugeInv
<1> QED
  BY <1>1, <1>2, <1>3, <1>4, <1>5, <1>6, <1>7, <1>8, <1>9, <1>10, <1>11, <1>12, <1>13, <1>14, <1>15, <1>16, <1>17, <1>18, <1>19, <1>20, <1>21, <1>22 DEF Handler

\* So does every step.
LEMMA GaugeStep == ValuesInv /\ GaugeInv /\ [Next]_vars => GaugeInv'
<1> SUFFICES ASSUME ValuesInv, GaugeInv, [Next]_vars PROVE GaugeInv'
  OBVIOUS
<1>1. ASSUME UNCHANGED <<pc, active>> PROVE GaugeInv'
  BY <1>1 DEF GaugeInv, Open
<1>2. ASSUME NEW r \in Request, Environment(r) PROVE GaugeInv'
  BY <1>1, <1>2 DEF Environment, PluginEmits, ClientLeaves
<1>3. CASE AppStep
  BY <1>1, <1>3 DEF AppStep, Signal, Drained, DrainTimeout, ListenFails, Exit
<1>4. CASE UNCHANGED vars
  BY <1>1, <1>4 DEF vars
<1> QED
  BY <1>2, <1>3, <1>4, GaugeHandler DEF Next

\* Before any stream.
LEMMA GaugeInit == Init => GaugeInv
<1> SUFFICES ASSUME Init PROVE GaugeInv
  OBVIOUS
<1>1. Open = {}
  BY DEF Init, Open, Streaming
<1> QED BY <1>1, FS_EmptySet DEF Init, GaugeInv

\* Every variable keeps its type, and the gauge ActiveStreams counts the streams
\* that are open, on every way out of handleStream and for any number of requests.
THEOREM TypeCorrect == Spec => []TypeOK
<1>1. ValuesInv /\ GaugeInv => TypeOK
  BY DEF ValuesInv, GaugeInv, TypeOK, Open, Items
<1> QED
  BY ValuesInit, ValuesStep, GaugeInit, GaugeStep, <1>1, PTL DEF Spec

-----------------------------------------------------------------------------
(* What the row, the counter and the client are told.                      *)

\* A Finish that came after the store was closed.
Lost(r) == row[r].status = "started" /\ ~StoreOpen

\* The five ways in which a handler returns.
Refused(r) ==
    /\ wire[r] = <<"refusal">> /\ total[r] \in {<<>>, <<"error">>}
    /\ row[r].status \in {"none", "error"} \/ Lost(r)

\* A completion that succeeded.
Answered(r) ==
    /\ wire[r] = <<"answer">> /\ total[r] = <<"ok">>
    /\ row[r].status = "ok" \/ Lost(r)

\* A stream whose client has left.
Abandoned(r) ==
    /\ Body(wire[r]) /\ left[r] /\ total[r] = <<>>
    /\ \/ row[r].status = "canceled" \/ Lost(r)
       \/ row[r].status = "error" /\ Has(wire[r], "error")

\* A stream that ended after an error event.
Broken(r) ==
    /\ Failing(wire[r]) /\ streamErr[r] /\ total[r] = <<"error">>
    /\ \/ row[r].status = "error" /\ Has(wire[r], "error")
       \/ row[r].status = "started" /\ (unsaid[r] \/ ~StoreOpen)

\* A stream that came to its end.
Finished(r) ==
    /\ Finishing(wire[r], usage[r]) /\ total[r] = <<"ok">>
    /\ (row[r].status = "ok" /\ row[r].tokens = usage[r]) \/ Lost(r)

\* How far the three have come at each point of a handler.
Tells(r) ==
    /\ pc[r] \in {"idle", "parsing", "completing", "opening"} => wire[r] = <<>> /\ total[r] = <<>>
    /\ pc[r] = "refusing" =>
        /\ wire[r] = <<>> /\ total[r] \in {<<>>, <<"error">>}
        /\ row[r].status = "error" \/ Lost(r)
    /\ pc[r] = "rejecting" =>
        /\ wire[r] = <<>> /\ total[r] = <<"error">>
        /\ row[r].status = "error" \/ Lost(r)
    /\ pc[r] = "answering" =>
        /\ wire[r] = <<>> /\ total[r] = <<"ok">>
        /\ row[r].status = "ok" \/ Lost(r)
    /\ pc[r] \in {"ranging", "ended"} =>
        /\ Body(wire[r]) /\ total[r] = <<>>
        /\ Has(wire[r], "error") => streamErr[r]
        /\ row[r].status = "error" => Has(wire[r], "error")
        /\ row[r].status = "started" /\ streamErr[r] => unsaid[r] \/ ~StoreOpen
    /\ pc[r] = "recording" => Finishing(wire[r], usage[r]) /\ total[r] = <<>>
    /\ pc[r] \in {"returning", "done"} =>
        Refused(r) \/ Answered(r) \/ Abandoned(r) \/ Broken(r) \/ Finished(r)

\* So it is for every request.
TellInv == \A r \in Request : Tells(r)

\* What another request's step leaves alone.
Same(r) ==
    /\ pc'[r] = pc[r] /\ wire'[r] = wire[r] /\ usage'[r] = usage[r] /\ streamErr'[r] = streamErr[r]
    /\ unsaid'[r] = unsaid[r] /\ row'[r] = row[r] /\ total'[r] = total[r]
    /\ left[r] => left'[r]

\* It also leaves what r tells, and closing the store does.
LEMMA SameTells ==
    ASSUME NEW r, Tells(r), Same(r), StoreOpen' => StoreOpen
    PROVE  Tells(r)'
BY DEF Tells, Same, Lost, Refused, Answered, Abandoned, Broken, Finished

\* The steps of one handler are none of another's.
LEMMA OthersSame ==
    ASSUME ValuesInv, NEW r \in Request, Handler(r)
    PROVE  /\ \A q \in Request \ {r} : Same(q)
           /\ StoreOpen' <=> StoreOpen
<1> USE DEF ValuesInv, Same, StoreOpen, streamVars, appVars, Goto, Write, Count, Finish
<1>1. CASE Accept(r)
  BY <1>1 DEF Accept
<1>2. CASE BodyError(r)
  BY <1>2 DEF BodyError
<1>3. CASE Refuse(r)
  BY <1>3 DEF Refuse
<1>4. CASE WriteRefusal(r)
  BY <1>4 DEF WriteRefusal
<1>5. CASE CallComplete(r)
  BY <1>5 DEF CallComplete
<1>6. CASE CompleteFails(r)
  BY <1>6 DEF CompleteFails
<1>7. CASE Completes(r)
  BY <1>7 DEF Completes
<1>8. CASE WriteAnswer(r)
  BY <1>8 DEF WriteAnswer
<1>9. CASE CallStream(r)
  BY <1>9 DEF CallStream
<1>10. CASE StreamRefused(r)
  BY <1>10 DEF StreamRefused, Delivery!Refuse
<1>11. CASE WriteRejection(r)
  BY <1>11 DEF WriteRejection
<1>12. CASE StreamOpens(r)
  BY <1>12 DEF StreamOpens
<1>13. CASE TakeData(r)
  BY <1>13 DEF TakeData, Delivery!Deliver
<1>14. CASE TakeEnd(r)
  BY <1>14 DEF TakeEnd, Delivery!Deliver
<1>15. CASE TakeError(r)
  BY <1>15 DEF TakeError, Delivery!Deliver
<1>16. CASE TakeBareError(r)
  BY <1>16 DEF TakeBareError, Delivery!Deliver
<1>17. CASE RangeEnds(r)
  BY <1>17 DEF RangeEnds, Delivery!End
<1>18. CASE ConcludeLeft(r)
  BY <1>18 DEF ConcludeLeft
<1>19. CASE ConcludeError(r)
  BY <1>19 DEF ConcludeError
<1>20. CASE ConcludeOk(r)
  BY <1>20 DEF ConcludeOk
<1>21. CASE RecordOk(r)
  BY <1>21 DEF RecordOk
<1>22. CASE Return(r)
  BY <1>22 DEF Return
<1> QED
  BY <1>1, <1>2, <1>3, <1>4, <1>5, <1>6, <1>7, <1>8, <1>9, <1>10, <1>11, <1>12, <1>13, <1>14, <1>15, <1>16, <1>17, <1>18, <1>19, <1>20, <1>21, <1>22 DEF Handler

\* Each step of a handler goes from one line of Tells to the next.
LEMMA TellsHandler ==
    ASSUME ValuesInv, RowInv, NEW r \in Request, Tells(r), Handler(r)
    PROVE  Tells(r)'
<1>0. /\ StoreOpen' <=> StoreOpen
      /\ wire[r] \in Seq(Items) /\ usage[r] \in BOOLEAN /\ left[r] \in BOOLEAN /\ streamErr[r] \in BOOLEAN
  BY OthersSame DEF ValuesInv
<1> USE <1>0 DEF ValuesInv, At, Goto, streamVars, appVars
<1>1. CASE Accept(r)
  <2>1. /\ pc[r] = "idle"
        /\ pc'[r] = "parsing"
        /\ wire'[r] = wire[r] /\ total'[r] = total[r]
    BY <1>1 DEF Accept
  <2> QED BY <2>1 DEF Tells
<1>2. CASE BodyError(r)
  <2>1. /\ pc[r] = "idle"
        /\ pc'[r] = "done"
        /\ wire'[r] = wire[r] \o <<"refusal">>
        /\ row'[r] = row[r] /\ total'[r] = total[r]
    BY <1>2 DEF BodyError, Write
  <2>2. row[r].status = "none"
    BY <2>1 DEF RowInv
  <2>3. wire'[r] = <<"refusal">> /\ total[r] = <<>>
    BY <2>1, FirstItem DEF Tells, Items
  <2> QED BY <2>1, <2>2, <2>3 DEF Tells, Refused
<1>3. CASE Refuse(r)
  <2>1. /\ pc[r] = "parsing"
        /\ pc'[r] = "refusing"
        /\ row'[r] = IF StoreOpen THEN [status |-> "error", tokens |-> FALSE] ELSE row[r]
        /\ wire'[r] = wire[r] /\ total'[r] = total[r]
    BY <1>3 DEF Refuse, Finish
  <2>2. row[r].status = "started"
    BY <2>1 DEF RowInv
  <2> QED BY <2>1, <2>2 DEF Tells, Lost
<1>4. CASE WriteRefusal(r)
  <2>1. /\ pc[r] = "refusing"
        /\ pc'[r] = "done"
        /\ wire'[r] = wire[r] \o <<"refusal">>
        /\ row'[r] = row[r] /\ total'[r] = total[r]
    BY <1>4 DEF WriteRefusal, Write
  <2>2. wire'[r] = <<"refusal">>
    BY <2>1, FirstItem DEF Tells, Items
  <2> QED BY <2>1, <2>2 DEF Tells, Lost, Refused
<1>5. CASE CallComplete(r)
  <2>1. /\ pc[r] = "parsing"
        /\ pc'[r] = "completing"
        /\ wire'[r] = wire[r] /\ total'[r] = total[r]
    BY <1>5 DEF CallComplete
  <2> QED BY <2>1 DEF Tells
<1>6. CASE CompleteFails(r)
  <2>1. /\ pc[r] = "completing"
        /\ pc'[r] = "refusing"
        /\ total'[r] = Append(total[r], "error")
        /\ row'[r] = IF StoreOpen THEN [status |-> "error", tokens |-> FALSE] ELSE row[r]
        /\ wire'[r] = wire[r]
    BY <1>6 DEF CompleteFails, Count, Finish
  <2>2. row[r].status = "started"
    BY <2>1 DEF RowInv
  <2>3. total'[r] = <<"error">>
    BY <2>1 DEF Tells
  <2> QED BY <2>1, <2>2, <2>3 DEF Tells, Lost
<1>7. CASE Completes(r)
  <2>1. /\ pc[r] = "completing"
        /\ pc'[r] = "answering"
        /\ total'[r] = Append(total[r], "ok")
        /\ \E tokens \in BOOLEAN : row'[r] = IF StoreOpen THEN [status |-> "ok", tokens |-> tokens] ELSE row[r]
        /\ wire'[r] = wire[r]
    BY <1>7 DEF Completes, Count, Finish
  <2>2. row[r].status = "started"
    BY <2>1 DEF RowInv
  <2>3. total'[r] = <<"ok">>
    BY <2>1 DEF Tells
  <2> QED BY <2>1, <2>2, <2>3 DEF Tells, Lost
<1>8. CASE WriteAnswer(r)
  <2>1. /\ pc[r] = "answering"
        /\ pc'[r] = "done"
        /\ wire'[r] = wire[r] \o <<"answer">>
        /\ row'[r] = row[r] /\ total'[r] = total[r]
    BY <1>8 DEF WriteAnswer, Write
  <2>2. wire'[r] = <<"answer">>
    BY <2>1, FirstItem DEF Tells, Items
  <2> QED BY <2>1, <2>2 DEF Tells, Lost, Answered
<1>9. CASE CallStream(r)
  <2>1. /\ pc[r] = "parsing"
        /\ pc'[r] = "opening"
        /\ wire'[r] = wire[r] /\ total'[r] = total[r]
    BY <1>9 DEF CallStream
  <2> QED BY <2>1 DEF Tells
<1>10. CASE StreamRefused(r)
  <2>1. /\ pc[r] = "opening"
        /\ pc'[r] = "rejecting"
        /\ total'[r] = Append(total[r], "error")
        /\ row'[r] = IF StoreOpen THEN [status |-> "error", tokens |-> FALSE] ELSE row[r]
        /\ wire'[r] = wire[r]
    BY <1>10 DEF StreamRefused, Delivery!Refuse, Count, Finish
  <2>2. row[r].status = "started"
    BY <2>1 DEF RowInv
  <2>3. total'[r] = <<"error">>
    BY <2>1 DEF Tells
  <2> QED BY <2>1, <2>2, <2>3 DEF Tells, Lost
<1>11. CASE WriteRejection(r)
  <2>1. /\ pc[r] = "rejecting"
        /\ pc'[r] = "returning"
        /\ wire'[r] = wire[r] \o <<"refusal">>
        /\ row'[r] = row[r] /\ total'[r] = total[r]
    BY <1>11 DEF WriteRejection, Write
  <2>2. wire'[r] = <<"refusal">>
    BY <2>1, FirstItem DEF Tells, Items
  <2> QED BY <2>1, <2>2 DEF Tells, Lost, Refused
<1>12. CASE StreamOpens(r)
  <2>1. /\ pc[r] = "opening"
        /\ pc'[r] = "ranging"
        /\ wire'[r] = wire[r] \o <<"header">>
        /\ row'[r] = row[r] /\ total'[r] = total[r] /\ streamErr'[r] = streamErr[r]
    BY <1>12 DEF StreamOpens, Write
  <2>2. row[r].status = "started" /\ ~streamErr[r]
    BY <2>1 DEF RowInv
  <2>3. wire'[r] = <<"header">>
    BY <2>1, FirstItem DEF Tells, Items
  <2>4. Body(wire'[r]) /\ ~Has(wire'[r], "error")
    BY <2>3, FirstItem DEF Items
  <2> QED BY <2>1, <2>2, <2>4 DEF Tells
<1>13. CASE TakeData(r)
  <2>1. /\ pc[r] = "ranging"
        /\ pc'[r] = "ranging"
        /\ wire'[r] = wire[r] \o <<"chunk">> \/ wire'[r] = wire[r]
        /\ row'[r] = row[r] /\ total'[r] = total[r] /\ streamErr'[r] = streamErr[r] /\ unsaid'[r] = unsaid[r]
    BY <1>13 DEF TakeData, Delivery!Deliver, Write
  <2>2. Body(wire'[r]) /\ (Has(wire'[r], "error") <=> Has(wire[r], "error"))
    <3>1. Body(wire[r]) /\ wire[r] \in Seq(Items)
      BY <2>1 DEF Tells
    <3>2. CASE wire'[r] = wire[r] \o <<"chunk">>
      <4>1. Body(wire[r] \o <<"chunk">>)
        BY <3>1, BodyGrows
      <4>2. Has(wire[r] \o <<"chunk">>, "error") <=> Has(wire[r], "error")
        BY <3>1, OneMore DEF Items
      <4> QED BY <3>2, <4>1, <4>2
    <3> QED BY <2>1, <3>1, <3>2
  <2> QED BY <2>1, <2>2 DEF Tells
<1>14. CASE TakeEnd(r)
  <2>1. /\ pc[r] = "ranging"
        /\ pc'[r] = "ranging"
        /\ wire'[r] = wire[r] /\ row'[r] = row[r] /\ total'[r] = total[r] /\ streamErr'[r] = streamErr[r] /\ unsaid'[r] = unsaid[r]
    BY <1>14 DEF TakeEnd, Delivery!Deliver
  <2> QED BY <2>1 DEF Tells
<1>15. CASE TakeError(r)
  <2>1. /\ pc[r] = "ranging"
        /\ pc'[r] = "ranging"
        /\ wire'[r] = wire[r] \o <<"error">>
        /\ streamErr'[r] = TRUE
        /\ row'[r] = IF StoreOpen THEN [status |-> "error", tokens |-> FALSE] ELSE row[r]
        /\ total'[r] = total[r] /\ unsaid'[r] = unsaid[r]
    BY <1>15 DEF TakeError, Delivery!Deliver, Write, Finish
  <2>2. Body(wire'[r]) /\ Has(wire'[r], "error")
    BY <2>1, BodyGrows, OneMore DEF Tells, Items
  <2> QED BY <2>1, <2>2 DEF Tells
<1>16. CASE TakeBareError(r)
  <2>1. /\ pc[r] = "ranging"
        /\ pc'[r] = "ranging"
        /\ wire'[r] = wire[r] /\ row'[r] = row[r] /\ total'[r] = total[r]
        /\ streamErr'[r] = TRUE
        /\ unsaid'[r] = TRUE
    BY <1>16 DEF TakeBareError, Delivery!Deliver
  <2> QED BY <2>1 DEF Tells
<1>17. CASE RangeEnds(r)
  <2>1. /\ pc[r] = "ranging"
        /\ pc'[r] = "ended"
        /\ wire'[r] = wire[r] /\ row'[r] = row[r] /\ total'[r] = total[r] /\ streamErr'[r] = streamErr[r] /\ unsaid'[r] = unsaid[r]
    BY <1>17 DEF RangeEnds, Delivery!End
  <2> QED BY <2>1 DEF Tells
<1>18. CASE ConcludeLeft(r)
  <2>1. /\ pc[r] = "ended"
        /\ pc'[r] = "returning"
        /\ row'[r] = IF StoreOpen THEN [status |-> "canceled", tokens |-> FALSE] ELSE row[r]
        /\ wire'[r] = wire[r] /\ total'[r] = total[r] /\ left'[r] = left[r]
        /\ left[r]
    BY <1>18 DEF ConcludeLeft, Finish
  <2>2. row[r].status \in {"started", "error"}
    BY <2>1 DEF RowInv, Failed
  <2>3. Abandoned(r)'
    BY <2>1, <2>2 DEF Tells, Abandoned, Lost
  <2> QED BY <2>1, <2>3 DEF Tells
<1>19. CASE ConcludeError(r)
  <2>1. /\ pc[r] = "ended"
        /\ pc'[r] = "returning"
        /\ wire'[r] = wire[r] \o <<"done">>
        /\ total'[r] = Append(total[r], "error")
        /\ row'[r] = row[r] /\ streamErr'[r] = streamErr[r] /\ unsaid'[r] = unsaid[r]
        /\ streamErr[r]
    BY <1>19 DEF ConcludeError, Write, Count
  <2>2. row[r].status \in {"started", "error"}
    BY <2>1 DEF RowInv, Failed
  <2>3. Failing(wire'[r]) /\ (Has(wire'[r], "error") <=> Has(wire[r], "error")) /\ total'[r] = <<"error">>
    BY <2>1, BodyFails, OneMore DEF Tells, Items
  <2>4. Broken(r)'
    BY <2>1, <2>2, <2>3 DEF Tells, Broken
  <2> QED BY <2>1, <2>4 DEF Tells
<1>20. CASE ConcludeOk(r)
  <2>1. /\ pc[r] = "ended" /\ pc'[r] = "recording" /\ ~streamErr[r]
        /\ total'[r] = total[r] /\ usage'[r] = usage[r]
    BY <1>20 DEF ConcludeOk
  <2>2. wire'[r] = wire[r] \o Trailer(usage[r])
    BY <1>20 DEF ConcludeOk, Write, Trailer
  <2>3. Finishing(wire'[r], usage[r])
    BY <2>1, <2>2, BodyFinishes DEF Tells
  <2> QED BY <2>1, <2>3 DEF Tells
<1>21. CASE RecordOk(r)
  <2>1. /\ pc[r] = "recording"
        /\ pc'[r] = "returning"
        /\ total'[r] = Append(total[r], "ok")
        /\ row'[r] = IF StoreOpen THEN [status |-> "ok", tokens |-> usage[r]] ELSE row[r]
        /\ wire'[r] = wire[r] /\ usage'[r] = usage[r]
    BY <1>21 DEF RecordOk, Count, Finish
  <2>2. row[r].status = "started"
    BY <2>1 DEF RowInv
  <2>3. total'[r] = <<"ok">>
    BY <2>1 DEF Tells
  <2>4. Finished(r)'
    BY <2>1, <2>2, <2>3 DEF Tells, Finished, Lost
  <2> QED BY <2>1, <2>4 DEF Tells
<1>22. CASE Return(r)
  <2>1. /\ pc[r] = "returning"
        /\ pc'[r] = "done"
        /\ wire'[r] = wire[r] /\ usage'[r] = usage[r] /\ streamErr'[r] = streamErr[r] /\ unsaid'[r] = unsaid[r] /\ row'[r] = row[r] /\ total'[r] = total[r] /\ left'[r] = left[r]
    BY <1>22 DEF Return
  <2>2. Tells(r) /\ (StoreOpen' <=> StoreOpen)
    OBVIOUS
  <2> QED BY <2>1, <2>2 DEF Tells, Lost, Refused, Answered, Abandoned, Broken, Finished
<1> QED
  BY <1>1, <1>2, <1>3, <1>4, <1>5, <1>6, <1>7, <1>8, <1>9, <1>10, <1>11, <1>12, <1>13, <1>14, <1>15, <1>16, <1>17, <1>18, <1>19, <1>20, <1>21, <1>22 DEF Handler

\* Before any request.
LEMMA TellInit == Init => TellInv
BY DEF Init, TellInv, Tells

\* Every step keeps it: a handler's by the above, any other changes no more than
\* that a client has left or that the store is closed.
LEMMA TellStep == ValuesInv /\ RowInv /\ TellInv /\ [Next]_vars => TellInv'
<1> SUFFICES ASSUME ValuesInv, RowInv, TellInv, [Next]_vars PROVE TellInv'
  OBVIOUS
<1>1. ASSUME NEW r \in Request, Handler(r) PROVE TellInv'
  BY <1>1, OthersSame, SameTells, TellsHandler DEF TellInv
<1>2. ASSUME \A q \in Request : Same(q), StoreOpen' => StoreOpen PROVE TellInv'
  BY <1>2, SameTells DEF TellInv
<1>3. ASSUME NEW r \in Request, Environment(r) PROVE TellInv'
  <2>1. (\A q \in Request : Same(q)) /\ (StoreOpen' => StoreOpen)
    BY <1>3 DEF ValuesInv, Same, StoreOpen, appVars, Environment, PluginEmits, ClientLeaves,
                Delivery!Emit, Delivery!Leave
  <2> QED BY <1>2, <2>1
<1>4. CASE AppStep
  <2>1. (\A q \in Request : Same(q)) /\ (StoreOpen' => StoreOpen)
    BY <1>4 DEF Same, StoreOpen, streamVars, AppStep, Signal, Drained, DrainTimeout, ListenFails, Exit
  <2> QED BY <1>2, <2>1
<1>5. CASE UNCHANGED vars
  <2>1. (\A q \in Request : Same(q)) /\ (StoreOpen' => StoreOpen)
    BY <1>5 DEF Same, StoreOpen, vars
  <2> QED BY <1>2, <2>1
<1> QED
  BY <1>1, <1>3, <1>4, <1>5 DEF Next

\* Whatever has been written so far is well formed.
LEMMA TellsFormed ==
    ASSUME ValuesInv, NEW r \in Request, Tells(r)
    PROVE  WellFormed(wire[r])
<1>1. wire[r] \in Seq(Items) /\ usage[r] \in BOOLEAN
  BY DEF ValuesInv
<1>2. pc[r] \in Streaming \cup {"idle", "parsing", "refusing", "completing", "answering", "done"}
  BY DEF ValuesInv
<1>3. \/ wire[r] = <<>> \/ wire[r] = <<"refusal">> \/ wire[r] = <<"answer">>
      \/ Body(wire[r]) \/ Failing(wire[r]) \/ Finishing(wire[r], usage[r])
  BY <1>2 DEF Tells, Streaming, Refused, Answered, Abandoned, Broken, Finished
<1>4. CASE wire[r] = <<>>
  BY <1>4 DEF WellFormed, Has
<1> QED BY <1>1, <1>3, <1>4, FirstItem, BodyFormed, FailingFormed, FinishingFormed DEF Items

\* Whatever events reach the loop and in whatever order, for any number of
\* requests: what a client is sent is one document or one stream in proper shape,
\* and no stream both fails and finishes.
THEOREM AnswersFormed == Spec => []SseShape
<1>1. ValuesInv /\ TellInv => SseShape
  <2> SUFFICES ASSUME ValuesInv, TellInv PROVE SseShape
    OBVIOUS
  <2>1. \A r \in Request : WellFormed(wire[r])
    BY TellsFormed DEF TellInv
  <2> QED BY <2>1 DEF SseShape, WellFormed, Has, Wrote
<1> QED
  BY ValuesInit, ValuesStep, RowInit, RowStep, TellInit, TellStep, <1>1, PTL DEF Spec

\* The counts and rows that a case of RowTellsClient tells apart.
LEMMA CountsApart == <<"ok">> # <<"error">> /\ <<"ok">> # <<>> /\ <<"error">> # <<>>
OBVIOUS

\* The row and the counter of a handler that has returned agree with the client.
LEMMA ReturnedTells ==
    ASSUME ValuesInv, NEW r \in Request, Tells(r), pc[r] = "done"
    PROVE  /\ row[r].status \in {"none", "started", "ok", "error", "canceled"}
           /\ row[r].status = "ok" =>
                  /\ Has(wire[r], "answer") \/ (Has(wire[r], "final") /\ Has(wire[r], "done"))
                  /\ Has(wire[r], "header") => row[r].tokens = Has(wire[r], "usage")
           /\ row[r].status = "error" => Has(wire[r], "refusal") \/ Has(wire[r], "error")
           /\ row[r].status = "canceled" => left[r] /\ ~Has(wire[r], "done")
           /\ row[r].status = "started" => unsaid[r] \/ ~StoreOpen
           /\ row[r].status = "none" => wire[r] = <<"refusal">>
           /\ \/ total[r] = <<"ok">> /\ (Has(wire[r], "answer") \/ Has(wire[r], "final"))
              \/ /\ total[r] = <<"error">>
                 /\ Has(wire[r], "refusal") \/ (streamErr[r] /\ Has(wire[r], "done"))
              \/ total[r] = <<>> /\ (wire[r] = <<"refusal">> \/ left[r])
<1>1. /\ wire[r] \in Seq(Items) /\ usage[r] \in BOOLEAN
      /\ row[r] \in [status : {"none", "started", "ok", "error", "canceled"}, tokens : BOOLEAN]
  BY DEF ValuesInv
<1>2. Refused(r) \/ Answered(r) \/ Abandoned(r) \/ Broken(r) \/ Finished(r)
  BY DEF Tells
<1>3. CASE Refused(r)
  <2>1. wire[r] = <<"refusal">> /\ Has(wire[r], "refusal")
    BY <1>3, FirstItem DEF Refused, Items
  <2> QED BY <1>1, <1>3, <2>1 DEF Refused, Lost
<1>4. CASE Answered(r)
  <2>1. Has(wire[r], "answer") /\ ~Has(wire[r], "header")
    BY <1>4, FirstItem DEF Answered, Items
  <2> QED BY <1>1, <1>4, <2>1 DEF Answered, Lost
<1>5. CASE Abandoned(r)
  <2>1. ~Has(wire[r], "done")
    BY <1>1, <1>5, BodyFormed DEF Abandoned
  <2> QED BY <1>1, <1>5, <2>1 DEF Abandoned, Lost
<1>6. CASE Broken(r)
  <2>1. Has(wire[r], "done")
    BY <1>1, <1>6, FailingFormed DEF Broken
  <2> QED BY <1>1, <1>6, <2>1 DEF Broken
<1>7. CASE Finished(r)
  <2>1. Has(wire[r], "done") /\ Has(wire[r], "final") /\ (Has(wire[r], "usage") <=> usage[r])
    BY <1>1, <1>7, FinishingFormed DEF Finished
  <2>2. Has(wire[r], "usage") \in BOOLEAN
    BY DEF Has
  <2>3. Has(wire[r], "usage") = usage[r]
    BY <1>1, <2>1, <2>2, Zenon
  <2>4. row[r].status = "ok" => row[r].tokens = Has(wire[r], "usage")
    <3>1. row[r].status = "ok" => row[r].tokens = usage[r]
      BY <1>7 DEF Finished, Lost
    <3> QED BY <2>3, <3>1, Zenon
  <2> QED BY <1>1, <1>7, <2>1, <2>4 DEF Finished, Lost
<1> QED BY <1>2, <1>3, <1>4, <1>5, <1>6, <1>7

\* However a handler returns, for any number of requests and wherever the program
\* is in its shutdown: the stored row and the counter say what the client saw.
THEOREM RowsTell == Spec => []RowTellsClient
<1>1. ValuesInv /\ TellInv => RowTellsClient
  <2> SUFFICES ASSUME ValuesInv, TellInv, NEW r \in Request, pc[r] = "done"
               PROVE  /\ CASE row[r].status = "ok" ->
                                /\ Wrote(r, "answer") \/ (Wrote(r, "final") /\ Wrote(r, "done"))
                                /\ Wrote(r, "header") => row[r].tokens = Wrote(r, "usage")
                           [] row[r].status = "error"    -> Wrote(r, "refusal") \/ Wrote(r, "error")
                           [] row[r].status = "canceled" -> left[r] /\ ~Wrote(r, "done")
                           [] row[r].status = "started"  -> unsaid[r] \/ ~StoreOpen
                           [] row[r].status = "none"     -> wire[r] = <<"refusal">>
                      /\ CASE total[r] = <<"ok">>    -> Wrote(r, "answer") \/ Wrote(r, "final")
                           [] total[r] = <<"error">> -> Wrote(r, "refusal") \/ (streamErr[r] /\ Wrote(r, "done"))
                           [] total[r] = <<>>        -> wire[r] = <<"refusal">> \/ left[r]
                           [] OTHER                  -> FALSE
    BY DEF RowTellsClient
  <2>1. Tells(r)
    BY DEF TellInv
  <2>2. /\ row[r].status \in {"none", "started", "ok", "error", "canceled"}
        /\ row[r].status = "ok" =>
               /\ Wrote(r, "answer") \/ (Wrote(r, "final") /\ Wrote(r, "done"))
               /\ Wrote(r, "header") => row[r].tokens = Wrote(r, "usage")
        /\ row[r].status = "error" => Wrote(r, "refusal") \/ Wrote(r, "error")
        /\ row[r].status = "canceled" => left[r] /\ ~Wrote(r, "done")
        /\ row[r].status = "started" => unsaid[r] \/ ~StoreOpen
        /\ row[r].status = "none" => wire[r] = <<"refusal">>
    BY <2>1, ReturnedTells DEF Wrote, Has
  <2>3. \/ total[r] = <<"ok">> /\ (Wrote(r, "answer") \/ Wrote(r, "final"))
        \/ /\ total[r] = <<"error">>
           /\ Wrote(r, "refusal") \/ (streamErr[r] /\ Wrote(r, "done"))
        \/ total[r] = <<>> /\ (wire[r] = <<"refusal">> \/ left[r])
    BY <2>1, ReturnedTells DEF Wrote, Has
  <2>4. (CASE row[r].status = "ok" ->
               /\ Wrote(r, "answer") \/ (Wrote(r, "final") /\ Wrote(r, "done"))
               /\ Wrote(r, "header") => row[r].tokens = Wrote(r, "usage")
          [] row[r].status = "error"    -> Wrote(r, "refusal") \/ Wrote(r, "error")
          [] row[r].status = "canceled" -> left[r] /\ ~Wrote(r, "done")
          [] row[r].status = "started"  -> unsaid[r] \/ ~StoreOpen
          [] row[r].status = "none"     -> wire[r] = <<"refusal">>)
    BY <2>2
  <2>5. (CASE total[r] = <<"ok">>    -> Wrote(r, "answer") \/ Wrote(r, "final")
          [] total[r] = <<"error">> -> Wrote(r, "refusal") \/ (streamErr[r] /\ Wrote(r, "done"))
          [] total[r] = <<>>        -> wire[r] = <<"refusal">> \/ left[r]
          [] OTHER                  -> FALSE)
    BY <2>3, CountsApart
  <2> QED BY <2>4, <2>5, Zenon
<1> QED
  BY ValuesInit, ValuesStep, RowInit, RowStep, TellInit, TellStep, <1>1, PTL DEF Spec

-----------------------------------------------------------------------------
(* A stream recorded as ok is complete.                                    *)

\* The events a handler has received.
Got(r) == {got[r][i] : i \in DOMAIN got[r]}

\* The stream came to a terminal event, and no error was seen.
EndedWell(r) ==
    /\ ~streamErr[r]
    /\ r \notin Lossy => \E n \in Got(r) : sent[r][n] # "data"

\* Events come without a gap unless the plugin failed; errors are remembered; and
\* what is announced as finished has come to its end.
Complete(r) ==
    /\ sent[r] \in Seq({"data", "error", "end"}) /\ got[r] \in Seq(Nat)
    /\ \A n \in Got(r) :
        /\ n <= Len(sent[r])
        /\ r \notin Lossy => n >= 1 /\ 1 .. n \subseteq Got(r)
        /\ n # 0 /\ sent[r][n] = "error" => streamErr[r]
    /\ pc[r] = "ended" /\ ~left[r] /\ r \notin Lossy => \E n \in Got(r) : sent[r][n] # "data"
    /\ pc[r] = "recording" => EndedWell(r)
    /\ pc[r] \in {"returning", "done"} /\ total[r] = <<"ok">> /\ Has(wire[r], "header") => EndedWell(r)

\* So it is for every request.
CompleteInv ==
    /\ DOMAIN sent = Request /\ DOMAIN got = Request
    /\ \A r \in Request : Complete(r)

\* Before any request.
LEMMA CompleteInit == Init => CompleteInv
<1> SUFFICES ASSUME Init PROVE CompleteInv
  OBVIOUS
<1>1. /\ DOMAIN sent = Request /\ DOMAIN got = Request
      /\ \A r \in Request : sent[r] = <<>> /\ got[r] = <<>> /\ pc[r] = "idle"
  BY DEF Init, Delivery!Init
<1>2. \A r \in Request : Got(r) = {}
  BY <1>1 DEF Got
<1>3. <<>> \in Seq({"data", "error", "end"}) /\ <<>> \in Seq(Nat)
  OBVIOUS
<1>4. ASSUME NEW r \in Request PROVE Complete(r)
  BY <1>1, <1>2, <1>3 DEF Complete
<1> QED BY <1>1, <1>4 DEF CompleteInv

\* What a receive adds.
LEMMA DeliverAdds ==
    ASSUME ValuesInv, CompleteInv, NEW r \in Request, Delivery!Deliver(r)
    PROVE  \E n \in Nat :
             /\ got'[r] \in Seq(Nat) /\ Got(r)' = Got(r) \cup {n} /\ n <= Len(sent[r])
             /\ LastKind(r) = (IF n = 0 THEN "error" ELSE sent[r][n])
             /\ r \notin Lossy => n >= 1 /\ 1 .. n \subseteq Got(r) \cup {n}
<1> DEFINE later == {k \in DOMAIN sent[r] : \A m \in Delivery!Delivered(r) : m < k}
<1>1. Delivery!Delivered(r) = Got(r)
  BY DEF Delivery!Delivered, Got
<1>2. PICK n \in Delivery!Deliverable(r) : got' = [got EXCEPT ![r] = Append(@, n)]
  BY DEF Delivery!Deliver
<1>3. /\ sent[r] \in Seq({"data", "error", "end"}) /\ got[r] \in Seq(Nat) /\ Len(sent[r]) \in Nat
      /\ DOMAIN sent[r] = 1 .. Len(sent[r]) /\ Got(r) \subseteq Nat
  <2>1. sent[r] \in Seq({"data", "error", "end"}) /\ got[r] \in Seq(Nat)
    BY DEF CompleteInv, Complete
  <2>2. Got(r) \subseteq Nat
    BY <2>1, LenProperties DEF Got
  <2> QED BY <2>1, <2>2, LenProperties
<1>4. n \in Nat /\ n <= Len(sent[r]) /\ (r \notin Lossy => n \in later /\ \A m \in later : n <= m)
  <2>1. CASE r \in Lossy
    BY <1>2, <1>3, <2>1 DEF Delivery!Deliverable
  <2>2. CASE r \notin Lossy
    BY <1>2, <1>3, <2>2 DEF Delivery!Deliverable
  <2> QED BY <2>1, <2>2
<1>5. got'[r] = Append(got[r], n)
  BY <1>2 DEF CompleteInv
<1>6. /\ got'[r] \in Seq(Nat) /\ Len(got'[r]) = Len(got[r]) + 1 /\ Len(got[r]) \in Nat
      /\ DOMAIN got[r] = 1 .. Len(got[r]) /\ DOMAIN got'[r] = 1 .. Len(got[r]) + 1
      /\ got'[r][Len(got[r]) + 1] = n /\ \A i \in 1 .. Len(got[r]) : got'[r][i] = got[r][i]
  BY <1>3, <1>4, <1>5, AppendProperties, LenProperties
<1>7. Got(r)' = Got(r) \cup {n}
  <2>1. ASSUME NEW i \in DOMAIN got'[r] PROVE got'[r][i] \in Got(r) \cup {n}
    <3>1. i \in 1 .. Len(got[r]) \/ i = Len(got[r]) + 1
      BY <1>6, <2>1
    <3> QED BY <1>6, <3>1 DEF Got
  <2>2. ASSUME NEW i \in DOMAIN got[r] PROVE got[r][i] \in Got(r)'
    <3>1. i \in DOMAIN got'[r] /\ got'[r][i] = got[r][i]
      BY <1>6, <2>2
    <3> QED BY <3>1 DEF Got
  <2>3. n \in Got(r)'
    <3>1. Len(got[r]) + 1 \in DOMAIN got'[r]
      BY <1>6
    <3> QED BY <1>6, <3>1 DEF Got
  <2> QED BY <2>1, <2>2, <2>3 DEF Got
<1>8. LastKind(r) = (IF n = 0 THEN "error" ELSE sent[r][n])
  BY <1>6 DEF LastKind
<1>9. ASSUME r \notin Lossy PROVE n >= 1 /\ 1 .. n \subseteq Got(r) \cup {n}
  <2>1. n >= 1
    BY <1>3, <1>4, <1>9
  <2>2. ASSUME NEW m \in 1 .. n, m # n PROVE m \in Got(r)
    <3>0. m \in 1 .. Len(sent[r]) /\ ~(n <= m)
      BY <1>3, <1>4, <2>2
    <3>1. m \in DOMAIN sent[r] /\ m \notin later
      <4> HIDE DEF later
      <4> QED BY <1>3, <1>4, <1>9, <3>0
    <3>2. PICK k \in Got(r) : ~(k < m)
      BY <1>1, <3>1
    <3>3. 1 .. k \subseteq Got(r) /\ k \in Nat
      BY <1>3, <1>9, <3>2 DEF CompleteInv, Complete
    <3> QED BY <1>4, <3>2, <3>3
  <2> QED BY <2>1, <2>2
<1> QED BY <1>4, <1>6, <1>7, <1>8, <1>9

\* What no step on its stream changes.
LEMMA CompleteStays ==
    ASSUME NEW r \in Request, Complete(r), sent'[r] = sent[r], got'[r] = got[r],
           streamErr'[r] = streamErr[r], left[r] => left'[r],
           pc'[r] = "ended" => pc[r] = "ended" \/ r \in Lossy \/ left[r] \/ \E n \in Got(r) : sent[r][n] # "data",
           pc'[r] = "recording" => pc[r] = "recording" \/ EndedWell(r),
           pc'[r] \in {"returning", "done"} /\ total'[r] = <<"ok">> /\ Has(wire'[r], "header") =>
               \/ pc[r] \in {"returning", "done"} /\ total[r] = <<"ok">> /\ Has(wire[r], "header")
               \/ EndedWell(r)
    PROVE  Complete(r)'
<1>1. Got(r)' = Got(r) /\ (EndedWell(r)' <=> EndedWell(r))
  BY DEF Got, EndedWell
<1> QED BY <1>1 DEF Complete

\* The steps of a handler.
LEMMA CompleteHandler ==
    ASSUME ValuesInv, RowInv, TellInv, CompleteInv, NEW r \in Request, Handler(r)
    PROVE  CompleteInv'
<1> USE DEF ValuesInv, At, Goto, streamVars, appVars
<1>0. /\ wire[r] \in Seq(Items) /\ usage[r] \in BOOLEAN /\ left[r] \in BOOLEAN /\ streamErr[r] \in BOOLEAN
      /\ Tells(r) /\ Complete(r)
  BY DEF TellInv, CompleteInv
<1>1. \A q \in Request \ {r} : Same(q)
  BY OthersSame
<1>2. ASSUME UNCHANGED <<sent, got>>, Complete(r)' PROVE CompleteInv'
  <2>1. \A q \in Request \ {r} : Complete(q)'
    BY <1>1, <1>2, CompleteStays DEF CompleteInv, Same
  <2> QED BY <1>2, <2>1 DEF CompleteInv
<1>3. ASSUME UNCHANGED <<sent, got>>, streamErr'[r] = streamErr[r], left[r] => left'[r],
             pc'[r] \notin {"ended", "recording", "returning", "done"} \/ total'[r] # <<"ok">>,
             pc'[r] = "ended" => r \in Lossy \/ left[r] \/ \E n \in Got(r) : sent[r][n] # "data",
             pc'[r] # "recording"
      PROVE  CompleteInv'
  BY <1>0, <1>2, <1>3, CompleteStays
<1>4. CASE Accept(r) \/ Refuse(r) \/ CallComplete(r) \/ CompleteFails(r) \/ Completes(r) \/ CallStream(r)
  <2>1. /\ UNCHANGED <<sent, got, streamErr, left>>
        /\ pc'[r] \notin {"ended", "recording", "returning", "done"}
    BY <1>4 DEF Accept, Refuse, CallComplete, CompleteFails, Completes, CallStream
  <2> QED BY <1>3, <2>1
<1>5. CASE StreamRefused(r) \/ StreamOpens(r)
  <2>1. /\ UNCHANGED <<sent, got, streamErr, left>>
        /\ pc'[r] \notin {"ended", "recording", "returning", "done"}
    BY <1>5 DEF StreamRefused, StreamOpens, Delivery!Refuse
  <2> QED BY <1>3, <2>1
<1>6. CASE BodyError(r) \/ WriteRefusal(r) \/ WriteRejection(r) \/ ConcludeLeft(r)
  <2>1. /\ UNCHANGED <<sent, got, streamErr, left>> /\ total'[r] = total[r]
        /\ pc'[r] \in {"returning", "done"}
        /\ pc[r] \in {"idle", "refusing", "rejecting", "ended"}
    BY <1>6 DEF BodyError, WriteRefusal, WriteRejection, ConcludeLeft
  <2>2. total[r] # <<"ok">>
    BY <1>0, <2>1, CountsApart DEF Tells
  <2> QED BY <1>3, <2>1, <2>2
<1>7. CASE WriteAnswer(r)
  <2>1. /\ UNCHANGED <<sent, got, streamErr, left>> /\ pc'[r] = "done"
        /\ pc[r] = "answering" /\ wire'[r] = wire[r] \o <<"answer">>
    BY <1>7 DEF WriteAnswer, Write
  <2>2. ~Has(wire'[r], "header")
    BY <1>0, <2>1, FirstItem DEF Tells, Items
  <2>3. Complete(r)'
    BY <1>0, <2>1, <2>2, CompleteStays
  <2> QED BY <1>2, <2>1, <2>3
<1>8. CASE TakeData(r) \/ TakeEnd(r) \/ TakeError(r) \/ TakeBareError(r)
  <2>1. /\ Delivery!Deliver(r) /\ pc'[r] = "ranging"
        /\ streamErr'[r] = TRUE \/ (LastKind(r) # "error" /\ streamErr'[r] = streamErr[r])
    BY <1>8 DEF TakeData, TakeEnd, TakeError, TakeBareError
  <2>2. PICK n \in Nat :
             /\ got'[r] \in Seq(Nat) /\ Got(r)' = Got(r) \cup {n} /\ n <= Len(sent[r])
             /\ LastKind(r) = (IF n = 0 THEN "error" ELSE sent[r][n])
             /\ r \notin Lossy => n >= 1 /\ 1 .. n \subseteq Got(r) \cup {n}
    BY <2>1, DeliverAdds
  <2>3. sent' = sent /\ DOMAIN got' = Request /\ \A q \in Request \ {r} : got'[q] = got[q]
    BY <2>1 DEF Delivery!Deliver, CompleteInv
  <2>4. n # 0 /\ sent[r][n] = "error" => streamErr'[r]
    BY <2>1, <2>2
  <2>5. streamErr[r] => streamErr'[r]
    BY <2>1
  <2>6. \A m \in Got(r)' :
            /\ m <= Len(sent[r])
            /\ r \notin Lossy => m >= 1 /\ 1 .. m \subseteq Got(r)'
            /\ m # 0 /\ sent[r][m] = "error" => streamErr'[r]
    BY <1>0, <2>2, <2>4, <2>5 DEF Complete
  <2>7. Complete(r)'
    BY <1>0, <2>1, <2>2, <2>3, <2>6 DEF Complete
  <2>8. \A q \in Request \ {r} : Complete(q)'
    BY <1>1, <2>3, CompleteStays DEF CompleteInv, Same
  <2> QED BY <2>3, <2>7, <2>8 DEF CompleteInv
<1>9. CASE RangeEnds(r)
  <2>1. /\ UNCHANGED <<sent, got, streamErr, left, total>> /\ pc'[r] = "ended"
        /\ pc[r] = "ranging"
        /\ r \in Lossy \/ left[r] \/ \E n \in Delivery!Delivered(r) : Delivery!Terminal(r, n)
    BY <1>9 DEF RangeEnds, Delivery!End
  <2>2. r \in Lossy \/ left[r] \/ \E n \in Got(r) : sent[r][n] # "data"
    <3> SUFFICES ASSUME r \notin Lossy, ~left[r] PROVE \E n \in Got(r) : sent[r][n] # "data"
      OBVIOUS
    <3>1. PICK n \in Got(r) : Delivery!Terminal(r, n)
      BY <2>1 DEF Delivery!Delivered, Got
    <3>2. n # 0
      BY <1>0, <3>1 DEF Complete
    <3> QED BY <3>1, <3>2 DEF Delivery!Terminal
  <2>3. Complete(r)'
    BY <1>0, <2>1, <2>2, CompleteStays
  <2> QED BY <1>2, <2>1, <2>3
<1>10. CASE ConcludeError(r)
  <2>1. /\ UNCHANGED <<sent, got, streamErr, left>> /\ pc'[r] = "returning"
        /\ pc[r] = "ended" /\ total'[r] = Append(total[r], "error")
    BY <1>10 DEF ConcludeError, Count
  <2>2. total'[r] = <<"error">>
    BY <1>0, <2>1 DEF Tells
  <2> QED BY <1>3, <2>1, <2>2, CountsApart
<1>11. CASE ConcludeOk(r)
  <2>1. /\ UNCHANGED <<sent, got, streamErr, left>> /\ pc'[r] = "recording"
        /\ pc[r] = "ended" /\ ~left[r] /\ ~streamErr[r]
    BY <1>11 DEF ConcludeOk
  <2>2. EndedWell(r)
    BY <1>0, <2>1 DEF Complete, EndedWell
  <2>3. Complete(r)'
    BY <1>0, <2>1, <2>2, CompleteStays
  <2> QED BY <1>2, <2>1, <2>3
<1>12. CASE RecordOk(r)
  <2>1. UNCHANGED <<sent, got, streamErr, left>> /\ pc'[r] = "returning" /\ pc[r] = "recording"
    BY <1>12 DEF RecordOk
  <2>2. EndedWell(r)
    BY <1>0, <2>1 DEF Complete
  <2>3. Complete(r)'
    BY <1>0, <2>1, <2>2, CompleteStays
  <2> QED BY <1>2, <2>1, <2>3
<1>13. CASE Return(r)
  <2>1. /\ UNCHANGED <<sent, got, streamErr, left, total, wire>>
        /\ pc'[r] = "done" /\ pc[r] = "returning"
    BY <1>13 DEF Return
  <2>2. Complete(r)'
    BY <1>0, <2>1, CompleteStays
  <2> QED BY <1>2, <2>1, <2>2
<1> QED
  BY <1>4, <1>5, <1>6, <1>7, <1>8, <1>9, <1>10, <1>11, <1>12, <1>13 DEF Handler

\* Every step.
LEMMA CompleteStep == ValuesInv /\ RowInv /\ TellInv /\ CompleteInv /\ [Next]_vars => CompleteInv'
<1> SUFFICES ASSUME ValuesInv, RowInv, TellInv, CompleteInv, [Next]_vars PROVE CompleteInv'
  OBVIOUS
<1>1. ASSUME UNCHANGED <<sent, got>>, \A q \in Request : Same(q) PROVE CompleteInv'
  <2>1. \A q \in Request : Complete(q)'
    BY <1>1, CompleteStays DEF CompleteInv, Same
  <2> QED BY <1>1, <2>1 DEF CompleteInv
<1>2. ASSUME NEW r \in Request, ClientLeaves(r) PROVE CompleteInv'
  <2>1. UNCHANGED <<sent, got>> /\ \A q \in Request : Same(q)
    BY <1>2 DEF ValuesInv, Same, appVars, ClientLeaves, Delivery!Leave
  <2> QED BY <1>1, <2>1
<1>3. ASSUME NEW r \in Request, PluginEmits(r) PROVE CompleteInv'
  <2>1. /\ UNCHANGED got /\ \A q \in Request : Same(q) /\ left'[q] = left[q]
        /\ pc[r] \in {"opening", "ranging"}
    BY <1>3 DEF ValuesInv, Same, appVars, PluginEmits, Delivery!Emit
  <2>2. PICK k \in {"data", "error", "end"} : sent' = [sent EXCEPT ![r] = Append(@, k)]
    BY <1>3 DEF PluginEmits, Delivery!Emit
  <2>3. sent[r] \in Seq({"data", "error", "end"}) /\ got[r] \in Seq(Nat) /\ Complete(r)
    BY DEF CompleteInv, Complete
  <2>4. sent'[r] = Append(sent[r], k) /\ DOMAIN sent' = Request /\ \A q \in Request \ {r} : sent'[q] = sent[q]
    BY <2>2 DEF CompleteInv
  <2>5. /\ sent'[r] \in Seq({"data", "error", "end"}) /\ Len(sent'[r]) = Len(sent[r]) + 1
        /\ Len(sent[r]) \in Nat /\ \A i \in 1 .. Len(sent[r]) : sent'[r][i] = sent[r][i]
    BY <2>3, <2>4, AppendProperties, LenProperties
  <2>6. Got(r)' = Got(r) /\ Got(r) \subseteq Nat
    BY <2>1, <2>3, LenProperties DEF Got
  <2>7. pc'[r] \in {"opening", "ranging"} /\ streamErr'[r] = streamErr[r]
    BY <2>1 DEF Same
  <2>8. \A n \in Got(r) :
            /\ n <= Len(sent'[r])
            /\ r \notin Lossy => n >= 1 /\ 1 .. n \subseteq Got(r)
            /\ n # 0 /\ sent'[r][n] = "error" => streamErr[r]
    <3> SUFFICES ASSUME NEW n \in Got(r)
                 PROVE  /\ n <= Len(sent'[r])
                        /\ r \notin Lossy => n >= 1 /\ 1 .. n \subseteq Got(r)
                        /\ n # 0 /\ sent'[r][n] = "error" => streamErr[r]
      OBVIOUS
    <3>1. n \in Nat /\ n <= Len(sent[r])
      BY <2>3, <2>6 DEF Complete
    <3>2. n # 0 => sent'[r][n] = sent[r][n]
      BY <2>5, <3>1
    <3>3. n <= Len(sent'[r])
      BY <2>5, <3>1
    <3> QED BY <2>3, <3>2, <3>3 DEF Complete
  <2>9. Complete(r)'
    BY <2>1, <2>3, <2>5, <2>6, <2>7, <2>8 DEF Complete
  <2>10. \A q \in Request \ {r} : Complete(q)'
    BY <2>1, <2>4, CompleteStays DEF CompleteInv, Same
  <2> QED BY <2>1, <2>4, <2>9, <2>10 DEF CompleteInv
<1>4. CASE AppStep
  <2>1. UNCHANGED <<sent, got>> /\ \A q \in Request : Same(q)
    BY <1>4 DEF Same, streamVars, AppStep, Signal, Drained, DrainTimeout, ListenFails, Exit
  <2> QED BY <1>1, <2>1
<1>5. CASE UNCHANGED vars
  <2>1. UNCHANGED <<sent, got>> /\ \A q \in Request : Same(q)
    BY <1>5 DEF Same, vars
  <2> QED BY <1>1, <2>1
<1> QED
  BY <1>2, <1>3, <1>4, <1>5, CompleteHandler DEF Next, Environment

\* A stream that the plugin's faults did not hit is recorded as ok only when all
\* its events up to the end arrived and none was an error: the handler's
\* bookkeeping joined to what StreamDelivery promises, for any requests.
THEOREM OksComplete == Spec => []OkIsComplete
<1>1. ValuesInv /\ RowInv /\ TellInv /\ CompleteInv => OkIsComplete
  <2> SUFFICES ASSUME ValuesInv, RowInv, TellInv, CompleteInv, NEW r \in Request \ Lossy,
                      row[r].status = "ok", Has(wire[r], "header")
               PROVE  /\ \E n \in Got(r) : sent[r][n] = "end" /\ 1 .. n \subseteq Got(r)
                      /\ \A n \in Got(r) : sent[r][n] # "error"
    BY DEF OkIsComplete, Wrote, Has, Got, Delivery!Delivered
  <2>1. Tells(r) /\ Complete(r) /\ wire[r] \in Seq(Items)
    BY DEF TellInv, CompleteInv, ValuesInv
  <2>2. pc[r] \in Streaming \cup {"idle", "parsing", "refusing", "completing", "answering", "done"}
    BY DEF ValuesInv
  <2>3. wire[r] # <<>>
    BY DEF Has
  <2>4. pc[r] \in {"returning", "done"}
    BY <2>1, <2>2, <2>3 DEF Tells, RowInv, Failed, Streaming
  <2>5. ~Refused(r) /\ ~Abandoned(r) /\ ~Broken(r)
    BY DEF Refused, Abandoned, Broken, Lost
  <2>6. ~Answered(r)
    BY <2>1, FirstItem DEF Answered, Items
  <2>7. total[r] = <<"ok">>
    BY <2>1, <2>4, <2>5, <2>6 DEF Tells, Finished
  <2>8. EndedWell(r)
    BY <2>1, <2>4, <2>7 DEF Complete
  <2>9. \A n \in Got(r) : n # 0 /\ n \in 1 .. Len(sent[r]) /\ sent[r][n] # "error" /\ 1 .. n \subseteq Got(r)
    <3>1. Got(r) \subseteq Nat /\ Len(sent[r]) \in Nat
      BY <2>1, LenProperties DEF Complete, Got
    <3> QED BY <2>1, <2>8, <3>1 DEF Complete, EndedWell
  <2>10. PICK n \in Got(r) : sent[r][n] # "data"
    BY <2>8 DEF EndedWell
  <2>11. sent[r][n] \in {"data", "error", "end"}
    BY <2>1, <2>9, LenProperties DEF Complete
  <2> QED BY <2>9, <2>10, <2>11
<1> QED
  BY ValuesInit, ValuesStep, RowInit, RowStep, TellInit, TellStep, CompleteInit, CompleteStep, <1>1, PTL DEF Spec

=============================================================================
