--------------------------- MODULE Gateway_proofs ---------------------------
(***************************************************************************)
(* Proofs about Gateway for every set of requests, every set of            *)
(* configuration files and questions, any number of lives, failures and    *)
(* events, and any retention.                                              *)
(***************************************************************************)
EXTENDS Gateway, TLAPS

USE BoundAssumption

-----------------------------------------------------------------------------
(* Type correctness.                                                       *)

\* Initially every variable has its type.
LEMMA InitTypeOK == Init => TypeOK
<1> SUFFICES ASSUME Init PROVE TypeOK
  OBVIOUS
<1>1. look \in {NoLook} /\ due \in BOOLEAN /\ (cfg = NoConfig \/ \E f \in Files : cfg = ApplyDefaults(f))
  BY Zenon DEF Init
<1>2. /\ events \in [Request -> Nat] /\ logged \in [Request -> 0 .. MaxEvents]
      /\ age \in [Request -> 0 .. MaxAge] /\ fileAge \in [Request -> 0 .. MaxAge]
      /\ boots \in 0 .. MaxBoots /\ fails \in 0 .. MaxFails
  BY DEF Init
<1>3. /\ row \in [Request -> {"none", "started", "ok", "error"}]
      /\ file \in [Request -> {"none", "part", "whole"}]
      /\ hand \in [Request -> {"idle", "arrived", "running", "refused", "ranging", "filing",
                              "writing", "done", "dead"}]
      /\ level \in [Request -> {"none", "off", "metadata", "full"}]
      /\ told \in [Request -> {"none", "ok", "error", "refused"}]
      /\ had \in [Request -> 0 .. MaxEvents]
  BY DEF Init
<1>4. /\ stage = "down" /\ instances = {} /\ schema \in {"none", "old"} /\ sweep = "wait"
      /\ cut = {} /\ fileCut = {} /\ hurt = {} /\ swept = {} /\ overran = {} /\ unreported = {}
  BY DEF Init
<1> QED BY <1>1, <1>2, <1>3, <1>4 DEF TypeOK, Stages

\* The steps of the application keep the types.
LEMMA AppTypeOK == TypeOK /\ App => TypeOK'
<1> SUFFICES ASSUME TypeOK, App PROVE TypeOK'
  OBVIOUS
<1> USE DEF TypeOK, Stages, bootVars, handVars, timeVars, sweepVars, failVars
<1>1. CASE Load
  <2>1. \E f \in Files : cfg' = ApplyDefaults(f)
    BY <1>1 DEF Load
  <2>2. instances = {}
    BY <1>1 DEF Load
  <2> QED BY <1>1, <2>1, <2>2 DEF Load
<1>2. CASE CreateTables BY <1>2 DEF CreateTables
<1>3. CASE EnsureColumn BY <1>3 DEF EnsureColumn
<1>4. CASE StartOne BY <1>4 DEF StartOne
<1>5. CASE Listen BY <1>5 DEF Listen
<1>6. CASE Close BY <1>6 DEF Close
<1>7. CASE Ends BY <1>7 DEF Ends
<1> QED BY <1>1, <1>2, <1>3, <1>4, <1>5, <1>6, <1>7 DEF App

\* A write of r that fails or does not keeps the counts' types.
LEMMA MissedTypes ==
    ASSUME TypeOK, NEW r \in Request, Missed(r) \/ UNCHANGED failVars \/ Written
    PROVE  fails' \in 0 .. MaxFails /\ hurt' \subseteq Request
BY DEF TypeOK, Missed, Written, failVars

\* UpsertRequest leaves a status in the row.
LEMMA UpsertTypes ==
    ASSUME TypeOK, NEW r \in Request, NEW s \in {"started", "ok", "error"}, Upsert(r, s)
    PROVE  /\ row' \in [Request -> {"none", "started", "ok", "error"}]
           /\ fails' \in 0 .. MaxFails /\ hurt' \subseteq Request
<1>1. row' \in [Request -> {"none", "started", "ok", "error"}]
  BY DEF TypeOK, Upsert
<1> QED BY <1>1, MissedTypes DEF Upsert

\* Ages are counted up to the bound.
LEMMA OlderTypes == \A a \in 0 .. MaxAge : Older(a) \in 0 .. MaxAge
BY DEF Older

\* The steps of a handler keep the types.
LEMMA HandlerTypeOK ==
    ASSUME TypeOK, NEW r \in Request, Handler(r)
    PROVE  TypeOK'
<1> USE DEF TypeOK, bootVars, handVars, timeVars, sweepVars, failVars
<1>1. CASE Arrive(r)
  <2>1. TraceLevel(cfg) \in {"off", "metadata", "full"}
    BY DEF TraceLevel
  <2>2. /\ row' \in [Request -> {"none", "started", "ok", "error"}]
        /\ fails' \in 0 .. MaxFails /\ hurt' \subseteq Request
    <3>1. CASE TraceLevel(cfg) = "off"
      BY <1>1, <3>1 DEF Arrive
    <3>2. CASE TraceLevel(cfg) # "off"
      BY <1>1, <3>2, UpsertTypes DEF Arrive
    <3> QED BY <3>1, <3>2
  <2>3. /\ hand' = [hand EXCEPT ![r] = "arrived"]
        /\ level' = [level EXCEPT ![r] = TraceLevel(cfg)]
        /\ UNCHANGED <<stage, bootVars, events, file, told, had, unreported, logged, timeVars, sweepVars, look>>
    BY <1>1 DEF Arrive
  <2>4. level' \in [Request -> {"none", "off", "metadata", "full"}]
    BY <2>1, <2>3
  <2> QED BY <2>2, <2>3, <2>4
<1>2. CASE Dispatch(r)
  <2>1. PICK ask \in Asks : hand' = [hand EXCEPT ![r] =
            IF Route(cfg, ask).provider \in instances THEN "running" ELSE "refused"]
    BY <1>2 DEF Dispatch
  <2> QED BY <1>2, <2>1 DEF Dispatch
<1>3. CASE InsertEvent(r)
  <2>1. /\ logged' \in [Request -> 0 .. MaxEvents]
        /\ UNCHANGED <<stage, bootVars, row, file, handVars, timeVars, sweepVars, look>>
    BY <1>3 DEF InsertEvent
  <2>2. fails' \in 0 .. MaxFails /\ hurt' \subseteq Request
    BY <1>3, MissedTypes DEF InsertEvent
  <2>3. events' \in [Request -> Nat]
    BY <1>3 DEF InsertEvent
  <2> QED BY <2>1, <2>2, <2>3
<1>4. CASE Finish(r)
  <2>1. PICK t \in {"refused", "ok", "error"} :
            /\ told' = [told EXCEPT ![r] = t]
            /\ IF Recorded(r) THEN Upsert(r, Status(t)) ELSE UNCHANGED <<row, failVars>>
            /\ \E h \in {"filing", "done", "ranging"} : hand' = [hand EXCEPT ![r] = h]
    BY <1>4 DEF Finish, Outcomes, After
  <2>2. Status(t) \in {"started", "ok", "error"}
    BY DEF Status
  <2>3. /\ row' \in [Request -> {"none", "started", "ok", "error"}]
        /\ fails' \in 0 .. MaxFails /\ hurt' \subseteq Request
    BY <2>1, <2>2, UpsertTypes
  <2>4. UNCHANGED <<stage, bootVars, events, file, level, logged, timeVars, sweepVars, look>>
    BY <1>4 DEF Finish
  <2>5. /\ told' \in [Request -> {"none", "ok", "error", "refused"}]
        /\ hand' \in [Request -> {"idle", "arrived", "running", "refused", "ranging", "filing",
                                 "writing", "done", "dead"}]
    BY <2>1
  <2>6. had' \in [Request -> 0 .. MaxEvents] /\ unreported' \subseteq Request
    BY <1>4 DEF Finish, ReportDropped
  <2> QED BY <2>3, <2>4, <2>5, <2>6
<1>5. CASE CreateFile(r) BY <1>5 DEF CreateFile, Touched, FileFails, After
<1>6. CASE WriteFile(r) BY <1>6 DEF WriteFile, Touched, FileFails, After
<1>7. CASE Bare(r) BY <1>7 DEF Bare, After
<1> QED BY <1>1, <1>2, <1>3, <1>4, <1>5, <1>6, <1>7 DEF Handler

\* Time, the retention loop and the administrator keep the types.
LEMMA OtherTypeOK ==
    ASSUME TypeOK, Tick \/ Sweeper \/ ListEvents \/ LoadFull \/ \E r \in Request : GetRequest(r)
    PROVE  TypeOK'
<1> USE DEF TypeOK, bootVars, handVars, timeVars, sweepVars, failVars
<1>1. CASE Tick
  <2>1. /\ age' \in [Request -> 0 .. MaxAge]
        /\ fileAge' \in [Request -> 0 .. MaxAge]
    BY <1>1, OlderTypes DEF Tick
  <2>2. due' \in BOOLEAN
    BY <1>1 DEF Tick, Serving
  <2> QED BY <1>1, <2>1, <2>2 DEF Tick
<1>2. CASE SweepBegins
  <2>1. cut' \subseteq Request /\ fileCut' \subseteq Request /\ swept' \subseteq Request
    BY <1>2 DEF SweepBegins
  <2> QED BY <1>2, <2>1 DEF SweepBegins
<1>3. CASE DeleteEvents
  <2>1. /\ events' \in [Request -> Nat]
        /\ overran' \subseteq Request
        /\ fails' \in 0 .. MaxFails
    BY <1>3 DEF DeleteEvents, StatementFails
  <2> QED BY <1>3, <2>1 DEF DeleteEvents
<1>4. CASE DeleteRows
  <2>1. row' \in [Request -> {"none", "started", "ok", "error"}] /\ fails' \in 0 .. MaxFails
    BY <1>4 DEF DeleteRows, StatementFails
  <2> QED BY <1>4, <2>1 DEF DeleteRows
<1>5. ASSUME NEW r \in Request, RemoveFile(r) PROVE TypeOK'
  <2>1. /\ file' \in [Request -> {"none", "part", "whole"}]
        /\ fileCut' \subseteq Request /\ fails' \in 0 .. MaxFails
    BY <1>5 DEF RemoveFile, FileFails
  <2> QED BY <1>5, <2>1 DEF RemoveFile
<1>6. CASE SweepEnds BY <1>6 DEF SweepEnds
<1>7. CASE ListEvents
  <2>1. look.at = "row" /\ look # NoLook
    BY <1>7 DEF ListEvents, NoLook
  <2>2. (IF StoreOpen THEN events[look.req] ELSE 0) \in Nat
    BY <2>1
  <2>3. look' \in [at : {"row", "events"}, req : Request, status : {"started", "ok", "error"}, n : Nat]
    BY <1>7, <2>1, <2>2 DEF ListEvents
  <2> QED BY <1>7, <2>3 DEF ListEvents
<1>8. CASE LoadFull BY <1>8 DEF LoadFull
<1>9. ASSUME NEW r \in Request, GetRequest(r) PROVE TypeOK'
  BY <1>9 DEF GetRequest
<1> QED BY <1>1, <1>2, <1>3, <1>4, <1>5, <1>6, <1>7, <1>8, <1>9 DEF Sweeper

\* Every step keeps the types.
LEMMA NextTypeOK == TypeOK /\ [Next]_vars => TypeOK'
<1> SUFFICES ASSUME TypeOK, [Next]_vars PROVE TypeOK'
  OBVIOUS
<1>1. CASE UNCHANGED vars
  BY <1>1 DEF vars, TypeOK
<1> QED BY <1>1, AppTypeOK, HandlerTypeOK, OtherTypeOK DEF Next

\* Whatever files, requests, failures and deaths come: every variable keeps its
\* type, and a provider has an instance only while the gateway starts or serves.
THEOREM TypeCorrect == Spec => []TypeOK
BY InitTypeOK, NextTypeOK, PTL DEF Spec

-----------------------------------------------------------------------------
(* A gateway that serves has what its requests need.                       *)

\* Every way to a Serving stage goes through the check of the file, both steps
\* of migrate and every turn of StartAll's loop.
ReadyInv ==
    /\ stage # "down" => Valid(cfg)
    /\ stage \in {"starting", "serving", "closed"} => schema = "current"
    /\ Serving => instances = DOMAIN cfg.providers

\* A route of a checked configuration leads to one of its providers.
LEMMA RouteFinds ==
    ASSUME NEW c, Valid(c), NEW ask, Route(c, ask).provider # ""
    PROVE  Route(c, ask).provider \in DOMAIN c.providers
<1>1. \A code : Refused(code).provider = ""
  BY DEF Refused
<1>2. Route(c, ask) = Resolve(c, ask.model, RequestReasoning(ask))
  BY <1>1, Zenon DEF Route
<1>3. ask.model \in DOMAIN c.models
  BY <1>1, <1>2, Zenon DEF Resolve
<1> DEFINE alias == ParseReasoningLevel(c.models[ask.model].reasoning)
           found == [provider  |-> c.models[ask.model].provider,
                     reasoning |-> IF RequestReasoning(ask) = "default" THEN alias ELSE RequestReasoning(ask)]
<1>4. alias # "invalid"
  BY <1>1, <1>2, <1>3, Zenon DEF Resolve
<1>5. Route(c, ask) = found
  BY <1>2, <1>3, <1>4, Zenon DEF Resolve
<1>6. found.provider = c.models[ask.model].provider
  OBVIOUS
<1> QED BY <1>3, <1>5, <1>6 DEF Valid

\* Initially the gateway is down.
LEMMA InitReadyInv == Init => ReadyInv
BY DEF Init, ReadyInv, Serving

\* Every step keeps it: only the application's touch what it is about.
LEMMA NextReadyInv == ReadyInv /\ [Next]_vars => ReadyInv'
<1> SUFFICES ASSUME ReadyInv, [Next]_vars PROVE ReadyInv'
  OBVIOUS
<1> USE DEF ReadyInv, Serving, bootVars
<1>1. ASSUME UNCHANGED <<stage, bootVars>> PROVE ReadyInv'
  BY <1>1
<1>2. CASE UNCHANGED vars
  BY <1>1, <1>2 DEF vars
<1>3. CASE Tick \/ Sweeper \/ ListEvents \/ LoadFull
  BY <1>1, <1>3 DEF Tick, Sweeper, SweepBegins, DeleteEvents, DeleteRows, RemoveFile, SweepEnds,
                    ListEvents, LoadFull
<1>4. ASSUME NEW r \in Request, Handler(r) \/ GetRequest(r) PROVE ReadyInv'
  BY <1>1, <1>4 DEF Handler, Arrive, Dispatch, InsertEvent, Finish, Bare, CreateFile, WriteFile, GetRequest
<1>5. CASE Load
  BY <1>5 DEF Load
<1>6. CASE CreateTables BY <1>6 DEF CreateTables
<1>7. CASE EnsureColumn BY <1>7 DEF EnsureColumn
<1>8. CASE StartOne BY <1>8 DEF StartOne
<1>9. CASE Listen BY <1>9 DEF Listen
<1>10. CASE Close BY <1>10 DEF Close
<1>11. CASE Ends BY <1>11 DEF Ends
<1> QED BY <1>2, <1>3, <1>4, <1>5, <1>6, <1>7, <1>8, <1>9, <1>10, <1>11 DEF Next, App

\* For every file that Load accepts and every question a client can ask: what is
\* not refused finds its instance, and the tables are those of this version.
THEOREM ReadyToServe == Spec => []ServesReady
<1>1. ReadyInv => ServesReady
  <2> SUFFICES ASSUME ReadyInv, Serving PROVE ServesReady
    BY DEF ServesReady
  <2>1. schema = "current" /\ Valid(cfg) /\ instances = DOMAIN cfg.providers
    BY DEF ReadyInv, Serving
  <2>2. ASSUME NEW ask \in Asks, Route(cfg, ask).provider # ""
        PROVE  LET p == Route(cfg, ask).provider IN
               /\ p \in instances
               /\ cfg.providers[p].plugin \in cfg.plugins
               /\ cfg.providers[p].credential \in cfg.credentials \cup {""}
    BY <2>1, <2>2, RouteFinds DEF Valid
  <2> QED BY <2>1, <2>2 DEF ServesReady
<1> QED BY <1>1, InitReadyInv, NextReadyInv, PTL DEF Spec

-----------------------------------------------------------------------------
(* What is stored of a request.                                            *)

\* A request's handler tells its outcome when it calls Finish, and it is ok when
\* the report of a crash was dropped; a sweep takes only requests that have
\* arrived, and they are remembered.
HandInv ==
    /\ \A r \in Request : hand[r] \in {"idle", "arrived", "running", "refused"} => told[r] = "none"
    /\ \A r \in Request : hand[r] \in {"filing", "writing"} => told[r] # "none"
    /\ \A r \in Request : hand[r] = "ranging" => told[r] \in {"none", "error"}
    /\ \A r \in unreported : told[r] = "ok"
    /\ \A r \in cut : hand[r] # "idle"
    /\ cut \subseteq swept

\* Initially nothing has arrived.
LEMMA InitHandInv == Init => HandInv
BY DEF Init, HandInv

\* The steps that are none of a handler's nor a sweep's first or last.
Elsewhere ==
    \/ Load \/ CreateTables \/ EnsureColumn \/ StartOne \/ Listen \/ Close
    \/ Tick \/ ListEvents \/ LoadFull \/ \E r \in Request : GetRequest(r)

\* They leave the requests and what is stored of them alone.
LEMMA ElsewhereKeeps ==
    Elsewhere => UNCHANGED <<row, events, file, handVars, logged, sweep, cut, swept, overran, hurt>>
BY DEF Elsewhere, Load, CreateTables, EnsureColumn, StartOne, Listen, Close, Tick, ListEvents,
       LoadFull, GetRequest, bootVars, handVars, timeVars, sweepVars, failVars

\* Next by the steps that the invariants below tell apart.
LEMMA NextCases ==
    ASSUME [Next]_vars
    PROVE  \/ UNCHANGED vars \/ Elsewhere \/ Ends \/ SweepBegins \/ DeleteEvents \/ DeleteRows
           \/ SweepEnds \/ \E r \in Request : Handler(r) \/ RemoveFile(r)
BY DEF Next, App, Sweeper, Elsewhere

\* Every step keeps it.
LEMMA NextHandInv == TypeOK /\ HandInv /\ [Next]_vars => HandInv'
<1> SUFFICES ASSUME TypeOK, HandInv, [Next]_vars PROVE HandInv'
  OBVIOUS
<1> USE DEF HandInv, TypeOK, handVars, sweepVars
<1>1. ASSUME UNCHANGED <<hand, told, unreported, cut, swept>> PROVE HandInv'
  BY <1>1
<1>2. CASE UNCHANGED vars BY <1>1, <1>2 DEF vars
<1>3. CASE Elsewhere BY <1>1, <1>3, ElsewhereKeeps
<1>4. CASE Ends BY <1>4 DEF Ends
<1>5. CASE SweepBegins BY <1>5 DEF SweepBegins
<1>6. CASE DeleteEvents BY <1>1, <1>6 DEF DeleteEvents
<1>7. CASE DeleteRows BY <1>1, <1>7 DEF DeleteRows
<1>8. CASE SweepEnds BY <1>8 DEF SweepEnds
<1>9. ASSUME NEW r \in Request, Handler(r) PROVE HandInv'
  <2>1. CASE Arrive(r)
    <3>1. hand' = [hand EXCEPT ![r] = "arrived"] /\ hand[r] = "idle" /\ UNCHANGED <<told, unreported, cut, swept>>
      BY <2>1 DEF Arrive
    <3> QED BY <3>1
  <2>2. CASE Dispatch(r)
    <3>1. PICK ask \in Asks : hand' = [hand EXCEPT ![r] =
              IF Route(cfg, ask).provider \in instances THEN "running" ELSE "refused"]
      BY <2>2 DEF Dispatch
    <3>2. hand[r] = "arrived" /\ UNCHANGED <<told, unreported, cut, swept>>
      BY <2>2 DEF Dispatch
    <3> QED BY <3>1, <3>2
  <2>3. CASE InsertEvent(r) BY <1>1, <2>3 DEF InsertEvent
  <2>4. CASE Finish(r)
    <3>1. /\ hand[r] # "idle"
          /\ \E o \in {"refused", "ok", "error"} :
                /\ told' = [told EXCEPT ![r] = o]
                /\ \E h \in {"filing"} \cup After(o) : hand' = [hand EXCEPT ![r] = h]
                /\ unreported' = unreported \/ (o = "ok" /\ unreported' = unreported \cup {r})
          /\ UNCHANGED <<cut, swept>>
      BY <2>4 DEF Finish, Outcomes, ReportDropped
    <3>2. told[r] # "ok"
      BY <2>4 DEF Finish
    <3> QED BY <3>1, <3>2 DEF After
  <2>5. CASE CreateFile(r) BY <2>5 DEF CreateFile, After
  <2>6. CASE WriteFile(r) BY <2>6 DEF WriteFile, After
  <2>7. CASE Bare(r)
    <3>1. /\ hand[r] \in {"running", "ranging"} /\ UNCHANGED <<told, unreported, cut, swept>>
          /\ \E h \in {"done", "ranging"} : hand' = [hand EXCEPT ![r] = h]
      BY <2>7 DEF Bare, After
    <3> QED BY <3>1
  <2> QED BY <1>9, <2>1, <2>2, <2>3, <2>4, <2>5, <2>6, <2>7 DEF Handler
<1>10. ASSUME NEW r \in Request, RemoveFile(r) PROVE HandInv'
  BY <1>1, <1>10 DEF RemoveFile
<1> QED BY <1>2, <1>3, <1>4, <1>5, <1>6, <1>7, <1>8, <1>9, <1>10, NextCases

\* Every step keeps what is stored in agreement with what became of a request.
LEMMA NextRowKept == TypeOK /\ HandInv /\ RowKept /\ [Next]_vars => RowKept'
<1> SUFFICES ASSUME TypeOK, HandInv, RowKept, [Next]_vars PROVE RowKept'
  OBVIOUS
<1> USE DEF RowKept, Recorded, TypeOK, HandInv, handVars, sweepVars, failVars
<1>1. ASSUME UNCHANGED <<row, hand, level, told, hurt>>, swept \subseteq swept' PROVE RowKept'
  BY <1>1 DEF Status
<1>2. CASE UNCHANGED vars BY <1>1, <1>2 DEF vars
<1>3. CASE Elsewhere BY <1>1, <1>3, ElsewhereKeeps
<1>4. CASE Ends
  <2>1. /\ \A r \in Request : hand'[r] # "idle" => hand[r] # "idle"
        /\ UNCHANGED <<row, level, told, hurt, swept>>
    BY <1>4 DEF Ends
  <2> QED BY <2>1 DEF Status
<1>5. CASE SweepBegins BY <1>1, <1>5 DEF SweepBegins
<1>6. CASE DeleteEvents BY <1>1, <1>6 DEF DeleteEvents
<1>7. CASE DeleteRows
  <2>1. /\ \A r \in Request : row'[r] = row[r] \/ (r \in cut /\ row'[r] = "none")
        /\ UNCHANGED <<hand, level, told, hurt, swept>>
    BY <1>7 DEF DeleteRows
  <2> QED BY <2>1 DEF Status
<1>8. CASE SweepEnds BY <1>1, <1>8 DEF SweepEnds
<1>9. ASSUME NEW r \in Request, Handler(r) PROVE RowKept'
  <2>1. CASE Arrive(r)
    <3>1. /\ hand[r] = "idle" /\ told[r] = "none"
          /\ level' = [level EXCEPT ![r] = TraceLevel(cfg)]
          /\ hand' = [hand EXCEPT ![r] = "arrived"]
          /\ UNCHANGED <<told, swept>>
          /\ IF TraceLevel(cfg) = "off" THEN UNCHANGED <<row, failVars>> ELSE Upsert(r, "started")
      BY <2>1 DEF Arrive
    <3>2. CASE TraceLevel(cfg) = "off"
      BY <3>1, <3>2 DEF Status
    <3>3. CASE TraceLevel(cfg) # "off"
      <4>1. Upsert(r, "started")
        BY <3>1, <3>3
      <4>2. CASE row' = [row EXCEPT ![r] = "started"] /\ hurt' = hurt
        BY <3>1, <4>2 DEF Status
      <4>3. CASE row' = row /\ hurt' = hurt \cup {r}
        BY <3>1, <4>3 DEF Status
      <4> QED BY <4>1, <4>2, <4>3 DEF Upsert, Written, Missed
    <3> QED BY <3>2, <3>3
  <2>2. CASE Dispatch(r)
    <3>1. /\ \A q \in Request : hand'[q] # "idle" => hand[q] # "idle"
          /\ UNCHANGED <<row, level, told, hurt, swept>>
      BY <2>2 DEF Dispatch
    <3> QED BY <3>1 DEF Status
  <2>3. CASE InsertEvent(r)
    <3>1. UNCHANGED <<row, hand, level, told, swept>> /\ hurt \subseteq hurt'
      BY <2>3 DEF InsertEvent, Written, Missed
    <3> QED BY <3>1 DEF Status
  <2>4. CASE Finish(r)
    <3>1. PICK o \in {"refused", "ok", "error"} :
              /\ told' = [told EXCEPT ![r] = o]
              /\ IF Recorded(r) THEN Upsert(r, Status(o)) ELSE UNCHANGED <<row, failVars>>
      BY <2>4 DEF Finish, Outcomes
    <3>2. /\ \A q \in Request : hand'[q] # "idle" => hand[q] # "idle"
          /\ UNCHANGED <<level, swept>>
      BY <2>4 DEF Finish
    <3>3. CASE ~Recorded(r)
      BY <3>1, <3>2, <3>3 DEF Status
    <3>4. CASE Recorded(r) /\ row' = [row EXCEPT ![r] = Status(o)] /\ hurt' = hurt
      BY <3>1, <3>2, <3>4 DEF Status
    <3>5. CASE Recorded(r) /\ row' = row /\ hurt' = hurt \cup {r}
      BY <3>1, <3>2, <3>5 DEF Status
    <3> QED BY <3>1, <3>3, <3>4, <3>5 DEF Upsert, Written, Missed
  <2>5. CASE CreateFile(r)
    <3>1. /\ \A q \in Request : hand'[q] # "idle" => hand[q] # "idle"
          /\ UNCHANGED <<row, level, told, hurt, swept>>
      BY <2>5 DEF CreateFile
    <3> QED BY <3>1 DEF Status
  <2>6. CASE WriteFile(r)
    <3>1. /\ \A q \in Request : hand'[q] # "idle" => hand[q] # "idle"
          /\ UNCHANGED <<row, level, told, hurt, swept>>
      BY <2>6 DEF WriteFile
    <3> QED BY <3>1 DEF Status
  <2>7. CASE Bare(r)
    <3>1. /\ \A q \in Request : hand'[q] # "idle" => hand[q] # "idle"
          /\ UNCHANGED <<row, level, told, hurt, swept>>
      BY <2>7 DEF Bare
    <3> QED BY <3>1 DEF Status
  <2> QED BY <1>9, <2>1, <2>2, <2>3, <2>4, <2>5, <2>6, <2>7 DEF Handler
<1>10. ASSUME NEW r \in Request, RemoveFile(r) PROVE RowKept'
  BY <1>1, <1>10 DEF RemoveFile
<1> QED BY <1>2, <1>3, <1>4, <1>5, <1>6, <1>7, <1>8, <1>9, <1>10, NextCases

\* For any number of requests, failures, sweeps and lives: what is stored of a
\* request is what became of it, until a sweep takes it.
THEOREM RowsAreKept == Spec => []RowKept
<1>1. Init => RowKept
  BY DEF Init, RowKept
<1> QED BY <1>1, InitTypeOK, NextTypeOK, InitHandInv, NextHandInv, NextRowKept, PTL DEF Spec

-----------------------------------------------------------------------------
(* No event without a row.                                                 *)

\* NoOrphans is inductive together with two facts: a request that may still
\* insert although its row is missing is excused already, and between the two
\* statements of DeleteExpired the requests of the cut are rid of their events
\* or excused, and so is each that may still insert one.
OrphanInv ==
    /\ NoOrphans
    /\ \A r \in Request : Busy(r) /\ Recorded(r) /\ row[r] = "none" => r \in hurt \cup overran
    /\ sweep = "rows" => \A r \in cut :
        /\ Busy(r) => r \in overran
        /\ events[r] > 0 => r \in hurt \cup overran \/ row[r] = "none"

\* Initially nothing is stored.
LEMMA InitOrphanInv == Init => OrphanInv
BY DEF Init, OrphanInv, NoOrphans, Busy

\* A step of r's handler, or of the reader for r, that leaves events alone, does
\* not make r busy again and removes no row, keeps the invariant.
LEMMA HandlerOrphanInv ==
    ASSUME TypeOK, HandInv, OrphanInv, NEW r \in Request,
           UNCHANGED <<events, sweep, cut, overran>>, hurt \subseteq hurt', hurt' \subseteq Request,
           \A q \in Request \ {r} : /\ row'[q] = row[q] /\ hand'[q] = hand[q] /\ told'[q] = told[q]
                                   /\ logged'[q] = logged[q] /\ level'[q] = level[q]
                                   /\ (q \in unreported' <=> q \in unreported),
           hand[r] # "idle" => (Busy(r)' => Busy(r)) /\ level'[r] = level[r],
           row'[r] = "none" => row[r] = "none",
           hand[r] = "idle" => row'[r] # "none" \/ r \in hurt' \/ level'[r] = "off"
    PROVE  OrphanInv'
<1>1. NoOrphans'
  BY DEF OrphanInv, NoOrphans, TypeOK
<1>2. \A q \in Request \ {r} : Busy(q)' <=> Busy(q)
  BY DEF Busy
<1>3. \A q \in Request : (Busy(q) /\ Recorded(q) /\ row[q] = "none")' => q \in hurt' \cup overran'
  BY <1>2 DEF OrphanInv, Recorded
<1>4. sweep' = "rows" => \A q \in cut' : Busy(q)' => q \in overran'
  BY <1>2 DEF OrphanInv, HandInv, TypeOK
<1>5. sweep' = "rows" => \A q \in cut' :
          events'[q] > 0 => q \in hurt' \cup overran' \/ row'[q] = "none"
  BY DEF OrphanInv, NoOrphans, TypeOK
<1> QED BY <1>1, <1>3, <1>4, <1>5 DEF OrphanInv

\* A handler's steps keep the invariant.
LEMMA HandlersOrphanInv ==
    ASSUME TypeOK, HandInv, OrphanInv, NEW r \in Request, Handler(r), TypeOK'
    PROVE  OrphanInv'
<1> USE DEF handVars, sweepVars, failVars
<1>1. CASE Arrive(r)
  <2>1. /\ hand[r] = "idle"
        /\ hand' = [hand EXCEPT ![r] = "arrived"]
        /\ level' = [level EXCEPT ![r] = TraceLevel(cfg)]
        /\ IF TraceLevel(cfg) = "off" THEN UNCHANGED <<row, failVars>> ELSE Upsert(r, "started")
        /\ UNCHANGED <<events, told, unreported, logged, sweep, cut, overran>>
    BY <1>1 DEF Arrive
  <2>2. /\ hurt \subseteq hurt'
        /\ \A q \in Request \ {r} : row'[q] = row[q]
        /\ row'[r] = "none" => row[r] = "none"
        /\ row'[r] # "none" \/ r \in hurt' \/ TraceLevel(cfg) = "off"
    <3>1. CASE TraceLevel(cfg) = "off"
      BY <2>1, <3>1
    <3>2. CASE TraceLevel(cfg) # "off"
      BY <2>1, <3>2 DEF Upsert, Written, Missed, TypeOK
    <3> QED BY <3>1, <3>2
  <2>3. level'[r] = TraceLevel(cfg) /\ hurt' \subseteq Request
    BY <2>1 DEF TypeOK
  <2>4. \A q \in Request \ {r} : hand'[q] = hand[q] /\ level'[q] = level[q]
    BY <2>1 DEF TypeOK
  <2> QED BY <2>1, <2>2, <2>3, <2>4, HandlerOrphanInv
<1>2. CASE Dispatch(r)
  <2>1. PICK ask \in Asks : hand' = [hand EXCEPT ![r] =
            IF Route(cfg, ask).provider \in instances THEN "running" ELSE "refused"]
    BY <1>2 DEF Dispatch
  <2>2. hand[r] = "arrived" /\ UNCHANGED <<events, sweep, cut, overran, hurt, row, told, unreported, logged, level>>
    BY <1>2 DEF Dispatch
  <2>3. \A q \in Request \ {r} : hand'[q] = hand[q]
    BY <2>1
  <2>4. Busy(r)
    BY <2>2 DEF Busy
  <2> QED BY <2>2, <2>3, <2>4, HandlerOrphanInv DEF TypeOK
<1>3. CASE InsertEvent(r)
  <2>1. /\ Busy(r) /\ Recorded(r)
        /\ logged' = [logged EXCEPT ![r] = @ + 1]
        /\ UNCHANGED <<row, hand, told, unreported, level, sweep, cut, overran>>
    BY <1>3 DEF InsertEvent
  <2>2. /\ hurt \subseteq hurt' /\ hurt' \subseteq hurt \cup {r}
        /\ \A q \in Request : events'[q] = events[q] \/ (q = r /\ row[r] = row'[r])
    BY <1>3, <2>1 DEF InsertEvent, Written, Missed, TypeOK
  <2>3. \A q \in Request : Busy(q)' => Busy(q)
    BY <2>1 DEF Busy, TypeOK
  <2>4. \A q \in Request : Recorded(q)' <=> Recorded(q)
    BY <2>1 DEF Recorded
  <2>5. NoOrphans'
    BY <2>1, <2>2 DEF OrphanInv, NoOrphans
  <2>6. \A q \in Request : (Busy(q) /\ Recorded(q) /\ row[q] = "none")' => q \in hurt' \cup overran'
    BY <2>1, <2>2, <2>3, <2>4 DEF OrphanInv
  <2>7. sweep' = "rows" => \A q \in cut' :
            /\ Busy(q)' => q \in overran'
            /\ events'[q] > 0 => q \in hurt' \cup overran' \/ row'[q] = "none"
    BY <2>1, <2>2, <2>3 DEF OrphanInv, TypeOK
  <2> QED BY <2>5, <2>6, <2>7 DEF OrphanInv
<1>4. CASE Finish(r)
  <2>1. PICK o \in Outcomes(r) :
            /\ told' = [told EXCEPT ![r] = o]
            /\ IF Recorded(r) THEN Upsert(r, Status(o)) ELSE UNCHANGED <<row, failVars>>
            /\ \E h \in {"filing"} \cup After(o) : hand' = [hand EXCEPT ![r] = h]
    BY <1>4 DEF Finish
  <2>2. /\ hand[r] \in {"running", "refused", "ranging"}
        /\ UNCHANGED <<events, level, logged, sweep, cut, overran>>
    BY <1>4 DEF Finish
  <2>3. /\ hurt \subseteq hurt'
        /\ \A q \in Request \ {r} : row'[q] = row[q]
        /\ row'[r] = "none" => row[r] = "none"
    <3>1. CASE Recorded(r)
      BY <2>1, <2>2, <3>1 DEF Upsert, Written, Missed, Status, Outcomes, TypeOK
    <3>2. CASE ~Recorded(r)
      BY <2>1, <3>2
    <3> QED BY <3>1, <3>2
  <2>4. Busy(r)' => Busy(r)
    <3>1. CASE hand[r] = "refused"
      <4>1. told'[r] = "refused" /\ hand'[r] \in {"filing", "done"} /\ r \notin unreported'
        BY <1>4, <2>1, <2>2, <3>1 DEF Outcomes, After, TypeOK, HandInv, Finish
      <4> QED BY <4>1 DEF Busy
    <3>2. CASE hand[r] = "running"
      BY <3>2 DEF Busy
    <3>3. CASE hand[r] = "ranging"
      BY <2>1, <2>2, <3>3 DEF Busy, Outcomes, After, HandInv, TypeOK
    <3> QED BY <2>2, <3>1, <3>2, <3>3
  <2>5. \A q \in Request \ {r} :
            hand'[q] = hand[q] /\ told'[q] = told[q] /\ (q \in unreported' <=> q \in unreported)
    <3>1. unreported' \subseteq unreported \cup {r} /\ unreported \subseteq unreported'
      BY <1>4 DEF Finish, ReportDropped
    <3> QED BY <2>1, <2>2, <3>1 DEF TypeOK
  <2>6. hurt' \subseteq Request
    BY DEF TypeOK
  <2> QED BY <2>2, <2>3, <2>4, <2>5, <2>6, HandlerOrphanInv
<1>5. CASE CreateFile(r)
  <2>1. /\ hand[r] = "filing" /\ hand'[r] \in {"writing", "done", "ranging"}
        /\ \A q \in Request \ {r} : hand'[q] = hand[q]
        /\ UNCHANGED <<events, sweep, cut, overran, hurt, row, told, unreported, logged, level>>
    BY <1>5 DEF CreateFile, After, TypeOK
  <2>2. Busy(r)' => Busy(r)
    BY <2>1 DEF Busy
  <2> QED BY <2>1, <2>2, HandlerOrphanInv DEF TypeOK
<1>7. CASE Bare(r)
  <2>1. /\ hand[r] \in {"running", "ranging"} /\ hand'[r] \in {"done", "ranging"}
        /\ \A q \in Request \ {r} : hand'[q] = hand[q]
        /\ UNCHANGED <<events, sweep, cut, overran, hurt, row, told, unreported, logged, level>>
    BY <1>7 DEF Bare, After, TypeOK
  <2>2. Busy(r)' => Busy(r)
    BY <2>1 DEF Busy, HandInv
  <2> QED BY <2>1, <2>2, HandlerOrphanInv DEF TypeOK
<1>6. CASE WriteFile(r)
  <2>1. /\ hand[r] = "writing" /\ hand'[r] \in {"done", "ranging"}
        /\ \A q \in Request \ {r} : hand'[q] = hand[q]
        /\ UNCHANGED <<events, sweep, cut, overran, hurt, row, told, unreported, logged, level>>
    BY <1>6 DEF WriteFile, After, TypeOK
  <2>2. Busy(r)' => Busy(r)
    BY <2>1 DEF Busy
  <2> QED BY <2>1, <2>2, HandlerOrphanInv DEF TypeOK
<1> QED BY <1>1, <1>2, <1>3, <1>4, <1>5, <1>6, <1>7 DEF Handler

\* Every step keeps the invariant.
LEMMA NextOrphanInv == TypeOK /\ TypeOK' /\ HandInv /\ OrphanInv /\ [Next]_vars => OrphanInv'
<1> SUFFICES ASSUME TypeOK, TypeOK', HandInv, OrphanInv, [Next]_vars PROVE OrphanInv'
  OBVIOUS
<1> USE DEF OrphanInv, NoOrphans, Busy, Recorded, handVars, sweepVars, failVars
<1>1. ASSUME UNCHANGED <<row, events, hand, level, logged, told, unreported, sweep, cut, overran, hurt>>
      PROVE  OrphanInv'
  BY <1>1
<1>2. CASE UNCHANGED vars BY <1>1, <1>2 DEF vars
<1>3. CASE Elsewhere BY <1>1, <1>3, ElsewhereKeeps
<1>4. CASE Ends BY <1>4 DEF Ends, TypeOK
<1>5. CASE SweepBegins BY <1>5 DEF SweepBegins
<1>6. CASE DeleteEvents
  <2>1. UNCHANGED <<row, hand, level, logged, told, unreported, cut, hurt>> /\ overran \subseteq overran'
    BY <1>6 DEF DeleteEvents
  <2>2. \A q \in Request : events'[q] = events[q] \/ events'[q] = 0
    BY <1>6 DEF DeleteEvents, TypeOK
  <2>3. sweep' = "rows" => \A q \in cut :
            /\ Busy(q) => q \in overran'
            /\ row[q] = "none" \/ events'[q] = 0
    BY <1>6 DEF DeleteEvents, TypeOK
  <2>4. \A q \in Request : Busy(q)' <=> Busy(q)
    BY <2>1
  <2>5. NoOrphans'
    BY <2>1, <2>2 DEF TypeOK
  <2>6. \A q \in Request : (Busy(q) /\ Recorded(q) /\ row[q] = "none")' => q \in hurt' \cup overran'
    BY <2>1, <2>4
  <2> QED BY <2>1, <2>3, <2>4, <2>5, <2>6 DEF TypeOK
<1>7. CASE DeleteRows
  <2>1. /\ sweep = "rows" /\ sweep' = "files"
        /\ UNCHANGED <<events, hand, level, logged, told, unreported, cut, hurt, overran>>
        /\ \A q \in Request : row'[q] = row[q] \/ (q \in cut /\ row'[q] = "none")
    BY <1>7 DEF DeleteRows, TypeOK
  <2>2. NoOrphans'
    BY <2>1
  <2>3. \A q \in Request : (Busy(q) /\ Recorded(q) /\ row[q] = "none")' => q \in hurt' \cup overran'
    BY <2>1
  <2> QED BY <2>1, <2>2, <2>3
<1>8. CASE SweepEnds BY <1>8 DEF SweepEnds
<1>9. ASSUME NEW r \in Request, Handler(r) PROVE OrphanInv'
  BY <1>9, HandlersOrphanInv
<1>10. ASSUME NEW r \in Request, RemoveFile(r) PROVE OrphanInv'
  BY <1>1, <1>10 DEF RemoveFile
<1> QED BY <1>2, <1>3, <1>4, <1>5, <1>6, <1>7, <1>8, <1>9, <1>10, NextCases

\* For any number of requests: a sweep that fails or dies between its two
\* statements leaves no event without its row, and only a request that was still
\* writing when its events were deleted adds one afterwards.
THEOREM NoneOrphaned == Spec => []NoOrphans
<1>1. OrphanInv => NoOrphans
  BY DEF OrphanInv
<1> QED BY <1>1, InitTypeOK, NextTypeOK, InitHandInv, NextHandInv, InitOrphanInv, NextOrphanInv, PTL
        DEF Spec

-----------------------------------------------------------------------------
(* What the administrator reads.                                           *)

\* What is stored of a request that is not excused is what it has logged, and the
\* row says ok only after Finish was told so; so the events read after such a row
\* are at least those logged before it and, as a request that has succeeded logs
\* nothing more unless the report of a crash was dropped, all there will be.  An
\* answer under way is dropped when the gateway ends.
ReadInv ==
    /\ \A r \in Request : r \notin hurt \cup swept => events[r] = logged[r]
    /\ \A r \in Request : told[r] = "ok" => had[r] <= logged[r]
    /\ \A r \in Request : row[r] = "ok" => told[r] = "ok"
    /\ ~Serving => look = NoLook
    /\ look # NoLook /\ look.status = "ok" => told[look.req] = "ok"
    /\ look.at = "events" /\ StoreOpen /\ look.status = "ok" /\ look.req \notin hurt \cup swept =>
          /\ look.n >= had[look.req]
          /\ look.req \notin unreported => look.n = logged[look.req]

\* Initially nothing is stored and nobody looks.
LEMMA InitReadInv == Init => ReadInv
BY DEF Init, ReadInv, Serving, NoLook

\* A request that has succeeded is not busy, unless its success is a crash whose
\* report was dropped.
LEMMA OkIsQuiet ==
    ASSUME HandInv, NEW r \in Request, told[r] = "ok", r \notin unreported
    PROVE  ~Busy(r)
BY DEF HandInv, Busy

\* A lookup under way is of a request, and not NoLook.
LEMMA LookTypes ==
    ASSUME TypeOK, look.at # "none"
    PROVE  look # NoLook /\ look.req \in Request /\ look.n \in Nat
BY DEF TypeOK, NoLook

\* A step that leaves the lookup, the stage and the stored events alone keeps the
\* invariant if it only adds to what is excused, to told, and to what is ok, and
\* counts what is logged when a request is told ok.
LEMMA ReadKept ==
    ASSUME TypeOK, ReadInv, UNCHANGED <<stage, look, events, logged>>,
           hurt \subseteq hurt', swept \subseteq swept', unreported \subseteq unreported',
           \A r \in Request : \/ told'[r] = told[r] /\ had'[r] = had[r]
                              \/ told[r] # "ok" /\ (told'[r] = "ok" => had'[r] = logged[r]),
           \A r \in Request : row'[r] = "ok" => told'[r] = "ok"
    PROVE  ReadInv'
<1>1. \A r \in Request : told[r] = "ok" => told'[r] = "ok" /\ had'[r] = had[r]
  OBVIOUS
<1>2. look # NoLook /\ look.status = "ok" => look.req \in Request /\ told[look.req] = "ok"
  BY DEF ReadInv, TypeOK
<1>3. \A r \in Request : told'[r] = "ok" => had'[r] <= logged[r]
  BY DEF ReadInv, TypeOK
<1>4. look.at = "events" /\ StoreOpen /\ look.status = "ok" /\ look.req \notin hurt' \cup swept' =>
          /\ look.n >= had'[look.req]
          /\ look.req \notin unreported' => look.n = logged[look.req]
  BY <1>1, <1>2, LookTypes DEF ReadInv
<1>5. ~Serving' => look' = NoLook
  BY DEF ReadInv, Serving
<1>6. \A r \in Request : r \notin hurt' \cup swept' => events'[r] = logged'[r]
  BY DEF ReadInv
<1> QED BY <1>1, <1>2, <1>3, <1>4, <1>5, <1>6 DEF ReadInv, StoreOpen

\* The steps of a handler keep the invariant.
LEMMA HandlersReadInv ==
    ASSUME TypeOK, HandInv, ReadInv, NEW r \in Request, Handler(r)
    PROVE  ReadInv'
<1> USE DEF handVars, sweepVars, failVars
<1>0. \A q \in Request : row[q] = "ok" => told[q] = "ok"
  BY DEF ReadInv
<1>1. CASE Arrive(r)
  <2>1. /\ UNCHANGED <<stage, look, events, logged, swept, told, had, unreported>>
        /\ IF TraceLevel(cfg) = "off" THEN UNCHANGED <<row, failVars>> ELSE Upsert(r, "started")
    BY <1>1 DEF Arrive
  <2>2. hurt \subseteq hurt' /\ \A q \in Request : row'[q] = row[q] \/ row'[q] # "ok"
    <3>1. CASE TraceLevel(cfg) = "off"
      BY <2>1, <3>1
    <3>2. CASE TraceLevel(cfg) # "off"
      BY <2>1, <3>2 DEF Upsert, Written, Missed, TypeOK
    <3> QED BY <3>1, <3>2
  <2> QED BY <1>0, <2>1, <2>2, ReadKept
<1>2. CASE Dispatch(r)
  <2>1. UNCHANGED <<stage, look, events, logged, hurt, swept, told, had, unreported, row>>
    BY <1>2 DEF Dispatch
  <2> QED BY <1>0, <2>1, ReadKept
<1>3. CASE InsertEvent(r)
  <2>1. /\ Busy(r)
        /\ logged' = [logged EXCEPT ![r] = @ + 1]
        /\ UNCHANGED <<stage, look, told, had, unreported, swept, row>>
    BY <1>3 DEF InsertEvent
  <2>2. \/ hurt' = hurt /\ events' = [events EXCEPT ![r] = @ + 1]
        \/ hurt' = hurt \cup {r} /\ events' = events
    BY <1>3 DEF InsertEvent, Written, Missed
  <2>3. \A q \in Request : q \notin hurt' \cup swept' => events'[q] = logged'[q]
    BY <2>1, <2>2 DEF ReadInv, TypeOK
  <2>4. look # NoLook /\ look.status = "ok" => look.req # r \/ r \in unreported
    BY <2>1, OkIsQuiet DEF ReadInv
  <2>5. look.at = "events" /\ StoreOpen /\ look.status = "ok" /\ look.req \notin hurt' \cup swept' =>
            /\ look.n >= had[look.req]
            /\ look.req \notin unreported => look.n = logged'[look.req]
    BY <2>1, <2>2, <2>4, LookTypes DEF ReadInv, TypeOK
  <2>6. \A q \in Request : told[q] = "ok" => had[q] <= logged'[q]
    BY <2>1 DEF ReadInv, TypeOK
  <2> QED BY <2>1, <2>3, <2>5, <2>6 DEF ReadInv, Serving, StoreOpen
<1>4. CASE Finish(r)
  <2>1. PICK o \in {"refused", "ok", "error"} :
            /\ told' = [told EXCEPT ![r] = o]
            /\ IF Recorded(r) THEN Upsert(r, Status(o)) ELSE UNCHANGED <<row, failVars>>
    BY <1>4 DEF Finish, Outcomes
  <2>2. /\ \/ hand[r] \in {"running", "refused"}
           \/ hand[r] = "ranging" /\ told'[r] = "error"
        /\ UNCHANGED <<stage, look, events, logged, swept>>
    BY <1>4 DEF Finish, Outcomes, TypeOK
  <2>3. told[r] # "ok"
    BY <2>2 DEF HandInv
  <2>4. hurt \subseteq hurt' /\ \A q \in Request : row'[q] = "ok" => told'[q] = "ok"
    <3>1. CASE Recorded(r)
      BY <1>0, <2>1, <2>3, <3>1 DEF Upsert, Written, Missed, Status, TypeOK
    <3>2. CASE ~Recorded(r)
      BY <1>0, <2>1, <2>3, <3>2
    <3> QED BY <3>1, <3>2
  <2>5. /\ unreported \subseteq unreported'
        /\ \A q \in Request : \/ told'[q] = told[q] /\ had'[q] = had[q]
                              \/ told[q] # "ok" /\ (told'[q] = "ok" => had'[q] = logged[q])
    <3>1. PICK t \in {"refused", "ok", "error"} :
              /\ told' = [told EXCEPT ![r] = t]
              /\ IF t = "ok" THEN had' = [had EXCEPT ![r] = logged[r]] /\ ReportDropped(r)
                             ELSE UNCHANGED <<had, unreported>>
      BY <1>4 DEF Finish, Outcomes
    <3>2. unreported \subseteq unreported'
      BY <3>1 DEF ReportDropped
    <3>3. \A q \in Request \ {r} : told'[q] = told[q] /\ had'[q] = had[q]
      BY <3>1 DEF TypeOK
    <3>4. ASSUME told'[r] = "ok" PROVE had'[r] = logged[r]
      <4>1. t = "ok"
        BY <3>1, <3>4 DEF TypeOK
      <4>2. had' = [had EXCEPT ![r] = logged[r]] /\ had \in [Request -> 0 .. MaxEvents]
        BY <3>1, <4>1 DEF TypeOK
      <4> QED BY <4>2
    <3> QED BY <2>3, <3>2, <3>3, <3>4
  <2> QED BY <2>2, <2>4, <2>5, ReadKept
<1>5. CASE CreateFile(r)
  <2>1. UNCHANGED <<stage, look, events, logged, hurt, swept, told, had, unreported, row>>
    BY <1>5 DEF CreateFile
  <2> QED BY <1>0, <2>1, ReadKept
<1>6. CASE WriteFile(r)
  <2>1. UNCHANGED <<stage, look, events, logged, hurt, swept, told, had, unreported, row>>
    BY <1>6 DEF WriteFile
  <2> QED BY <1>0, <2>1, ReadKept
<1>7. CASE Bare(r)
  <2>1. UNCHANGED <<stage, look, events, logged, hurt, swept, told, had, unreported, row>>
    BY <1>7 DEF Bare
  <2> QED BY <1>0, <2>1, ReadKept
<1> QED BY <1>1, <1>2, <1>3, <1>4, <1>5, <1>6, <1>7 DEF Handler

\* The administrator's three reads keep the invariant.
LEMMA LookReadInv ==
    ASSUME TypeOK, ReadInv, ListEvents \/ LoadFull \/ \E r \in Request : GetRequest(r)
    PROVE  ReadInv'
<1> USE DEF handVars, sweepVars, failVars
<1>0. /\ \A r \in Request : r \notin hurt \cup swept => events[r] = logged[r]
      /\ \A r \in Request : told[r] = "ok" => had[r] <= logged[r]
      /\ \A r \in Request : row[r] = "ok" => told[r] = "ok"
  BY DEF ReadInv
<1>1. ASSUME UNCHANGED <<stage, row, events, told, had, unreported, logged, hurt, swept>>,
             ~Serving => look' = NoLook,
             look' # NoLook /\ look'.status = "ok" => told[look'.req] = "ok",
             look'.at = "events" /\ StoreOpen /\ look'.status = "ok" /\ look'.req \notin hurt \cup swept =>
                 /\ look'.n >= had[look'.req]
                 /\ look'.req \notin unreported => look'.n = logged[look'.req]
      PROVE  ReadInv'
  BY <1>0, <1>1 DEF ReadInv, Serving, StoreOpen
<1>2. ASSUME NEW r \in Request, GetRequest(r) PROVE ReadInv'
  <2>1. /\ Serving
        /\ UNCHANGED <<stage, row, events, told, had, unreported, logged, hurt, swept>>
        /\ \/ look' = [at |-> "row", req |-> r, status |-> row[r], n |-> 0]
           \/ look' = NoLook
    BY <1>2 DEF GetRequest
  <2> QED BY <1>0, <1>1, <2>1 DEF NoLook
<1>3. CASE ListEvents
  <2>1. /\ look.at = "row"
        /\ look' = [look EXCEPT !.at = "events", !.n = IF StoreOpen THEN events[look.req] ELSE 0]
        /\ UNCHANGED <<stage, row, events, told, had, unreported, logged, hurt, swept>>
    BY <1>3 DEF ListEvents
  <2>2. /\ look # NoLook /\ look.req \in Request
        /\ look \in [at : {"row", "events"}, req : Request, status : {"started", "ok", "error"}, n : Nat]
    BY <2>1, LookTypes DEF TypeOK
  <2>3. /\ look'.at = "events" /\ look'.req = look.req /\ look'.status = look.status
        /\ StoreOpen => look'.n = events[look.req]
    BY <2>1, <2>2
  <2>4. Serving /\ (look.status = "ok" => told[look.req] = "ok")
    BY <2>2 DEF ReadInv
  <2> QED BY <1>0, <1>1, <2>1, <2>2, <2>3, <2>4
<1>4. CASE LoadFull
  <2>1. /\ look' = NoLook
        /\ UNCHANGED <<stage, row, events, told, had, unreported, logged, hurt, swept>>
    BY <1>4 DEF LoadFull
  <2> QED BY <1>1, <2>1 DEF NoLook
<1> QED BY <1>2, <1>3, <1>4

\* Every step keeps the invariant.
LEMMA NextReadInv == TypeOK /\ HandInv /\ ReadInv /\ [Next]_vars => ReadInv'
<1> SUFFICES ASSUME TypeOK, HandInv, ReadInv, [Next]_vars PROVE ReadInv'
  OBVIOUS
<1> USE DEF handVars, sweepVars, failVars
<1>0. \A q \in Request : row[q] = "ok" => told[q] = "ok"
  BY DEF ReadInv
<1>1. ASSUME UNCHANGED <<stage, look, events, logged, hurt, swept, told, had, unreported, row>> PROVE ReadInv'
  BY <1>0, <1>1, ReadKept
<1>2. CASE UNCHANGED vars BY <1>1, <1>2 DEF vars
<1>3. CASE Load \/ CreateTables \/ EnsureColumn \/ StartOne \/ Listen \/ Close
  <2>1. /\ UNCHANGED <<look, events, logged, hurt, swept, told, had, unreported, row>>
        /\ ~Serving \/ (stage = "serving" /\ stage' = "closed")
    BY <1>3 DEF Load, CreateTables, EnsureColumn, StartOne, Listen, Close, Serving
  <2>2. CASE ~Serving
    BY <2>1, <2>2 DEF ReadInv, NoLook
  <2>3. CASE stage = "serving" /\ stage' = "closed"
    BY <2>1, <2>3 DEF ReadInv, Serving, StoreOpen
  <2> QED BY <2>1, <2>2, <2>3
<1>4. CASE Tick BY <1>1, <1>4 DEF Tick
<1>5. CASE ListEvents \/ LoadFull \/ \E r \in Request : GetRequest(r)
  BY <1>5, LookReadInv
<1>6. CASE Ends
  <2>1. look' = NoLook /\ UNCHANGED <<events, logged, hurt, swept, told, had, unreported, row>>
    BY <1>6 DEF Ends
  <2> QED BY <2>1 DEF ReadInv, NoLook
<1>7. CASE SweepBegins
  <2>1. UNCHANGED <<stage, look, events, logged, hurt, told, had, unreported, row>> /\ swept \subseteq swept'
    BY <1>7 DEF SweepBegins
  <2> QED BY <1>0, <2>1, ReadKept
<1>8. CASE DeleteEvents
  <2>1. /\ UNCHANGED <<stage, look, logged, hurt, swept, told, had, unreported, row>>
        /\ \A q \in Request : events'[q] = events[q] \/ q \in cut
    BY <1>8 DEF DeleteEvents, TypeOK
  <2>2. \A q \in Request : q \notin hurt \cup swept => events'[q] = logged[q]
    BY <2>1 DEF ReadInv, HandInv
  <2> QED BY <2>1, <2>2 DEF ReadInv, Serving, StoreOpen
<1>9. CASE DeleteRows
  <2>1. /\ UNCHANGED <<stage, look, events, logged, hurt, swept, told, had, unreported>>
        /\ \A q \in Request : row'[q] = row[q] \/ row'[q] = "none"
    BY <1>9 DEF DeleteRows, TypeOK
  <2> QED BY <1>0, <2>1, ReadKept
<1>10. CASE SweepEnds BY <1>1, <1>10 DEF SweepEnds
<1>11. ASSUME NEW r \in Request, Handler(r) PROVE ReadInv'
  BY <1>11, HandlersReadInv
<1>12. ASSUME NEW r \in Request, RemoveFile(r) PROVE ReadInv'
  BY <1>1, <1>12 DEF RemoveFile
<1> QED BY <1>2, <1>3, <1>4, <1>5, <1>6, <1>7, <1>8, <1>9, <1>10, <1>11, <1>12, NextCases DEF Elsewhere

\* For any number of requests, lookups and sweeps: an answer that says ok has all
\* the request had logged by then, though its parts are read one by one, and all
\* it ever logs unless the report of a crash of its plugin was dropped.
THEOREM WholeAnswers == Spec => ReadWhole
<1> DEFINE Whole == LoadFull /\ StoreOpen /\ look.status = "ok" /\ look.req \notin hurt \cup swept =>
                      /\ look.n >= had[look.req]
                      /\ look.req \notin unreported => look.n = logged[look.req]
<1>1. TypeOK /\ ReadInv /\ [Next]_vars => [Whole]_vars
  <2> SUFFICES ASSUME ReadInv, LoadFull PROVE Whole
    OBVIOUS
  <2>1. look.at = "events"
    BY DEF LoadFull
  <2> QED BY <2>1 DEF ReadInv
<1> QED BY <1>1, InitTypeOK, NextTypeOK, InitHandInv, NextHandInv, InitReadInv, NextReadInv, PTL
        DEF Spec, ReadWhole
=============================================================================
