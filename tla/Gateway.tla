------------------------------ MODULE Gateway ------------------------------
(***************************************************************************)
(* The gateway over its lives: it starts from a configuration, records     *)
(* requests, sweeps what is old, answers the administrator, is shut down   *)
(* or dies, and starts again on the store it left behind                   *)
(* (internal/app/app.go, internal/store/store.go, RetentionLoop and Finish *)
(* of internal/trace/trace.go, StartAll of internal/plugin/runtime.go,     *)
(* getRequest of internal/api/admin.go).                                   *)
(*                                                                         *)
(* The store has one connection, so a statement is one step; DeleteExpired *)
(* is two.  Time is counted in the sweep's hours, by the age of a request  *)
(* and of its trace file.  How a request runs is ChatRequest's matter, how *)
(* its events are numbered AuditTrail's, how a plugin starts               *)
(* PluginLifecycle's.                                                      *)
(***************************************************************************)
EXTENDS ModelRouting, FiniteSets

CONSTANTS
    Request,
    Files,      \* what may be in the configuration file
    Asks,       \* what a client may ask for
    MaxEvents,  \* bound: events of a request
    MaxBoots,   \* bound: lives of the gateway
    MaxFails,   \* bound: statements, and operations on files, that fail
    MaxAge      \* bound: ages are not told apart beyond it

ASSUME BoundAssumption ==
    MaxEvents \in Nat /\ MaxBoots \in Nat /\ MaxFails \in Nat /\ MaxAge \in Nat

VARIABLES
    stage,      \* where the process is
    cfg,        \* the configuration it has loaded
    instances,  \* Manager.instances
    boots,      \* how often it was started
    schema,     \* what tables the database has
    row,        \* row[r]: status of the request's row, or "none"
    events,     \* events[r]: its rows of request_events
    file,       \* file[r]: its trace file
    hand,       \* hand[r]: where its handler is
    level,      \* level[r]: Session.level
    logged,     \* logged[r]: events given to the store
    told,       \* told[r]: what Finish was called with
    had,        \* had[r]: events it had logged when it was told ok
    unreported, \* requests told ok because the report of a crash was dropped
    age,        \* age[r]: hours since started_at
    fileAge,    \* fileAge[r]: hours since its file was modified
    sweep,      \* where the retention loop is
    due,        \* its ticker has fired
    cut,        \* requests started before metaCutoff
    fileCut,    \* files modified before fullCutoff
    look,       \* the administrator's lookup
    fails,      \* statements and operations on files that have failed
    hurt,       \* requests one of whose writes has failed
    swept,      \* requests that were in some cut
    overran     \* requests whose events a sweep took while they had more to write

bootVars  == <<cfg, instances, boots, schema>>
handVars  == <<hand, level, told, had, unreported>>
timeVars  == <<age, fileAge>>
sweepVars == <<sweep, due, cut, fileCut, swept, overran>>
failVars  == <<fails, hurt>>
vars == <<stage, cfg, instances, boots, schema, row, events, file, hand, level, logged, told,
          had, unreported, age, fileAge, sweep, due, cut, fileCut, look, fails, hurt, swept, overran>>

NoConfig == [level |-> "", retention |-> 0, full_retention |-> 0, plugins |-> {},
             providers |-> <<>>, credentials |-> {}, models |-> <<>>]
NoLook   == [at |-> "none", req |-> "none", status |-> "none", n |-> 0]

StoreOpen == stage = "serving"
Serving   == stage \in {"serving", "closed"}

\* Mutant: each notification has a goroutine of its own, so an audit may come
\* after the event that ends its request.
BusyAfter(r) ==
    hand[r] \in {"arrived", "running", "ranging", "filing", "writing", "done"} /\ logged[r] < MaxEvents

\* A request that may still insert an event: its handler has not finished, or
\* the reader of the plugin's connection has an audit of it.  The audits of a
\* request come before the event that ends it, so none is left of one that has
\* succeeded by that event; but a crash whose report was dropped looks like
\* success, too, and tells nothing of what the reader has still to read.
Busy(r) ==
    \/ hand[r] \in {"arrived", "running"}
    \/ /\ hand[r] \in {"ranging", "filing", "writing", "done"}
       /\ told[r] \in {"none", "error"} \/ r \in unreported
       /\ logged[r] < MaxEvents

Init ==
    /\ stage = "down" /\ cfg = NoConfig /\ instances = {} /\ boots = 0
    /\ schema \in {"none", "old"}
    /\ row     = [r \in Request |-> "none"]
    /\ events  = [r \in Request |-> 0]
    /\ file    = [r \in Request |-> "none"]
    /\ hand    = [r \in Request |-> "idle"]
    /\ level   = [r \in Request |-> "none"]
    /\ logged  = [r \in Request |-> 0]
    /\ told    = [r \in Request |-> "none"]
    /\ had     = [r \in Request |-> 0] /\ unreported = {}
    /\ age     = [r \in Request |-> 0]
    /\ fileAge = [r \in Request |-> 0]
    /\ sweep = "wait" /\ due = FALSE /\ cut = {} /\ fileCut = {}
    /\ look = NoLook
    /\ fails = 0 /\ hurt = {} /\ swept = {} /\ overran = {}

-----------------------------------------------------------------------------
(* The application.                                                        *)

\* Serve loads the configuration; a file that is not valid ends it there.
Load ==
    /\ stage = "down" /\ boots < MaxBoots
    /\ \E f \in Files : Valid(ApplyDefaults(f)) /\ cfg' = ApplyDefaults(f)
    /\ boots' = boots + 1
    /\ stage' = "opening"
    /\ UNCHANGED <<instances, schema, row, events, file, handVars, logged, timeVars, sweepVars, look, failVars>>

\* CREATE TABLE IF NOT EXISTS: an older database stays as it is, ...
CreateTables ==
    /\ stage = "opening"
    /\ schema' = IF schema = "none" THEN "current" ELSE schema
    /\ stage'  = "altering"
    /\ UNCHANGED <<cfg, instances, boots, row, events, file, handVars, logged, timeVars, sweepVars, look, failVars>>

\* ... until ensureColumn adds the column it lacks.
EnsureColumn ==
    /\ stage = "altering"
    /\ schema' = "current"
    /\ stage'  = "starting"
    /\ UNCHANGED <<cfg, instances, boots, row, events, file, handVars, logged, timeVars, sweepVars, look, failVars>>

\* StartAll, one provider of the configuration after the other.
StartOne ==
    /\ stage = "starting"
    /\ \E p \in DOMAIN cfg.providers \ instances : instances' = instances \cup {p}
    /\ UNCHANGED <<stage, cfg, boots, schema, row, events, file, handVars, logged, timeVars, sweepVars, look, failVars>>

\* The servers listen and RetentionLoop starts, with a sweep.
Listen ==
    /\ stage = "starting" /\ instances = DOMAIN cfg.providers
    /\ stage' = "serving"
    /\ due'   = TRUE
    /\ UNCHANGED <<bootVars, row, events, file, handVars, logged, timeVars, sweep, cut, fileCut, swept, overran, look, failVars>>

\* A signal: Shutdown, then the store is closed, when the handlers are done or
\* 10 s are over.  In between the gateway is one that nobody asks anything.
Close ==
    /\ stage = "serving"
    /\ stage' = "closed"
    /\ UNCHANGED <<bootVars, row, events, file, handVars, logged, timeVars, sweepVars, look, failVars>>

\* The process ends: after StopAll, at an error of New or StartAll, because a
\* server cannot listen (the store is not closed then), or killed at any time.
\* What is in the store and the files stays; no handler and no reader does.
Ends ==
    /\ stage # "down"
    /\ stage' = "down" /\ cfg' = NoConfig /\ instances' = {}
    /\ hand'  = [r \in Request |-> IF hand[r] = "idle" THEN "idle" ELSE "dead"]
    /\ sweep' = "wait" /\ due' = FALSE /\ cut' = {} /\ fileCut' = {}
    /\ look'  = NoLook
    /\ UNCHANGED <<boots, schema, row, events, file, level, logged, told, had, unreported, timeVars, failVars, swept, overran>>

-----------------------------------------------------------------------------
(* Time.                                                                   *)

Older(a) == IF a < MaxAge THEN a + 1 ELSE a

\* An hour; the ticker of RetentionLoop keeps one tick.
Tick ==
    /\ age'     = [r \in Request |-> IF hand[r] = "idle" THEN age[r] ELSE Older(age[r])]
    /\ fileAge' = [r \in Request |-> IF file[r] = "none" THEN fileAge[r] ELSE Older(fileAge[r])]
    /\ due'     = (due \/ Serving)
    /\ UNCHANGED <<stage, bootVars, row, events, file, handVars, logged, sweep, cut, fileCut, swept, overran, look, failVars>>

-----------------------------------------------------------------------------
(* A handler, as far as the store sees it.  Errors of the store are        *)
(* ignored: the request goes on.                                           *)

Recorded(r) == level[r] # "off"

\* A write of r that succeeds, or the store is closed or it fails.
Written == StoreOpen /\ UNCHANGED failVars

Missed(r) ==
    /\ \/ ~StoreOpen /\ UNCHANGED fails
       \/ StoreOpen /\ fails < MaxFails /\ fails' = fails + 1
    /\ hurt' = hurt \cup {r}

\* Mutant: the row of a request that has one is left as it is.
InsertOrIgnore(r, status) ==
    \/ Written /\ row' = [row EXCEPT ![r] = IF @ = "none" THEN status ELSE @]
    \/ Missed(r) /\ UNCHANGED row

\* UpsertRequest inserts the row, or replaces all of it but started_at.
Upsert(r, status) ==
    \/ Written /\ row' = [row EXCEPT ![r] = status]
    \/ Missed(r) /\ UNCHANGED row

\* Trace.Start.
Arrive(r) ==
    /\ stage = "serving" /\ hand[r] = "idle"
    /\ hand'  = [hand EXCEPT ![r] = "arrived"]
    /\ level' = [level EXCEPT ![r] = TraceLevel(cfg)]
    /\ IF TraceLevel(cfg) = "off" THEN UNCHANGED <<row, failVars>> ELSE Upsert(r, "started")
    /\ UNCHANGED <<stage, bootVars, events, file, told, had, unreported, logged, timeVars, sweepVars, look>>

\* The model is resolved and its instance looked up in the manager's map.
Dispatch(r) ==
    /\ hand[r] = "arrived"
    /\ \E ask \in Asks :
        hand' = [hand EXCEPT ![r] = IF Route(cfg, ask).provider \in instances THEN "running" ELSE "refused"]
    /\ UNCHANGED <<stage, bootVars, row, events, file, level, told, had, unreported, logged, timeVars, sweepVars, look, failVars>>

\* Session.event, by the handler or by the reader.
InsertEvent(r) ==
    /\ Busy(r) /\ Recorded(r) /\ logged[r] < MaxEvents
    /\ logged' = [logged EXCEPT ![r] = @ + 1]
    /\ \/ Written /\ events' = [events EXCEPT ![r] = @ + 1]
       \/ Missed(r) /\ UNCHANGED events
    /\ UNCHANGED <<stage, bootVars, row, file, handVars, timeVars, sweepVars, look>>

\* A refusal is an error, too, but no plugin has heard of the request.
Status(t) == IF t = "refused" THEN "error" ELSE t

\* An error event does not end a stream: more of them, or its client that
\* leaves (told and stored as canceled, an error here), make it call Finish
\* again.
After(t) == IF t = "error" THEN {"done", "ranging"} ELSE {"done"}

Outcomes(r) ==
    CASE hand[r] = "refused" -> {"refused"}
      [] hand[r] = "running" -> {"ok", "error"}
      [] hand[r] = "ranging" -> {"error"}

\* failActiveStreams drops its report of a crash when the channel is full and
\* closes it: the handler takes that for the end, and the reader is free to go on
\* to the audits the plugin had written.
ReportDropped(r) == unreported' \in {unreported, unreported \cup {r}}

\* Finish: the row, ...
Finish(r) ==
    /\ hand[r] \in {"running", "refused", "ranging"}
    /\ \E t \in Outcomes(r) :
        /\ told' = [told EXCEPT ![r] = t]
        /\ IF t = "ok" THEN had' = [had EXCEPT ![r] = logged[r]] /\ ReportDropped(r)
                       ELSE UNCHANGED <<had, unreported>>
        /\ IF Recorded(r) THEN Upsert(r, Status(t)) ELSE UNCHANGED <<row, failVars>>
        /\ \E h \in IF level[r] = "full" THEN {"filing"} ELSE After(t) : hand' = [hand EXCEPT ![r] = h]
    /\ UNCHANGED <<stage, bootVars, events, file, level, logged, timeVars, sweepVars, look>>

\* An error event without an error: no Finish, neither then nor, unless the
\* client leaves, at the end.
Bare(r) ==
    /\ hand[r] \in {"running", "ranging"}
    /\ \E h \in After("error") : hand' = [hand EXCEPT ![r] = h]
    /\ UNCHANGED <<stage, bootVars, row, events, file, level, told, had, unreported, logged, timeVars, sweepVars, look, failVars>>

\* A file that is written anew is not removed, unless the sweep has read its
\* time before.
Touched(r) ==
    /\ fileAge' = [fileAge EXCEPT ![r] = 0]
    /\ fileCut' \in {fileCut, fileCut \ {r}}

FileFails == fails < MaxFails /\ fails' = fails + 1

\* ... and at the full level the file: created or emptied, ...
CreateFile(r) ==
    /\ hand[r] = "filing"
    /\ \/ /\ file' = [file EXCEPT ![r] = "part"]
          /\ Touched(r)
          /\ hand' = [hand EXCEPT ![r] = "writing"]
          /\ UNCHANGED fails
       \/ /\ FileFails
          /\ \E h \in After(told[r]) : hand' = [hand EXCEPT ![r] = h]
          /\ UNCHANGED <<file, fileAge, fileCut>>
    /\ UNCHANGED <<stage, bootVars, row, events, level, told, had, unreported, logged, age, sweep, due, cut, swept, overran, look, hurt>>

\* ... then written; a sweep may have removed its name meanwhile.
WriteFile(r) ==
    /\ hand[r] = "writing"
    /\ \/ /\ file' = [file EXCEPT ![r] = IF @ = "part" THEN "whole" ELSE @]
          /\ Touched(r)
          /\ UNCHANGED fails
       \/ FileFails /\ UNCHANGED <<file, fileAge, fileCut>>
    /\ \E h \in After(told[r]) : hand' = [hand EXCEPT ![r] = h]
    /\ UNCHANGED <<stage, bootVars, row, events, level, told, had, unreported, logged, age, sweep, due, cut, swept, overran, look, hurt>>

Handler(r) ==
    \/ Arrive(r) \/ Dispatch(r) \/ InsertEvent(r)
    \/ Finish(r) \/ Bare(r) \/ CreateFile(r) \/ WriteFile(r)

-----------------------------------------------------------------------------
(* RetentionLoop.                                                          *)

\* The cutoffs are computed first.
SweepBegins ==
    /\ Serving /\ sweep = "wait" /\ due
    /\ due'     = FALSE
    /\ cut'     = {r \in Request : hand[r] # "idle" /\ age[r] > cfg.retention}
    /\ swept'   = swept \cup cut'
    /\ fileCut' = {r \in Request : file[r] # "none" /\ fileAge[r] > cfg.full_retention}
    /\ sweep'   = "events"
    /\ UNCHANGED <<stage, bootVars, row, events, file, handVars, logged, timeVars, overran, look, failVars>>

StatementFails ==
    \/ ~StoreOpen /\ UNCHANGED fails
    \/ StoreOpen /\ fails < MaxFails /\ fails' = fails + 1

\* Mutant: the second statement is tried when the first has failed.
DeleteEventsOrNot ==
    /\ sweep = "events"
    /\ \/ LET old == {r \in cut : row[r] # "none"} IN
          /\ StoreOpen /\ UNCHANGED fails
          /\ events'  = [r \in Request |-> IF r \in old THEN 0 ELSE events[r]]
          /\ overran' = overran \cup {r \in cut : Busy(r)}
       \/ StatementFails /\ UNCHANGED <<events, overran>>
    /\ sweep' = "rows"
    /\ UNCHANGED <<stage, bootVars, row, file, handVars, logged, timeVars, due, cut, fileCut, swept, look, hurt>>

\* DeleteExpired deletes the events of the rows that are old, ...
DeleteEvents ==
    /\ sweep = "events"
    /\ \/ LET old == {r \in cut : row[r] # "none"} IN
          /\ StoreOpen /\ UNCHANGED fails
          /\ events'  = [r \in Request |-> IF r \in old THEN 0 ELSE events[r]]
          /\ overran' = overran \cup {r \in cut : Busy(r)}
          /\ sweep'   = "rows"
       \/ StatementFails /\ sweep' = "files" /\ UNCHANGED <<events, overran>>
    /\ UNCHANGED <<stage, bootVars, row, file, handVars, logged, timeVars, due, cut, fileCut, swept, look, hurt>>

\* Mutant: only what has finished is deleted.
DeleteFinished ==
    /\ sweep = "rows"
    /\ \/ /\ StoreOpen /\ UNCHANGED fails
          /\ row' = [r \in Request |-> IF r \in cut /\ row[r] # "started" THEN "none" ELSE row[r]]
       \/ StatementFails /\ UNCHANGED row
    /\ sweep' = "files"
    /\ UNCHANGED <<stage, bootVars, events, file, handVars, logged, timeVars, due, cut, fileCut, swept, overran, look, hurt>>

\* ... and then these rows.
DeleteRows ==
    /\ sweep = "rows"
    /\ \/ /\ StoreOpen /\ UNCHANGED fails
          /\ row' = [r \in Request |-> IF r \in cut THEN "none" ELSE row[r]]
       \/ StatementFails /\ UNCHANGED row
    /\ sweep' = "files"
    /\ UNCHANGED <<stage, bootVars, events, file, handVars, logged, timeVars, due, cut, fileCut, swept, overran, look, hurt>>

\* One old file of the directory; what cannot be removed, or the directory that
\* cannot be read, is left to the next sweep.
RemoveFile(r) ==
    /\ sweep = "files" /\ r \in fileCut
    /\ \/ file' = [file EXCEPT ![r] = "none"] /\ fileCut' = fileCut \ {r} /\ UNCHANGED fails
       \/ FileFails /\ fileCut' \in {fileCut \ {r}, {}} /\ UNCHANGED file
    /\ UNCHANGED <<stage, bootVars, row, events, handVars, logged, timeVars, sweep, due, cut, swept, overran, look, hurt>>

SweepEnds ==
    /\ sweep = "files" /\ fileCut = {}
    /\ sweep' = "wait" /\ cut' = {}
    /\ UNCHANGED <<stage, bootVars, row, events, file, handVars, logged, timeVars, due, fileCut, swept, overran, look, failVars>>

Sweeper == SweepBegins \/ DeleteEvents \/ DeleteRows \/ (\E r \in Request : RemoveFile(r)) \/ SweepEnds

-----------------------------------------------------------------------------
(* The administrator's getRequest: three reads, nothing held between them. *)

GetRequest(r) ==
    /\ Serving /\ look = NoLook
    /\ look' = IF StoreOpen /\ row[r] # "none"
                 THEN [at |-> "row", req |-> r, status |-> row[r], n |-> 0]
                 ELSE NoLook
    /\ UNCHANGED <<stage, bootVars, row, events, file, handVars, logged, timeVars, sweepVars, failVars>>

\* Its error is ignored: the answer of a store just closed has no events.
ListEvents ==
    /\ look.at = "row"
    /\ look' = [look EXCEPT !.at = "events", !.n = IF StoreOpen THEN events[look.req] ELSE 0]
    /\ UNCHANGED <<stage, bootVars, row, events, file, handVars, logged, timeVars, sweepVars, failVars>>

\* A file that is not there, or not whole, is left out of the answer, which is
\* given now.
LoadFull ==
    /\ look.at = "events"
    /\ look' = NoLook
    /\ UNCHANGED <<stage, bootVars, row, events, file, handVars, logged, timeVars, sweepVars, failVars>>

-----------------------------------------------------------------------------
App == Load \/ CreateTables \/ EnsureColumn \/ StartOne \/ Listen \/ Close \/ Ends

Next ==
    \/ App \/ Tick \/ Sweeper \/ ListEvents \/ LoadFull
    \/ \E r \in Request : Handler(r) \/ GetRequest(r)

Spec == Init /\ [][Next]_vars

\* Time passes and the retention loop runs.
FairSpec == Spec /\ WF_vars(Tick) /\ WF_vars(Sweeper)

-----------------------------------------------------------------------------
Stages == {"down", "opening", "altering", "starting", "serving", "closed"}

\* The values each variable ranges over.
TypeOK ==
    /\ stage \in Stages
    /\ cfg = NoConfig \/ \E f \in Files : cfg = ApplyDefaults(f)
    /\ instances \subseteq DOMAIN cfg.providers
    /\ stage \in {"down", "opening", "altering"} => instances = {}
    /\ boots \in 0 .. MaxBoots
    /\ schema \in {"none", "old", "current"}
    /\ row \in [Request -> {"none", "started", "ok", "error"}]
    /\ events \in [Request -> Nat]
    /\ file \in [Request -> {"none", "part", "whole"}]
    /\ hand \in [Request -> {"idle", "arrived", "running", "refused", "ranging", "filing", "writing",
                            "done", "dead"}]
    /\ level \in [Request -> {"none", "off", "metadata", "full"}]
    /\ logged \in [Request -> 0 .. MaxEvents]
    /\ told \in [Request -> {"none", "ok", "error", "refused"}]
    /\ had \in [Request -> 0 .. MaxEvents] /\ unreported \subseteq Request
    /\ age \in [Request -> 0 .. MaxAge]
    /\ fileAge \in [Request -> 0 .. MaxAge]
    /\ sweep \in {"wait", "events", "rows", "files"}
    /\ due \in BOOLEAN
    /\ cut \subseteq Request /\ fileCut \subseteq Request
    /\ look \in {NoLook} \cup
          [at : {"row", "events"}, req : Request, status : {"started", "ok", "error"}, n : Nat]
    /\ fails \in 0 .. MaxFails
    /\ hurt \subseteq Request /\ swept \subseteq Request /\ overran \subseteq Request

\* A gateway that serves has its tables in the present shape and an instance,
\* started from a plugin and with the credential that are configured, for every
\* request it does not refuse: no file that Load accepts leads to
\* plugin_unavailable, whatever the last life left in the database.
ServesReady ==
    Serving =>
        /\ schema = "current"
        /\ \A ask \in Asks :
            LET p == Route(cfg, ask).provider IN
            p # "" => /\ p \in instances
                      /\ cfg.providers[p].plugin \in cfg.plugins
                      /\ cfg.providers[p].credential \in cfg.credentials \cup {""}

\* What is stored of a request is what became of it, through restarts and until
\* a sweep takes it: its outcome once Finish was called, started as long as it
\* runs, and for the rest of its row's life when the gateway ended under it.
RowKept ==
    \A r \in Request : hand[r] # "idle" /\ Recorded(r) /\ r \notin hurt =>
        \/ row[r] = IF told[r] = "none" THEN "started" ELSE Status(told[r])
        \/ row[r] = "none" /\ r \in swept

\* No event outlives its request's row, wherever between its statements a sweep
\* fails or the gateway dies, but for a request that was still writing when the
\* sweep came, or whose own writes failed.
NoOrphans ==
    \A r \in Request : events[r] > 0 /\ row[r] = "none" => r \in hurt \cup overran

\* The administrator's answer that says a request has succeeded shows every event
\* the request had logged by then, and all it ever logs, though its handler, the
\* reader of audits and a sweep write between the three reads: unless it was
\* old, its writes failed or the store is being closed.  After a crash whose
\* report was dropped the first is all there is: the row says ok, and an audit
\* may come after the answer.
ReadWhole ==
    [][LoadFull /\ StoreOpen /\ look.status = "ok" /\ look.req \notin hurt \cup swept =>
        /\ look.n >= had[look.req]
        /\ look.req \notin unreported => look.n = logged[look.req]]_vars

Over(r) == hand[r] \in {"done", "dead"}
Gone(r) == row[r] = "none" /\ file[r] = "none"

\* As long as the gateway stays up, nothing is kept for ever: the row and the
\* trace file of a request that is over vanish, also when the gateway had died
\* under it and its row says started, and at whatever level it runs now.  (A
\* request that is over stays so.)
OldGoes ==
    <>[](stage = "serving") => \A r \in Request : []<>(Over(r) => Gone(r))
=============================================================================
