--------------------------- MODULE PluginLifecycle ---------------------------
(***************************************************************************)
(* The life of the processes behind one plugin instance:                   *)
(* internal/plugin/runtime.go Start, watch, healthLoop, Stop and kill, and *)
(* the socket that the SDK opens in the plugin (sdk/plugin/server.go).     *)
(*                                                                         *)
(* Goroutines: the one that is in Start (the caller of StartAll first, a   *)
(* crash watcher later), one watcher per started process, the health loop  *)
(* and the caller of Stop.  in.cmd and in.conn are shared between them     *)
(* without in.mu, so each read of them is a step of its own.               *)
(***************************************************************************)
EXTENDS Integers, FiniteSets

CONSTANTS
    MaxProc,   \* bound: processes this instance starts; the last never crashes
    EnvFails   \* spawning, the handshake and time limits may fail by themselves

ASSUME ProcAssumption == MaxProc \in Nat \ {0}
ASSUME EnvAssumption  == EnvFails \in BOOLEAN

Proc   == 1 .. MaxProc
Killer == {"start", "stop"}       \* the callers of kill

VARIABLES
    proc,      \* proc[p]: state of process p
    sock,      \* process that bound the file at in.sock, 0 if there is no file
    cmd,       \* in.cmd, 0 for nil
    conn,      \* process in.conn leads to, 0 for nil
    hungUp,    \* hungUp[p]: the host closed its connection to p
    start,     \* where the goroutine in Start is, "none" if nobody is
    managed,   \* the first Start succeeded: the Manager has the instance
    watch,     \* watch[p]: watcher of process p
    healthy,   \* in.Healthy
    lastError, \* in.lastError is not empty
    loop,      \* where the health loop is
    checked,   \* process it called and what it heard
    stop,      \* where Stop is; in.stopped is stop # "run"
    kill,      \* kill[k]: where a call of kill is
    awaited,   \* awaited[k]: process its goroutine waits for
    racing     \* history: somebody was in Start when Stop began

procVars  == <<proc, sock, hungUp>>
startVars == <<cmd, conn, start, managed>>
flagVars  == <<healthy, lastError>>
loopVars  == <<loop, checked>>
stopVars  == <<stop, racing>>
killVars  == <<kill, awaited>>
vars == <<proc, sock, cmd, conn, hungUp, start, managed, watch, healthy, lastError,
          loop, checked, stop, kill, awaited, racing>>

Init ==
    /\ proc      = [p \in Proc |-> "none"]
    /\ sock      = 0
    /\ cmd       = 0
    /\ conn      = 0
    /\ hungUp    = [p \in Proc |-> FALSE]
    /\ start     = "remove"
    /\ managed   = FALSE
    /\ watch     = [p \in Proc |-> "none"]
    /\ healthy   = FALSE
    /\ lastError = FALSE
    /\ loop      = "off"
    /\ checked   = [of |-> 0, ok |-> FALSE]
    /\ stop      = "run"
    /\ kill      = [k \in Killer |-> "none"]
    /\ awaited   = [k \in Killer |-> 0]
    /\ racing    = FALSE

Alive(p)  == proc[p] \in {"started", "bound", "listening"}
Live      == {p \in Proc : Alive(p)}
Listening == {p \in Proc : proc[p] = "listening"}

-----------------------------------------------------------------------------
(* The plugin process.                                                     *)

\* net.Listen binds the path, whose file a host may see at once, ...
ProcBind(p) ==
    /\ proc[p] = "started"
    /\ proc' = [proc EXCEPT ![p] = "bound"]
    /\ sock' = p
    /\ UNCHANGED <<hungUp, startVars, watch, flagVars, loopVars, stopVars, killVars>>

\* ... and then listens; only now can the host connect.
ProcListen(p) ==
    /\ proc[p] = "bound"
    /\ proc' = [proc EXCEPT ![p] = "listening"]
    /\ UNCHANGED <<sock, hungUp, startVars, watch, flagVars, loopVars, stopVars, killVars>>

\* A crash; the socket's file stays behind.
Crash(p) ==
    /\ Alive(p) /\ p < MaxProc
    /\ proc' = [proc EXCEPT ![p] = "dead"]
    /\ UNCHANGED <<sock, hungUp, startVars, watch, flagVars, loopVars, stopVars, killVars>>

-----------------------------------------------------------------------------
(* Start.                                                                  *)

StartRemove ==
    /\ start = "remove"
    /\ sock'  = 0
    /\ start' = "spawn"
    /\ UNCHANGED <<proc, hungUp, cmd, conn, managed, watch, flagVars, loopVars, stopVars, killVars>>

StartSpawn ==
    /\ start = "spawn" /\ cmd < MaxProc
    /\ cmd'   = cmd + 1
    /\ proc'  = [proc EXCEPT ![cmd + 1] = "started"]
    /\ start' = "wait"
    /\ UNCHANGED <<sock, hungUp, conn, managed, watch, flagVars, loopVars, stopVars, killVars>>

\* MkdirAll or exec fails: Start returns the error, there is nothing to kill.
SpawnFail ==
    /\ start \in {"remove", "spawn"} /\ EnvFails
    /\ start' = "none"
    /\ UNCHANGED <<procVars, cmd, conn, managed, watch, flagVars, loopVars, stopVars, killVars>>

\* WaitSocket looks for the file only.
SocketSeen ==
    /\ start = "wait" /\ sock # 0
    /\ start' = "dial"
    /\ UNCHANGED <<procVars, cmd, conn, managed, watch, flagVars, loopVars, stopVars, killVars>>

\* Its 10 s pass when no file can appear any more, or the plugin is slow.
SocketTimeout ==
    /\ start = "wait"
    /\ EnvFails \/ (sock = 0 /\ proc[cmd] # "started")
    /\ start' = "kill"
    /\ UNCHANGED <<procVars, cmd, conn, managed, watch, flagVars, loopVars, stopVars, killVars>>

Dial ==
    /\ start = "dial" /\ sock \in Listening
    /\ conn'  = sock
    /\ start' = "handshake"
    /\ UNCHANGED <<procVars, cmd, managed, watch, flagVars, loopVars, stopVars, killVars>>

\* No file, or nobody listens on it (yet): connection refused.
\* Mutant: Start returns the error without killing the process.
DialGivesUp ==
    /\ start = "dial" /\ sock \notin Listening
    /\ start' = "none"
    /\ UNCHANGED <<procVars, cmd, conn, managed, watch, flagVars, loopVars, stopVars, killVars>>

DialFail ==
    /\ start = "dial" /\ sock \notin Listening
    /\ start' = "kill"
    /\ UNCHANGED <<procVars, cmd, conn, managed, watch, flagVars, loopVars, stopVars, killVars>>

\* The handshake is answered: the process gets its watcher; the first time,
\* the health loop is started and the Manager takes the instance.
HandshakeOk ==
    /\ start = "handshake" /\ proc[conn] = "listening" /\ ~hungUp[conn]
    /\ start'   = "none"
    /\ healthy' = TRUE
    /\ watch'   = [watch EXCEPT ![cmd] = "wait"]
    /\ loop'    = IF loop = "off" THEN "idle" ELSE loop
    /\ managed' = TRUE
    /\ UNCHANGED <<procVars, cmd, conn, lastError, checked, stopVars, killVars>>

HandshakeFail ==
    /\ start = "handshake"
    /\ EnvFails \/ ~Alive(conn) \/ hungUp[conn]
    /\ start' = "kill"
    /\ UNCHANGED <<procVars, cmd, conn, managed, watch, flagVars, loopVars, stopVars, killVars>>

-----------------------------------------------------------------------------
(* kill: SIGTERM to the group of in.cmd, wait up to 3 s, then SIGKILL.     *)

Wants(k) == IF k = "start" THEN start = "kill" ELSE stop = "kill"

\* kill returns; its caller goes on.
Killed(k) ==
    IF k = "start"
      THEN start' = "none" /\ stop' = stop
      ELSE stop' = "remove" /\ start' = start

\* The process may or may not end on SIGTERM.
KillTerm(k) ==
    /\ Wants(k) /\ kill[k] = "none"
    /\ \/ proc' = proc
       \/ Alive(cmd) /\ proc' = [proc EXCEPT ![cmd] = "dead"]
    /\ kill' = [kill EXCEPT ![k] = "termed"]
    /\ UNCHANGED <<sock, hungUp, startVars, watch, flagVars, loopVars, stopVars, awaited>>

\* The goroutine reads in.cmd again and waits for that process ...
KillAwait(k) ==
    /\ kill[k] = "termed"
    /\ awaited' = [awaited EXCEPT ![k] = cmd]
    /\ kill'    = [kill EXCEPT ![k] = "waiting"]
    /\ UNCHANGED <<procVars, startVars, watch, flagVars, loopVars, stopVars>>

KillSeen(k) ==
    /\ kill[k] = "waiting" /\ ~Alive(awaited[k])
    /\ kill' = [kill EXCEPT ![k] = "none"]
    /\ Killed(k)
    /\ UNCHANGED <<procVars, cmd, conn, managed, watch, flagVars, loopVars, racing, awaited>>

\* Mutant: no time limit, the end of the process is waited for.
KillPatient(k) ==
    /\ kill[k] = "waiting" /\ ~Alive(awaited[k])
    /\ kill' = [kill EXCEPT ![k] = "none"]
    /\ Killed(k)
    /\ UNCHANGED <<procVars, cmd, conn, managed, watch, flagVars, loopVars, racing, awaited>>

\* ... and after 3 s SIGKILL goes to the process that in.cmd names by then.
KillForce(k) ==
    /\ kill[k] \in {"termed", "waiting"}
    /\ proc' = [proc EXCEPT ![cmd] = "dead"]
    /\ kill' = [kill EXCEPT ![k] = "none"]
    /\ Killed(k)
    /\ UNCHANGED <<sock, hungUp, cmd, conn, managed, watch, flagVars, loopVars, racing, awaited>>

-----------------------------------------------------------------------------
(* watch.                                                                  *)

\* Mutant: the connection's end is taken for the end of the process.
WatchHangup(p) ==
    /\ watch[p] = "wait"
    /\ healthy'   = FALSE
    /\ lastError' = IF stop = "run" THEN TRUE ELSE lastError
    /\ watch'     = [watch EXCEPT ![p] = IF stop = "run" THEN "sleep" ELSE "gone"]
    /\ UNCHANGED <<procVars, startVars, loopVars, stopVars, killVars>>

\* cmd.Wait returns; unless stopped, the streams are failed and watch sleeps.
WatchExit(p) ==
    /\ watch[p] = "wait" /\ ~Alive(p)
    /\ healthy'   = FALSE
    /\ lastError' = IF stop = "run" THEN TRUE ELSE lastError
    /\ watch'     = [watch EXCEPT ![p] = IF stop = "run" THEN "sleep" ELSE "gone"]
    /\ UNCHANGED <<procVars, startVars, loopVars, stopVars, killVars>>

\* Mutant: in.stopped is not looked at again after the sleep.
WatchRestart(p) ==
    /\ watch[p] = "sleep"
    /\ watch' = [watch EXCEPT ![p] = "gone"]
    /\ start' = "remove"
    /\ UNCHANGED <<procVars, cmd, conn, managed, flagVars, loopVars, stopVars, killVars>>

\* A second later it calls Start once, whose error it ignores.
WatchWake(p) ==
    /\ watch[p] = "sleep"
    /\ watch' = [watch EXCEPT ![p] = "gone"]
    /\ start' = IF stop = "run" THEN "remove" ELSE start
    /\ UNCHANGED <<procVars, cmd, conn, managed, flagVars, loopVars, stopVars, killVars>>

-----------------------------------------------------------------------------
(* healthLoop: every 15 s a call of plugin.health, limited to 3 s.         *)

HealthTick ==
    /\ loop = "idle"
    /\ checked' = [of |-> conn, ok |-> FALSE]
    /\ loop'    = "calling"
    /\ UNCHANGED <<procVars, startVars, watch, flagVars, stopVars, killVars>>

HealthReply ==
    /\ loop = "calling"
    /\ \/ proc[checked.of] = "listening" /\ ~hungUp[checked.of] /\ checked' = [checked EXCEPT !.ok = TRUE]
       \/ (EnvFails \/ ~Alive(checked.of) \/ hungUp[checked.of]) /\ checked' = checked
    /\ loop' = "heard"
    /\ UNCHANGED <<procVars, startVars, watch, flagVars, stopVars, killVars>>

\* Mutant: only a good answer is recorded.
HealthGood ==
    /\ loop = "heard"
    /\ healthy' = (healthy \/ checked.ok)
    /\ loop'    = "idle"
    /\ UNCHANGED <<procVars, startVars, watch, lastError, checked, stopVars, killVars>>

\* The result is written whatever happened since the answer.
HealthSet ==
    /\ loop = "heard"
    /\ healthy' = checked.ok
    /\ loop'    = "idle"
    /\ UNCHANGED <<procVars, startVars, watch, lastError, checked, stopVars, killVars>>

HealthStop ==
    /\ loop = "idle" /\ stop # "run"
    /\ loop' = "gone"
    /\ UNCHANGED <<procVars, startVars, watch, flagVars, checked, stopVars, killVars>>

-----------------------------------------------------------------------------
(* Stop, called by the Manager for the instances it has.                   *)

StopBegin ==
    /\ managed /\ stop = "run"
    /\ stop'      = "hangup"
    /\ lastError' = FALSE
    /\ racing'    = (start # "none")
    /\ UNCHANGED <<procVars, startVars, watch, healthy, loopVars, killVars>>

StopHangup ==
    /\ stop = "hangup"
    /\ hungUp' = [hungUp EXCEPT ![conn] = TRUE]
    /\ stop'   = "kill"
    /\ UNCHANGED <<proc, sock, startVars, watch, flagVars, loopVars, racing, killVars>>

StopRemove ==
    /\ stop = "remove"
    /\ sock' = 0
    /\ stop' = "done"
    /\ UNCHANGED <<proc, hungUp, startVars, watch, flagVars, loopVars, racing, killVars>>

-----------------------------------------------------------------------------
ProcStep(p) == ProcBind(p) \/ ProcListen(p)

StartStep ==
    \/ StartRemove \/ StartSpawn \/ SpawnFail \/ SocketSeen \/ SocketTimeout
    \/ Dial \/ DialFail \/ HandshakeOk \/ HandshakeFail

KillStep(k) == KillTerm(k) \/ KillAwait(k) \/ KillSeen(k) \/ KillForce(k)

WatchStep(p) == WatchExit(p) \/ WatchWake(p)

LoopStep == HealthTick \/ HealthReply \/ HealthSet \/ HealthStop

StopStep == StopHangup \/ StopRemove

Next ==
    \/ \E p \in Proc : ProcStep(p) \/ Crash(p) \/ WatchStep(p)
    \/ StartStep \/ LoopStep
    \/ \E k \in Killer : KillStep(k)
    \/ StopBegin \/ StopStep

Spec == Init /\ [][Next]_vars

\* Fairness: the host's goroutines and a started plugin run.  Crash and Stop
\* need not happen.
Fairness ==
    /\ \A p \in Proc : WF_vars(ProcStep(p)) /\ WF_vars(WatchStep(p))
    /\ WF_vars(StartStep) /\ WF_vars(StopStep)
    /\ WF_vars(HealthTick) /\ WF_vars(HealthReply) /\ WF_vars(HealthSet) /\ WF_vars(HealthStop)
    /\ \A k \in Killer : WF_vars(KillStep(k))

FairSpec == Spec /\ Fairness

-----------------------------------------------------------------------------
\* The values each variable ranges over.
TypeOK ==
    /\ proc \in [Proc -> {"none", "started", "bound", "listening", "dead"}]
    /\ sock \in 0 .. MaxProc /\ cmd \in 0 .. MaxProc /\ conn \in 0 .. MaxProc
    /\ hungUp \in [Proc -> BOOLEAN]
    /\ start \in {"none", "remove", "spawn", "wait", "dial", "handshake", "kill"}
    /\ start \in {"wait", "dial", "handshake", "kill"} => cmd # 0
    /\ start = "handshake" \/ managed => conn # 0
    /\ managed \in BOOLEAN
    /\ watch \in [Proc -> {"none", "wait", "sleep", "gone"}]
    /\ healthy \in BOOLEAN /\ lastError \in BOOLEAN
    /\ loop \in {"off", "idle", "calling", "heard", "gone"}
    /\ checked \in [of : 0 .. MaxProc, ok : BOOLEAN]
    /\ loop \in {"calling", "heard"} => checked.of # 0
    /\ stop \in {"run", "hangup", "kill", "remove", "done"}
    /\ stop # "run" => managed
    /\ kill \in [Killer -> {"none", "termed", "waiting"}]
    /\ \A k \in Killer : kill[k] # "none" => Wants(k)
    /\ \A k \in Killer : kill[k] = "waiting" => awaited[k] # 0
    /\ awaited \in [Killer -> 0 .. MaxProc]
    /\ racing \in BOOLEAN

\* Never two processes of one instance at a time, through crashes, failing
\* restarts and Stop: the next is spawned only after cmd.Wait or kill of the
\* one before.  (They would share one socket path and one credential.)
OneProcess == \A p, q \in Live : p = q

\* A live process is never forgotten: Start is still at work on it, or its
\* watcher waits for it.  Every error return of Start kills what it spawned.
Supervised ==
    \A p \in Live :
        \/ start \in {"wait", "dial", "handshake", "kill"} /\ cmd = p
        \/ watch[p] = "wait"

\* After Stop has returned and nobody is in Start, a process is left only if a
\* restart was already under way when Stop began (Stop does not wait for it),
\* and the error of a deliberate stop is never shown as a crash.
StopLeavesNothing ==
    /\ stop = "done" /\ start = "none" /\ ~racing => Live = {}
    /\ stop # "run" => ~lastError

\* The life of the processes as module Supervision sees it, from the moment the
\* Manager has the instance.
Used == IF managed THEN conn ELSE 1
Up   == managed => Alive(conn)

Watching(how) == \E p \in Proc : watch[p] = how

Phase ==
    IF ~managed \/ Watching("wait") THEN "watched"
    ELSE IF Watching("sleep") THEN "noticed"
    ELSE IF start = "none" THEN "left"
    ELSE IF start \in {"handshake", "kill"} /\ conn = cmd THEN "greeting"
    ELSE "restarting"

Stopping ==
    IF stop = "run" THEN "run"
    ELSE IF stop \in {"remove", "done"} THEN "stopped"
    ELSE IF racing THEN "racing" ELSE "stopping"

Supervisor == INSTANCE Supervision WITH used <- Used, up <- Up, phase <- Phase, stop <- Stopping

\* Through crashes, failing restarts and Stop, the processes live as module
\* Supervision says, which is what InstanceStreams takes for granted about them.
Supervises == Supervisor!Spec

\* An instance without a process does not stay healthy, although the health
\* loop may overwrite what watch recorded with an answer from before the crash.
HealthSettles ==
    (managed /\ Live = {} /\ start = "none" /\ (\A p \in Proc : watch[p] # "sleep"))
        ~> (~healthy \/ stop # "run")

\* Stop returns, whoever is in Start and whatever process in.cmd names.
StopReturns == (stop = "hangup") ~> (stop = "done")

\* A crashed plugin that nobody stopped runs again.
Recovers ==
    (\E p \in Proc : watch[p] = "sleep" /\ stop = "run")
        ~> (stop # "run" \/ \E p \in Proc : watch[p] = "wait" /\ Alive(p))
=============================================================================
