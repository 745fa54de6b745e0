------------------------ MODULE PluginLifecycle_proofs ------------------------
(***************************************************************************)
(* Proofs about PluginLifecycle for any number of processes.  ProcInv      *)
(* says where the one live process is and who holds it, StopInv follows    *)
(* the caller of Stop.  TypeOK is inductive only together with ProcInv:    *)
(* that a watcher does not call Start while another goroutine is in it is  *)
(* a fact about processes.                                                 *)
(***************************************************************************)
EXTENDS PluginLifecycle, TLAPS

\* TypeOK with what it needs to be kept: who is managed has a process to name.
TypeInv ==
    /\ TypeOK
    /\ managed => cmd # 0
    /\ loop # "off" => managed

\* The plugin has no process.
NoneAlive == \A p \in Proc : ~Alive(p)

\* Only the process in in.cmd can live, and at most one party is responsible for it:
\* Start, a watcher that waits or a watcher that sleeps.
ProcInv ==
    /\ \A p \in Proc : p > cmd => proc[p] = "none" /\ watch[p] = "none"
    /\ \A p \in Proc : Alive(p) => p = cmd
    /\ start \in {"remove", "spawn"} => NoneAlive
    /\ \A p \in Proc : watch[p] \in {"wait", "sleep"} => start = "none" /\ p = cmd
    /\ \A p \in Proc : watch[p] = "sleep" => ~Alive(p)
    /\ \A p \in Proc : Alive(p) /\ watch[p] # "wait" => start \in {"wait", "dial", "handshake", "kill"}
    /\ kill["start"] = "waiting" => awaited["start"] = cmd

\* What Stop relies on unless it met somebody in Start.
StopInv ==
    /\ stop # "run" => ~lastError
    /\ stop # "run" /\ ~racing => start = "none"
    /\ kill["stop"] = "waiting" /\ ~racing => awaited["stop"] = cmd
    /\ stop \in {"remove", "done"} /\ ~racing => NoneAlive

-----------------------------------------------------------------------------
\* What a step of any goroutine does to the values of the variables.
LEMMA TypeInit == Init => TypeInv
<1> SUFFICES ASSUME Init PROVE TypeInv
  OBVIOUS
<1>1. proc \in [Proc -> {"none", "started", "bound", "listening", "dead"}]
      /\ watch \in [Proc -> {"none", "wait", "sleep", "gone"}]
      /\ kill \in [Killer -> {"none", "termed", "waiting"}]
  BY DEF Init
<1>2. hungUp \in [Proc -> BOOLEAN] /\ managed \in BOOLEAN /\ healthy \in BOOLEAN
      /\ lastError \in BOOLEAN /\ racing \in BOOLEAN
  BY Zenon DEF Init
<1>3. sock \in 0 .. MaxProc /\ cmd \in 0 .. MaxProc /\ conn \in 0 .. MaxProc
      /\ awaited \in [Killer -> 0 .. MaxProc] /\ 0 \in 0 .. MaxProc
  BY ProcAssumption DEF Init
<1>4. checked \in [of : 0 .. MaxProc, ok : BOOLEAN]
  BY <1>3, Zenon DEF Init
<1>5. (\A k \in Killer : kill[k] # "none" => Wants(k)) /\ (\A k \in Killer : kill[k] = "waiting" => awaited[k] # 0)
  BY DEF Init
<1>6. start = "remove" /\ ~managed /\ loop = "off" /\ stop = "run"
  BY DEF Init
<1> QED
  BY <1>1, <1>2, <1>3, <1>4, <1>5, <1>6, Zenon DEF TypeInv, TypeOK

\* Every step keeps the types.
LEMMA TypeStep == TypeInv /\ ProcInv /\ [Next]_vars => TypeInv'
<1> SUFFICES ASSUME TypeInv, ProcInv, [Next]_vars PROVE TypeInv'
  OBVIOUS
<1> USE ProcAssumption DEF TypeInv, TypeOK, procVars, startVars, flagVars, loopVars, stopVars, killVars
<1>1. ASSUME NEW p \in Proc, ProcStep(p) \/ Crash(p) PROVE TypeInv'
  <2>1. CASE ProcBind(p)
    BY <2>1 DEF ProcBind, Proc, Killer, Wants
  <2>2. CASE ProcListen(p)
    BY <2>2 DEF ProcListen, Proc, Killer, Wants
  <2>3. CASE Crash(p)
    BY <2>3 DEF Crash, Proc, Killer, Wants
  <2> QED
    BY <1>1, <2>1, <2>2, <2>3 DEF ProcStep
<1>2. ASSUME NEW p \in Proc, WatchStep(p) PROVE TypeInv'
  <2>1. CASE WatchExit(p)
    <3>1. healthy' \in BOOLEAN /\ lastError' \in BOOLEAN
      BY <2>1 DEF WatchExit
    <3>2. watch' = [watch EXCEPT ![p] = "sleep"] \/ watch' = [watch EXCEPT ![p] = "gone"]
      BY <2>1 DEF WatchExit
    <3>3. watch' \in [Proc -> {"none", "wait", "sleep", "gone"}]
      BY <3>2
    <3>4. UNCHANGED <<proc, hungUp, sock, cmd, conn, start, managed, loop, checked, stop, racing, kill, awaited>>
      BY <2>1 DEF WatchExit
    <3> QED BY <3>1, <3>3, <3>4 DEF Wants
  <2>2. CASE WatchWake(p)
    BY <2>2 DEF WatchWake, ProcInv, Proc, Killer, Wants
  <2> QED
    BY <1>2, <2>1, <2>2 DEF WatchStep
<1>3. CASE StartStep
  <2>1. CASE StartRemove
    BY <2>1 DEF StartRemove, Proc, Killer, Wants
  <2>2. CASE StartSpawn
    BY <2>2 DEF StartSpawn, Proc, Killer, Wants
  <2>3. CASE SpawnFail \/ SocketSeen \/ SocketTimeout
    BY <2>3 DEF SpawnFail, SocketSeen, SocketTimeout, Proc, Killer, Wants
  <2>4. CASE Dial
    BY <2>4 DEF Dial, Listening, Proc, Killer, Wants
  <2>5. CASE DialFail \/ HandshakeFail
    BY <2>5 DEF DialFail, HandshakeFail, Proc, Killer, Wants
  <2>6. CASE HandshakeOk
    BY <2>6 DEF HandshakeOk, Proc, Killer, Wants
  <2> QED
    BY <1>3, <2>1, <2>2, <2>3, <2>4, <2>5, <2>6 DEF StartStep
<1>4. CASE LoopStep
  <2>1. CASE HealthTick
    BY <2>1 DEF HealthTick, Proc, Killer, Wants
  <2>2. CASE HealthReply
    <3>1. checked' \in [of : 0 .. MaxProc, ok : BOOLEAN] /\ checked'.of = checked.of
      BY <2>2 DEF HealthReply
    <3>2. loop = "calling" /\ loop' = "heard"
      BY <2>2 DEF HealthReply
    <3>3. UNCHANGED <<proc, hungUp, sock, cmd, conn, start, managed, watch, healthy, lastError, stop, racing,
                      kill, awaited>>
      BY <2>2 DEF HealthReply
    <3> QED BY <3>1, <3>2, <3>3 DEF Wants
  <2>3. CASE HealthSet
    BY <2>3 DEF HealthSet, Proc, Killer, Wants
  <2>4. CASE HealthStop
    BY <2>4 DEF HealthStop, Proc, Killer, Wants
  <2> QED
    BY <1>4, <2>1, <2>2, <2>3, <2>4 DEF LoopStep
<1>5. ASSUME NEW k \in Killer, KillStep(k) PROVE TypeInv'
  <2>1. CASE KillTerm(k)
    BY <1>5, <2>1 DEF KillTerm, Proc, Killer, Wants
  <2>2. CASE KillAwait(k)
    BY <1>5, <2>2 DEF KillAwait, Proc, Killer, Wants
  <2>3. CASE KillSeen(k)
    BY <1>5, <2>3 DEF KillSeen, Killed, Proc, Killer, Wants
  <2>4. CASE KillForce(k)
    BY <1>5, <2>4 DEF KillForce, Killed, Proc, Killer, Wants
  <2> QED
    BY <1>5, <2>1, <2>2, <2>3, <2>4 DEF KillStep
<1>6. CASE StopBegin
  BY <1>6 DEF StopBegin, Proc, Killer, Wants
<1>7. CASE StopStep
  <2>1. CASE StopHangup
    BY <2>1 DEF StopHangup, Proc, Killer, Wants
  <2>2. CASE StopRemove
    BY <2>2 DEF StopRemove, Proc, Killer, Wants
  <2> QED
    BY <1>7, <2>1, <2>2 DEF StopStep
<1>8. CASE UNCHANGED vars
  BY <1>8 DEF vars, Wants
<1> QED
  BY <1>1, <1>2, <1>3, <1>4, <1>5, <1>6, <1>7, <1>8 DEF Next

-----------------------------------------------------------------------------
\* Where the live process is.
LEMMA ProcInit == Init => ProcInv
  BY ProcAssumption DEF Init, ProcInv, NoneAlive, Alive, Proc, Killer

\* Every step keeps one process in one party's hands.
LEMMA ProcPreserved == TypeInv /\ ProcInv /\ [Next]_vars => ProcInv'
<1> SUFFICES ASSUME TypeInv, ProcInv, [Next]_vars PROVE ProcInv'
  OBVIOUS
<1> USE ProcAssumption DEF TypeInv, TypeOK, ProcInv, Alive, NoneAlive, Wants, Proc, Killer,
        procVars, startVars, flagVars, loopVars, stopVars, killVars
<1>1. ASSUME NEW p \in Proc, ProcStep(p) \/ Crash(p) PROVE ProcInv'
  <2>1. CASE ProcBind(p)
    BY <2>1 DEF ProcBind
  <2>2. CASE ProcListen(p)
    BY <2>2 DEF ProcListen
  <2>3. CASE Crash(p)
    BY <2>3 DEF Crash
  <2> QED
    BY <1>1, <2>1, <2>2, <2>3 DEF ProcStep
<1>2. ASSUME NEW p \in Proc, WatchStep(p) PROVE ProcInv'
  <2>1. CASE WatchExit(p)
    BY <2>1 DEF WatchExit
  <2>2. CASE WatchWake(p)
    BY <2>2 DEF WatchWake
  <2> QED
    BY <1>2, <2>1, <2>2 DEF WatchStep
<1>3. CASE StartStep
  <2>1. CASE StartRemove
    BY <2>1 DEF StartRemove
  <2>2. CASE StartSpawn
    BY <2>2 DEF StartSpawn
  <2>3. CASE SpawnFail \/ SocketSeen \/ SocketTimeout
    BY <2>3 DEF SpawnFail, SocketSeen, SocketTimeout
  <2>4. CASE Dial
    BY <2>4 DEF Dial
  <2>5. CASE DialFail \/ HandshakeFail
    BY <2>5 DEF DialFail, HandshakeFail
  <2>6. CASE HandshakeOk
    BY <2>6 DEF HandshakeOk
  <2> QED
    BY <1>3, <2>1, <2>2, <2>3, <2>4, <2>5, <2>6 DEF StartStep
<1>4. CASE LoopStep
  BY <1>4 DEF LoopStep, HealthTick, HealthReply, HealthSet, HealthStop
<1>5. ASSUME NEW k \in Killer, KillStep(k) PROVE ProcInv'
  <2>1. CASE KillTerm(k)
    BY <1>5, <2>1 DEF KillTerm
  <2>2. CASE KillAwait(k)
    BY <1>5, <2>2 DEF KillAwait
  <2>3. CASE KillSeen(k)
    BY <1>5, <2>3 DEF KillSeen, Killed
  <2>4. CASE KillForce(k)
    BY <1>5, <2>4 DEF KillForce, Killed
  <2> QED
    BY <1>5, <2>1, <2>2, <2>3, <2>4 DEF KillStep
<1>6. CASE StopBegin
  BY <1>6 DEF StopBegin
<1>7. CASE StopStep
  BY <1>7 DEF StopStep, StopHangup, StopRemove
<1>8. CASE UNCHANGED vars
  BY <1>8 DEF vars
<1> QED
  BY <1>1, <1>2, <1>3, <1>4, <1>5, <1>6, <1>7, <1>8 DEF Next

\* Every variable keeps its type, whoever calls Start, kill and Stop together.
THEOREM TypeCorrect == Spec => []TypeOK
<1>1. TypeInv => TypeOK
  BY DEF TypeInv
<1> QED
  BY TypeInit, TypeStep, ProcInit, ProcPreserved, <1>1, PTL DEF Spec
\* At most one process of an instance lives at a time.
THEOREM OneAtATime == Spec => []OneProcess
<1>1. ProcInv => OneProcess
  BY DEF ProcInv, OneProcess, Live
<1> QED
  BY TypeInit, TypeStep, ProcInit, ProcPreserved, <1>1, PTL DEF Spec

\* A live process is held by Start or by its watcher.
THEOREM NoneForgotten == Spec => []Supervised
<1>1. ProcInv => Supervised
  BY DEF ProcInv, Supervised, Live
<1> QED
  BY TypeInit, TypeStep, ProcInit, ProcPreserved, <1>1, PTL DEF Spec

-----------------------------------------------------------------------------
\* What Stop leaves behind.
LEMMA StopInit == Init => StopInv
  BY DEF Init, StopInv, Killer

\* Every step keeps what Stop relies on.
LEMMA StopPreserved == TypeInv /\ ProcInv /\ StopInv /\ [Next]_vars => StopInv'
<1> SUFFICES ASSUME TypeInv, ProcInv, StopInv, [Next]_vars PROVE StopInv'
  OBVIOUS
<1> USE ProcAssumption DEF TypeInv, TypeOK, ProcInv, StopInv, Alive, NoneAlive, Wants, Proc, Killer,
        procVars, startVars, flagVars, loopVars, stopVars, killVars
<1>1. ASSUME NEW p \in Proc, ProcStep(p) \/ Crash(p) PROVE StopInv'
  BY <1>1 DEF ProcStep, ProcBind, ProcListen, Crash
<1>2. ASSUME NEW p \in Proc, WatchStep(p) PROVE StopInv'
  <2>1. CASE WatchExit(p)
    BY <2>1 DEF WatchExit
  <2>2. CASE WatchWake(p)
    BY <2>2 DEF WatchWake
  <2> QED
    BY <1>2, <2>1, <2>2 DEF WatchStep
<1>3. CASE StartStep
  BY <1>3 DEF StartStep, StartRemove, StartSpawn, SpawnFail, SocketSeen, SocketTimeout, Dial,
              Listening, DialFail, HandshakeOk, HandshakeFail
<1>4. CASE LoopStep
  BY <1>4 DEF LoopStep, HealthTick, HealthReply, HealthSet, HealthStop
<1>5. ASSUME NEW k \in Killer, KillStep(k) PROVE StopInv'
  <2>1. CASE KillTerm(k)
    BY <1>5, <2>1 DEF KillTerm
  <2>2. CASE KillAwait(k)
    BY <1>5, <2>2 DEF KillAwait
  <2>3. CASE KillSeen(k)
    BY <1>5, <2>3 DEF KillSeen, Killed
  <2>4. CASE KillForce(k)
    BY <1>5, <2>4 DEF KillForce, Killed
  <2> QED
    BY <1>5, <2>1, <2>2, <2>3, <2>4 DEF KillStep
<1>6. CASE StopBegin
  BY <1>6 DEF StopBegin
<1>7. CASE StopStep
  BY <1>7 DEF StopStep, StopHangup, StopRemove
<1>8. CASE UNCHANGED vars
  BY <1>8 DEF vars
<1> QED
  BY <1>1, <1>2, <1>3, <1>4, <1>5, <1>6, <1>7, <1>8 DEF Next

\* A Stop that met no restart in progress leaves no process, and a deliberate
\* stop is not shown as a crash.
THEOREM StopIsClean == Spec => []StopLeavesNothing
<1>1. StopInv => StopLeavesNothing
  BY DEF StopInv, StopLeavesNothing, NoneAlive, Live
<1> QED
  BY TypeInit, TypeStep, ProcInit, ProcPreserved, StopInit, StopPreserved, <1>1, PTL DEF Spec

-----------------------------------------------------------------------------
(* The processes live as module Supervision says.                          *)

\* Where in.conn leads: to the process in in.cmd, or while Start has spawned the
\* next and has not dialled it, to the one before.
ConnInv ==
    /\ start \in {"remove", "spawn", "handshake"} => conn = cmd
    /\ start \in {"wait", "dial"} => cmd = conn + 1
    /\ \A p \in Proc : watch[p] \in {"wait", "sleep"} => conn = p
    /\ ~managed => cmd <= 1 /\ \A p \in Proc : watch[p] = "none"
    /\ ~managed /\ start \in {"remove", "spawn"} => cmd = 0

\* At first there is neither.
LEMMA ConnInit == Init => ConnInv
  BY DEF Init, ConnInv

\* Every step keeps that.
LEMMA ConnPreserved == TypeInv /\ ProcInv /\ ConnInv /\ [Next]_vars => ConnInv'
<1> SUFFICES ASSUME TypeInv, ProcInv, ConnInv, [Next]_vars PROVE ConnInv'
  OBVIOUS
<1> USE ProcAssumption DEF TypeInv, TypeOK, ConnInv, Proc, Killer,
        procVars, startVars, flagVars, loopVars, stopVars, killVars
<1>1. ASSUME UNCHANGED <<start, conn, cmd, watch, managed>> PROVE ConnInv'
  BY <1>1
<1>2. ASSUME NEW p \in Proc, ProcStep(p) \/ Crash(p) PROVE ConnInv'
  BY <1>1, <1>2 DEF ProcStep, ProcBind, ProcListen, Crash
<1>3. ASSUME NEW p \in Proc, WatchStep(p) PROVE ConnInv'
  <2>1. CASE WatchExit(p)
    BY <2>1 DEF WatchExit
  <2>2. CASE WatchWake(p)
    BY <2>2 DEF WatchWake, ProcInv
  <2> QED BY <1>3, <2>1, <2>2 DEF WatchStep
<1>4. CASE StartStep
  <2>1. CASE StartRemove
    BY <2>1 DEF StartRemove
  <2>2. CASE StartSpawn
    BY <2>2 DEF StartSpawn
  <2>3. CASE SpawnFail \/ SocketSeen \/ SocketTimeout
    BY <2>3 DEF SpawnFail, SocketSeen, SocketTimeout
  <2>4. CASE Dial
    BY <2>4 DEF Dial, Listening, ProcInv, Alive
  <2>5. CASE DialFail \/ HandshakeFail
    BY <2>5 DEF DialFail, HandshakeFail
  <2>6. CASE HandshakeOk
    BY <2>6 DEF HandshakeOk, ProcInv
  <2> QED BY <1>4, <2>1, <2>2, <2>3, <2>4, <2>5, <2>6 DEF StartStep
<1>5. CASE LoopStep \/ StopBegin \/ StopStep
  BY <1>1, <1>5 DEF LoopStep, HealthTick, HealthReply, HealthSet, HealthStop, StopBegin,
                    StopStep, StopHangup, StopRemove
<1>6. ASSUME NEW k \in Killer, KillStep(k) PROVE ConnInv'
  <2>1. CASE KillTerm(k) \/ KillAwait(k)
    BY <1>1, <2>1 DEF KillTerm, KillAwait
  <2>2. CASE KillSeen(k) \/ KillForce(k)
    BY <2>2 DEF KillSeen, KillForce, Killed
  <2> QED BY <1>6, <2>1, <2>2 DEF KillStep
<1>7. CASE UNCHANGED vars
  BY <1>1, <1>7 DEF vars
<1> QED BY <1>2, <1>3, <1>4, <1>5, <1>6, <1>7 DEF Next

\* The phases, told apart by where Start and the watchers are.
LEMMA Phases ==
    ASSUME managed
    PROVE  /\ Watching("wait") => Phase = "watched"
           /\ ~Watching("wait") /\ Watching("sleep") => Phase = "noticed"
           /\ ~Watching("wait") /\ ~Watching("sleep") =>
                 /\ start = "none" => Phase = "left"
                 /\ start \in {"handshake", "kill"} /\ conn = cmd => Phase = "greeting"
                 /\ start \in {"remove", "spawn", "wait", "dial"} => Phase = "restarting"
                 /\ start = "kill" /\ conn # cmd => Phase = "restarting"
BY DEF Phase

\* The same of the next state.
LEMMA NextPhases ==
    ASSUME managed'
    PROVE  /\ Watching("wait")' => Phase' = "watched"
           /\ ~Watching("wait")' /\ Watching("sleep")' => Phase' = "noticed"
           /\ ~Watching("wait")' /\ ~Watching("sleep")' =>
                 /\ start' = "none" => Phase' = "left"
                 /\ start' \in {"handshake", "kill"} /\ conn' = cmd' => Phase' = "greeting"
                 /\ start' \in {"remove", "spawn", "wait", "dial"} => Phase' = "restarting"
                 /\ start' = "kill" /\ conn' # cmd' => Phase' = "restarting"
BY DEF Phase

\* Until the Manager has the instance, Supervision is in its first state.
LEMMA Unmanaged ==
    /\ ~managed => Used = 1 /\ Up = TRUE /\ Phase = "watched"
    /\ ~managed' => Used' = 1 /\ Up' = TRUE /\ Phase' = "watched"
BY DEF Used, Up, Phase

\* Every step is a step of Supervision or none.
LEMMA SuperviseStep ==
    ASSUME TypeInv, ProcInv, ConnInv, StopInv, [Next]_vars, TypeInv'
    PROVE  [Supervisor!Next]_(Supervisor!vars)
<1> USE ProcAssumption DEF TypeInv, TypeOK, Proc, Killer,
        procVars, startVars, flagVars, loopVars, stopVars, killVars
<1> DEFINE same == UNCHANGED <<conn, cmd, start, watch, managed>>
<1>1. same => UNCHANGED <<Used, Phase>>
  BY DEF Used, Phase, Watching
<1>2. UNCHANGED <<stop, racing>> => UNCHANGED Stopping
  BY DEF Stopping
<1>3. same /\ proc' = proc => UNCHANGED Up
  BY DEF Up, Alive
<1>4. ASSUME same, UNCHANGED <<proc, stop, racing>> PROVE UNCHANGED Supervisor!vars
  BY <1>1, <1>2, <1>3, <1>4 DEF Supervisor!vars
<1>5. ASSUME same, UNCHANGED <<stop, racing>>, NEW p \in Proc, proc' = [proc EXCEPT ![p] = "dead"]
      PROVE  [Supervisor!Next]_(Supervisor!vars)
  <2>1. Up \in BOOLEAN /\ Up' \in BOOLEAN
    BY DEF Up, Alive
  <2>2. ~Up => ~Up'
    BY <1>5 DEF Up, Alive
  <2>3. CASE Up /\ ~Up'
    <3>1. Up = TRUE /\ Up' = FALSE
      BY <2>1, <2>3
    <3>2. Supervisor!Dies
      BY <1>1, <1>2, <1>5, <3>1 DEF Supervisor!Dies
    <3> QED BY <3>2 DEF Supervisor!Next
  <2>4. CASE Up <=> Up'
    <3>1. Up' = Up
      BY <2>1, <2>4
    <3> QED BY <1>1, <1>2, <1>5, <3>1 DEF Supervisor!vars
  <2> QED BY <2>2, <2>3, <2>4
<1>6. CASE ~managed /\ ~managed'
  <2>1. stop = "run" /\ stop' = "run"
    BY <1>6
  <2> QED BY <1>6, <2>1, Unmanaged DEF Stopping, Supervisor!vars
<1>7. (stop = "run" <=> Stopping = "run") /\ (Supervisor!Stopped <=> stop # "run")
  BY DEF Stopping, Supervisor!Stopped
<1>8. start # "none" => ~Watching("wait") /\ ~Watching("sleep")
  BY DEF ProcInv, Watching
<1>9. ASSUME NEW p \in Proc, ProcStep(p) \/ Crash(p), managed PROVE [Supervisor!Next]_(Supervisor!vars)
  <2>1. CASE ProcStep(p)
    <3>1. same /\ UNCHANGED <<stop, racing>>
      BY <2>1 DEF ProcStep, ProcBind, ProcListen
    <3>2. \A q \in Proc : Alive(q)' <=> Alive(q)
      BY <2>1 DEF ProcStep, ProcBind, ProcListen, Alive
    <3>3. conn \in Proc /\ conn' = conn
      BY <1>9, <3>1
    <3>4. Up' = Up
      BY <3>1, <3>2, <3>3 DEF Up, Alive
    <3> QED BY <1>1, <1>2, <3>1, <3>4 DEF Supervisor!vars
  <2>2. CASE Crash(p)
    BY <1>5, <2>2 DEF Crash
  <2> QED BY <1>9, <2>1, <2>2
<1>10. ASSUME NEW p \in Proc, WatchExit(p) PROVE Supervisor!Next
  <2>1. managed /\ managed' /\ conn = p /\ conn' = p /\ start = "none" /\ start' = "none" /\ p = cmd
    BY <1>10 DEF WatchExit, ConnInv, ProcInv
  <2>2. Up = FALSE /\ Up' = FALSE /\ Used' = Used
    BY <1>10, <2>1 DEF WatchExit, Up, Used, Alive
  <2>3. Watching("wait") /\ ~Watching("wait")' /\ (Watching("sleep")' <=> stop = "run")
    BY <1>10, <2>1 DEF WatchExit, ProcInv, Watching
  <2>4. Phase = "watched" /\ Phase' = IF stop = "run" THEN "noticed" ELSE "left"
    BY <2>1, <2>3, Phases, NextPhases
  <2>5. Stopping' = Stopping
    BY <1>2, <1>10 DEF WatchExit
  <2>6. Supervisor!Notices
    BY <1>7, <2>2, <2>4, <2>5 DEF Supervisor!Notices
  <2> QED BY <2>6 DEF Supervisor!Next
<1>11. ASSUME NEW p \in Proc, WatchWake(p) PROVE Supervisor!Next
  <2>1. managed /\ managed' /\ conn' = conn /\ proc' = proc /\ start = "none" /\ p = cmd
    BY <1>11 DEF WatchWake, ConnInv, ProcInv
  <2>2. Up' = Up /\ Used' = Used
    BY <2>1 DEF Up, Used, Alive
  <2>3. ~Watching("wait") /\ Watching("sleep") /\ ~Watching("wait")' /\ ~Watching("sleep")'
    BY <1>11, <2>1 DEF WatchWake, ProcInv, Watching
  <2>4. start' = IF stop = "run" THEN "remove" ELSE "none"
    BY <1>11, <2>1 DEF WatchWake
  <2>5. Phase = "noticed" /\ Phase' = IF stop = "run" THEN "restarting" ELSE "left"
    BY <2>1, <2>3, <2>4, Phases, NextPhases
  <2>6. Stopping' = Stopping
    BY <1>2, <1>11 DEF WatchWake
  <2>7. Supervisor!Restarts
    BY <1>7, <2>2, <2>5, <2>6 DEF Supervisor!Restarts
  <2> QED BY <2>7 DEF Supervisor!Next
<1>12. ASSUME managed, ~Watching("wait"), ~Watching("sleep"), ~Watching("wait")', ~Watching("sleep")',
              UNCHANGED <<proc, managed, conn, stop, racing>>, Phase' = Phase
       PROVE  UNCHANGED Supervisor!vars
  BY <1>2, <1>12 DEF Used, Up, Alive, Supervisor!vars
<1>13. ASSUME managed, UNCHANGED <<managed, watch, conn, stop, racing>>,
              Phase \in {"restarting", "greeting"}, Phase' = "left", Up' = FALSE
       PROVE  Supervisor!Next
  <2>1. Used' = Used /\ Stopping' = Stopping
    BY <1>2, <1>13 DEF Used
  <2>2. Supervisor!GivesUp
    BY <1>13, <2>1 DEF Supervisor!GivesUp
  <2> QED BY <2>2 DEF Supervisor!Next
<1>14. ASSUME StartStep, managed PROVE [Supervisor!Next]_(Supervisor!vars)
  <2>1. UNCHANGED <<stop, racing>> /\ managed'
    BY <1>14 DEF StartStep, StartRemove, StartSpawn, SpawnFail, SocketSeen, SocketTimeout, Dial, DialFail,
                 HandshakeOk, HandshakeFail
  <2>2. start # "none" /\ ~Watching("wait") /\ ~Watching("sleep")
    BY <1>8, <1>14 DEF StartStep, StartRemove, StartSpawn, SpawnFail, SocketSeen, SocketTimeout, Dial, DialFail,
                       HandshakeOk, HandshakeFail
  <2>3. watch' = watch => ~Watching("wait")' /\ ~Watching("sleep")'
    BY <2>2 DEF Watching
  <2>4. CASE StartRemove \/ SocketSeen \/ SocketTimeout
    <3>1. UNCHANGED <<proc, watch, managed, conn, cmd>>
      BY <2>4 DEF StartRemove, SocketSeen, SocketTimeout
    <3>2. start \in {"remove", "wait"}
          /\ \/ start' \in {"spawn", "dial"}
             \/ start' = "kill" /\ conn # cmd /\ conn' # cmd'
      BY <2>4, <3>1 DEF StartRemove, SocketSeen, SocketTimeout, ConnInv
    <3>3. Phase = "restarting" /\ Phase' = "restarting"
      BY <1>14, <2>1, <2>2, <2>3, <3>1, <3>2, Phases, NextPhases
    <3> QED BY <1>12, <1>14, <2>1, <2>2, <2>3, <3>1, <3>3
  <2>5. CASE StartSpawn
    <3>1. UNCHANGED <<watch, managed, conn>> /\ start = "spawn" /\ start' = "wait"
      BY <2>5 DEF StartSpawn
    <3>2. Phase = "restarting" /\ Phase' = "restarting"
      BY <1>14, <2>1, <2>2, <2>3, <3>1, Phases, NextPhases
    <3>3. ~Alive(conn) /\ ~Alive(conn)'
      <4>1. conn = cmd /\ conn \in Proc /\ conn # cmd + 1 /\ conn' = conn
        BY <1>14, <3>1 DEF ConnInv
      <4>2. ~Alive(conn)
        BY <3>1, <4>1 DEF ProcInv, NoneAlive
      <4>3. proc'[conn] = proc[conn]
        BY <2>5, <4>1 DEF StartSpawn
      <4> QED BY <4>1, <4>2, <4>3 DEF Alive
    <3>4. Up' = Up /\ Used' = Used
      BY <1>14, <2>1, <3>1, <3>3 DEF Up, Used
    <3> QED BY <1>2, <2>1, <3>2, <3>4 DEF Supervisor!vars
  <2>6. CASE SpawnFail
    <3>1. UNCHANGED <<proc, watch, managed, conn>> /\ start \in {"remove", "spawn"} /\ start' = "none"
      BY <2>6 DEF SpawnFail
    <3>2. Phase = "restarting" /\ Phase' = "left"
      BY <1>14, <2>1, <2>2, <2>3, <3>1, Phases, NextPhases
    <3>3. Up' = FALSE
      BY <1>14, <2>1, <3>1 DEF ProcInv, NoneAlive, Up, Alive
    <3> QED BY <1>13, <1>14, <2>1, <3>1, <3>2, <3>3
  <2>7. CASE Dial
    <3>1. UNCHANGED <<proc, watch, managed, cmd>> /\ start = "dial" /\ start' = "handshake"
      BY <2>7 DEF Dial
    <3>2. conn' = cmd /\ Alive(cmd)
      BY <2>7 DEF Dial, Listening, ProcInv, Alive
    <3>3. cmd = conn + 1 /\ ~Alive(conn)
      BY <1>14, <3>1 DEF ProcInv, ConnInv
    <3>4. Phase = "restarting" /\ Phase' = "greeting"
      BY <1>14, <2>1, <2>2, <2>3, <3>1, <3>2, <3>3, Phases, NextPhases
    <3>5. Used' = Used + 1 /\ ~Up /\ Up' = TRUE
      BY <1>14, <2>1, <3>1, <3>2, <3>3 DEF Used, Up, Alive
    <3>6. Supervisor!Connects
      BY <1>2, <2>1, <3>4, <3>5 DEF Supervisor!Connects
    <3> QED BY <3>6 DEF Supervisor!Next
  <2>8. CASE DialFail
    <3>1. UNCHANGED <<proc, watch, managed, conn, cmd>> /\ start = "dial" /\ start' = "kill" /\ conn' # cmd'
      BY <2>8 DEF DialFail, ConnInv
    <3>2. Phase = "restarting" /\ Phase' = "restarting"
      BY <1>14, <2>1, <2>2, <2>3, <3>1, Phases, NextPhases
    <3> QED BY <1>12, <1>14, <2>1, <2>2, <2>3, <3>1, <3>2
  <2>9. CASE HandshakeFail
    <3>1. UNCHANGED <<proc, watch, managed, conn, cmd>> /\ start = "handshake" /\ start' = "kill" /\ conn = cmd
      BY <2>9 DEF HandshakeFail, ConnInv
    <3>2. Phase = "greeting" /\ Phase' = "greeting"
      BY <1>14, <2>1, <2>2, <2>3, <3>1, Phases, NextPhases
    <3> QED BY <1>12, <1>14, <2>1, <2>2, <2>3, <3>1, <3>2
  <2>10. CASE HandshakeOk
    <3>1. UNCHANGED <<proc, conn, cmd>> /\ start = "handshake" /\ conn = cmd /\ Alive(conn)
      BY <2>10 DEF HandshakeOk, ConnInv, Alive
    <3>2. Phase = "greeting"
      BY <1>14, <2>2, <3>1, Phases
    <3>3. Watching("wait")'
      BY <2>10 DEF HandshakeOk, Watching
    <3>4. Phase' = "watched"
      BY <2>1, <3>3, NextPhases
    <3>5. Up = TRUE /\ Up' = TRUE /\ Used' = Used
      BY <1>14, <2>1, <3>1 DEF Up, Used, Alive
    <3>6. Supervisor!Greets
      BY <1>2, <2>1, <3>2, <3>4, <3>5 DEF Supervisor!Greets
    <3> QED BY <3>6 DEF Supervisor!Next
  <2> QED BY <1>14, <2>4, <2>5, <2>6, <2>7, <2>8, <2>9, <2>10 DEF StartStep
<1>15. CASE LoopStep
  BY <1>4, <1>15 DEF LoopStep, HealthTick, HealthReply, HealthSet, HealthStop
<1>16. ASSUME NEW k \in Killer, KillStep(k), managed PROVE [Supervisor!Next]_(Supervisor!vars)
  <2>1. CASE KillTerm(k)
    BY <1>4, <1>5, <1>16, <2>1 DEF KillTerm
  <2>2. CASE KillAwait(k)
    BY <1>4, <2>2 DEF KillAwait
  <2>3. ASSUME KillSeen(k) \/ KillForce(k) PROVE [Supervisor!Next]_(Supervisor!vars)
    <3>1. UNCHANGED <<cmd, conn, managed, watch, racing>> /\ Used' = Used
      BY <2>3 DEF KillSeen, KillForce, Used
    <3>2. KillForce(k) \/ awaited[k] = cmd => ~Alive(cmd)'
      <4>1. cmd \in Proc /\ cmd' = cmd
        BY <1>16, <3>1
      <4>2. KillForce(k) => proc'[cmd] = "dead"
        BY <4>1 DEF KillForce
      <4>3. KillSeen(k) => proc' = proc /\ ~Alive(awaited[k])
        BY DEF KillSeen
      <4> QED BY <2>3, <4>1, <4>2, <4>3 DEF Alive
    <3>3. ~Alive(cmd)' => Up' = FALSE
      BY <1>16, <2>3, <3>1 DEF KillSeen, KillForce, ProcInv, Up, Alive
    <3>4. CASE k = "start"
      <4>1. start = "kill" /\ start' = "none" /\ stop' = stop
        BY <2>3, <3>4 DEF KillSeen, KillForce, Killed, Wants
      <4>2. ~Watching("wait") /\ ~Watching("sleep") /\ ~Watching("wait")' /\ ~Watching("sleep")'
        BY <1>8, <3>1, <4>1 DEF Watching
      <4>3. Phase \in {"restarting", "greeting"} /\ Phase' = "left"
        BY <1>16, <3>1, <4>1, <4>2, Phases, NextPhases
      <4>4. Up' = FALSE
        BY <2>3, <3>2, <3>3, <3>4 DEF ProcInv, KillSeen
      <4> QED BY <1>13, <1>16, <3>1, <4>1, <4>3, <4>4
    <3>5. CASE k = "stop"
      <4>1. stop = "kill" /\ stop' = "remove" /\ start' = start
        BY <2>3, <3>5 DEF KillSeen, KillForce, Killed, Wants
      <4>2. Phase' = Phase
        BY <1>1, <3>1, <4>1
      <4>3. Stopping = (IF racing THEN "racing" ELSE "stopping") /\ Stopping' = "stopped"
        BY <4>1 DEF Stopping
      <4>4. Up' = FALSE \/ (racing /\ Up' = Up)
        <5>1. CASE KillForce(k) \/ ~racing
          BY <2>3, <3>2, <3>3, <3>5, <5>1 DEF StopInv, KillSeen
        <5>2. CASE KillSeen(k) /\ racing
          BY <3>1, <5>2 DEF KillSeen, Up, Alive
        <5> QED BY <2>3, <5>1, <5>2
      <4>5. Supervisor!StopEnds
        BY <3>1, <4>2, <4>3, <4>4 DEF Supervisor!StopEnds
      <4> QED BY <4>5 DEF Supervisor!Next
    <3> QED BY <3>4, <3>5
  <2> QED BY <1>16, <2>1, <2>2, <2>3 DEF KillStep
<1>17. CASE StopBegin
  <2>1. same /\ proc' = proc /\ managed /\ stop = "run" /\ stop' = "hangup" /\ racing' = (start # "none")
    BY <1>17 DEF StopBegin
  <2>2. ASSUME start # "none" PROVE Phase \in {"restarting", "greeting"}
    <3>1. ~Watching("wait") /\ ~Watching("sleep")
      BY <1>8, <2>2
    <3> QED BY <2>1, <2>2, <3>1, Phases DEF ConnInv
  <2>3. Stopping = "run" /\ Stopping' = IF start # "none" THEN "racing" ELSE "stopping"
    BY <2>1 DEF Stopping
  <2>4. Supervisor!StopBegins
    BY <1>1, <1>3, <2>1, <2>2, <2>3 DEF Supervisor!StopBegins, Supervisor!Stopped
  <2> QED BY <2>4 DEF Supervisor!Next
<1>18. CASE StopStep
  <2>1. same /\ UNCHANGED <<proc, racing>>
    BY <1>18 DEF StopStep, StopHangup, StopRemove
  <2>2. Stopping' = Stopping
    BY <1>18, <2>1 DEF StopStep, StopHangup, StopRemove, Stopping
  <2> QED BY <1>1, <1>3, <2>1, <2>2 DEF Supervisor!vars
<1>19. CASE UNCHANGED vars
  BY <1>4, <1>19 DEF vars
<1>20. ASSUME ~managed, managed' PROVE UNCHANGED Supervisor!vars
  <2>1. HandshakeOk
    BY <1>20 DEF Next, ProcStep, ProcBind, ProcListen, Crash, WatchStep, WatchExit, WatchWake, StartStep,
                 StartRemove, StartSpawn, SpawnFail, SocketSeen, SocketTimeout, Dial, DialFail, HandshakeFail,
                 LoopStep, HealthTick, HealthReply, HealthSet, HealthStop, KillStep, KillTerm, KillAwait, KillSeen,
                 KillForce, StopBegin, StopStep, StopHangup, StopRemove, vars
  <2>2. conn' = conn /\ conn = 1 /\ Alive(conn)' /\ stop' = stop
    BY <1>20, <2>1 DEF HandshakeOk, ConnInv, Alive
  <2>3. Watching("wait")'
    BY <2>1 DEF HandshakeOk, Watching
  <2>4. Phase' = "watched" /\ Used' = 1 /\ Up' = TRUE
    BY <1>20, <2>2, <2>3, NextPhases DEF Used, Up
  <2>5. Stopping' = Stopping
    BY <1>20, <2>2 DEF Stopping
  <2> QED BY <1>20, <2>4, <2>5, Unmanaged DEF Supervisor!vars
<1> QED
  BY <1>6, <1>9, <1>10, <1>11, <1>14, <1>15, <1>16, <1>17, <1>18, <1>19, <1>20 DEF Next, WatchStep

\* The processes of an instance live as module Supervision says, whatever
\* crashes, fails or is stopped, and however many processes that takes.
THEOREM SupervisionKept == Spec => Supervises
<1>1. Init => Supervisor!Init
  BY DEF Init, Supervisor!Init, Used, Up, Phase, Stopping
<1>2. TypeInv /\ ProcInv /\ ConnInv /\ StopInv /\ [Next]_vars => [Supervisor!Next]_(Supervisor!vars)
  BY TypeStep, SuperviseStep
<1> QED
  BY TypeInit, TypeStep, ProcInit, ProcPreserved, ConnInit, ConnPreserved, StopInit, StopPreserved, <1>1, <1>2, PTL
  DEF Spec, Supervises, Supervisor!Spec
=============================================================================
