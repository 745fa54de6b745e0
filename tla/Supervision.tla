----------------------------- MODULE Supervision -----------------------------
(***************************************************************************)
(* What the streams of an instance rely on in the life of its processes.   *)
(* Calls go to one process at a time; the next is connected only after the *)
(* one before has died, its watcher has noticed and, with nobody having    *)
(* called Stop, has gone into Start; each death is answered by at most one *)
(* restart, and who gives up is not followed by anybody.  A Stop that met  *)
(* no restart in progress leaves no process.                               *)
(*                                                                         *)
(* PluginLifecycle implements this in detail, and the process steps of     *)
(* InstanceStreams are steps of it.  It begins when the Manager takes the  *)
(* instance.                                                               *)
(***************************************************************************)
EXTENDS Naturals

VARIABLES
    used,   \* how many processes in.conn has led to; calls go to the last one
    up,     \* that one lives
    phase,  \* who cares for it: its watcher, before ("watched") or after
            \*   ("noticed") its end, Start before ("restarting") or after
            \*   ("greeting") it has connected, or nobody any more ("left")
    stop    \* Stop: not called, at work (having met a restart or not), returned

vars == <<used, up, phase, stop>>

Init ==
    /\ used  = 1
    /\ up    = TRUE
    /\ phase = "watched"
    /\ stop  = "run"

Stopped == stop # "run"

\* A crash, or a kill.
Dies ==
    /\ up
    /\ up' = FALSE
    /\ UNCHANGED <<used, phase, stop>>

\* The watcher sees the end: it fails the streams, unless Stop does.
Notices ==
    /\ phase = "watched" /\ ~up
    /\ phase' = IF Stopped THEN "left" ELSE "noticed"
    /\ UNCHANGED <<used, up, stop>>

Restarts ==
    /\ phase = "noticed"
    /\ phase' = IF Stopped THEN "left" ELSE "restarting"
    /\ UNCHANGED <<used, up, stop>>

Connects ==
    /\ phase = "restarting" /\ ~up
    /\ used'  = used + 1
    /\ up'    = TRUE
    /\ phase' = "greeting"
    /\ UNCHANGED stop

Greets ==
    /\ phase = "greeting" /\ up
    /\ phase' = "watched"
    /\ UNCHANGED <<used, up, stop>>

\* Start returns an error and leaves no process.
GivesUp ==
    /\ phase \in {"restarting", "greeting"}
    /\ up'    = FALSE
    /\ phase' = "left"
    /\ UNCHANGED <<used, stop>>

StopBegins ==
    /\ ~Stopped
    /\ stop' = "stopping" \/ (phase \in {"restarting", "greeting"} /\ stop' = "racing")
    /\ UNCHANGED <<used, up, phase>>

\* Only a restart that Stop has met may keep its process.
StopEnds ==
    /\ stop \in {"stopping", "racing"}
    /\ stop' = "stopped"
    /\ up' = FALSE \/ (stop = "racing" /\ up' = up)
    /\ UNCHANGED <<used, phase>>

Next ==
    \/ Dies \/ Notices \/ Restarts \/ Connects \/ Greets \/ GivesUp
    \/ StopBegins \/ StopEnds

Spec == Init /\ [][Next]_vars
=============================================================================
