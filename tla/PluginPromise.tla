---------------------------- MODULE PluginPromise ----------------------------
(***************************************************************************)
(* What the gateway relies on in a plugin process, per completion stream:  *)
(* it answers a request once, sends events only for a stream it accepted   *)
(* (before its answer, too), and sends none after stream_end.  These are   *)
(* the plugin's steps in InstanceStreams without their bounds.             *)
(***************************************************************************)
EXTENDS Sequences

CONSTANT Stream

VARIABLES
    plug,   \* plug[s]: the plugin's view of the request
    sent    \* sent[s]: kinds of the events sent

vars == <<plug, sent>>

Init ==
    /\ plug = [s \in Stream |-> "none"]
    /\ sent = [s \in Stream |-> <<>>]

Becomes(s, from, to) ==
    /\ plug[s] = from
    /\ plug' = [plug EXCEPT ![s] = to]
    /\ UNCHANGED sent

Ask(s)    == Becomes(s, "none", "asked")
Accept(s) == Becomes(s, "asked", "opened")
Reject(s) == Becomes(s, "asked", "rejected")
Reply(s)  == Becomes(s, "opened", "replied")

Emit(s) ==
    /\ plug[s] \in {"opened", "replied"}
    /\ \A i \in DOMAIN sent[s] : sent[s][i] # "end"
    /\ \E k \in {"data", "error", "end"} : sent' = [sent EXCEPT ![s] = Append(@, k)]
    /\ UNCHANGED plug

Next == \E s \in Stream : Ask(s) \/ Accept(s) \/ Reject(s) \/ Reply(s) \/ Emit(s)

Spec == Init /\ [][Next]_vars
=============================================================================
