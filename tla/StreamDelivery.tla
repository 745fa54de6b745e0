--------------------------- MODULE StreamDelivery ---------------------------
(***************************************************************************)
(* What the plugin runtime promises the HTTP handler about the channel     *)
(* that Instance.Stream returns, whatever the goroutines behind it do:     *)
(* events arrive in the order they were emitted; they are lost only by a   *)
(* fault of the plugin; the channel ends once, after a terminal event      *)
(* unless a fault or the client cut it short; nothing arrives afterwards.  *)
(***************************************************************************)
EXTENDS Integers, Sequences

CONSTANTS
    Stream,
    Lossy   \* the streams that a crash or a stop of the plugin may hit

VARIABLES
    sent,   \* sent[s]: kinds of the events emitted
    got,    \* got[s]: positions in sent[s] delivered; 0 is a reported fault
    left,   \* left[s]: the client has gone away
    over    \* over[s]: "ended" once the handler has seen the end of the stream,
            \*   "refused" when it never got one, else "no"

vars == <<sent, got, left, over>>

Init ==
    /\ sent = [s \in Stream |-> <<>>]
    /\ got  = [s \in Stream |-> <<>>]
    /\ left = [s \in Stream |-> FALSE]
    /\ over = [s \in Stream |-> "no"]

Delivered(s) == {got[s][i] : i \in DOMAIN got[s]}

\* A reported fault ends a stream as an error or end event does.
Terminal(s, n) == IF n = 0 THEN TRUE ELSE sent[s][n] # "data"

\* Events not delivered yet that may come next: the very next one, or any
\* later one when events can be lost.
Deliverable(s) ==
    LET later == {n \in DOMAIN sent[s] : \A m \in Delivered(s) : m < n}
    IN  IF s \in Lossy THEN later \cup {0} ELSE {n \in later : \A m \in later : n <= m}

Emit(s) ==
    /\ \E k \in {"data", "error", "end"} : sent' = [sent EXCEPT ![s] = Append(@, k)]
    /\ UNCHANGED <<got, left, over>>

Deliver(s) ==
    /\ over[s] = "no"
    /\ \E n \in Deliverable(s) : got' = [got EXCEPT ![s] = Append(@, n)]
    /\ UNCHANGED <<sent, left, over>>

Leave(s) ==
    /\ ~left[s]
    /\ left' = [left EXCEPT ![s] = TRUE]
    /\ UNCHANGED <<sent, got, over>>

\* The handler gets an error instead of a stream: only a fault or its client's
\* leaving can take back a stream on which events were emitted.
Refuse(s) ==
    /\ over[s] = "no" /\ got[s] = <<>>
    /\ s \in Lossy \/ left[s] \/ sent[s] = <<>>
    /\ over' = [over EXCEPT ![s] = "refused"]
    /\ UNCHANGED <<sent, got, left>>

\* A stream without fault and with its client ends after a terminal event.
End(s) ==
    /\ over[s] = "no"
    /\ s \in Lossy \/ left[s] \/ \E n \in Delivered(s) : Terminal(s, n)
    /\ over' = [over EXCEPT ![s] = "ended"]
    /\ UNCHANGED <<sent, got, left>>

Next == \E s \in Stream : Emit(s) \/ Deliver(s) \/ Leave(s) \/ Refuse(s) \/ End(s)

Spec == Init /\ [][Next]_vars
=============================================================================
