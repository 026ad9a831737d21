------------------------------ MODULE Conduit ------------------------------
(* What the message pump of a connection promises, without bytes, buffers, *)
(* batches or sockets: each side's messages are handled whole, once and in *)
(* the order they were sent, and what the handlers emit for a side arrives *)
(* whole and in that order.  The connection may end at any moment, and     *)
(* nothing is handled or emitted after that.                               *)
EXTENDS Naturals, Sequences

CONSTANTS
    Sides,
    Messages,
    Burst       \* the most a handler emits for one message

VARIABLES
    sent,       \* the messages each side has sent
    handled,    \* the messages of each side a handler has seen
    emitted,    \* the messages the handlers have emitted for each side
    arrived,    \* how many of them the side has received
    open        \* whether the pump still handles messages

vars == << sent, handled, emitted, arrived, open >>

Init ==
    /\ sent = [s \in Sides |-> << >>]
    /\ handled = [s \in Sides |-> << >>]
    /\ emitted = [s \in Sides |-> << >>]
    /\ arrived = [s \in Sides |-> << >>]
    /\ open = TRUE

\* A side sends a message.
Send(s) ==
    /\ UNCHANGED << handled, emitted, arrived, open >>
    /\ \E m \in Messages : sent' = [sent EXCEPT ![s] = Append(@, m)]

\* The handler of a side sees its next message, answers as it likes and may
\* end the connection.
Handle(s) ==
    /\ open
    /\ Len(handled[s]) < Len(sent[s])
    /\ handled' = [handled EXCEPT ![s] = Append(@, sent[s][Len(@) + 1])]
    /\ UNCHANGED << sent, arrived >>
    /\ open' \in BOOLEAN
    /\ \E t \in Sides, n \in 0 .. Burst : \E answer \in [1 .. n -> Messages] :
        emitted' = [emitted EXCEPT ![t] = @ \o answer]

\* A side receives the next messages that are due to it.
Arrive(s) ==
    /\ UNCHANGED << sent, handled, emitted, open >>
    /\ \E n \in Len(arrived[s]) + 1 .. Len(emitted[s]) :
        arrived' = [arrived EXCEPT ![s] = SubSeq(emitted[s], 1, n)]

End ==
    /\ open
    /\ open' = FALSE
    /\ UNCHANGED << sent, handled, emitted, arrived >>

Next ==
    \/ End
    \/ \E s \in Sides : Send(s) \/ Handle(s) \/ Arrive(s)

Spec == Init /\ [][Next]_vars
=============================================================================
