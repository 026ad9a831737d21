------------------------------- MODULE Relay -------------------------------
(* The message pump of handle_connection over real sockets: bytes arrive   *)
(* in chunks, FrameReader cuts them into frames, the handler of the side   *)
(* sees every buffered frame, and the batch is written out before the next *)
(* select.  A socket holds at most Room bytes each way, and a write waits. *)
(*                                                                         *)
(* What a handler decides is the business of Session and Connection; here  *)
(* it forwards, answers, swallows or closes as it likes.                   *)
EXTENDS Framing, FiniteSets

CONSTANTS
    Scripts,        \* the frames each side sends, in order
    Garbage,        \* frames whose length word cannot be
    Refusal,        \* the frames a handler writes itself: an error, perhaps more
    Room,           \* bytes a socket holds in each direction
    Window          \* requests a client leaves unanswered

Sides == {"client", "backend"}
Other(s) == IF s = "client" THEN "backend" ELSE "client"

Frames == UNION {ToSet(Scripts[s]) : s \in Sides}

ASSUME RelayAssumption ==
    /\ Scripts \in [Sides -> Seq(Seq(Byte))]
    /\ Garbage \subseteq Seq(Byte)
    /\ Refusal \in Seq(Seq(Byte)) /\ Refusal # << >>
    /\ \A f \in Frames \cup ToSet(Refusal) :
        TryTakeMessage(f) = [is |-> "frame", frame |-> f, rest |-> << >>]
    /\ \A g \in Garbage : TryTakeMessage(g) = Malformed
    /\ Room \in Nat \ {0} /\ Window \in Nat

VARIABLES
    unsent,     \* bytes a peer has yet to write
    inbound,    \* bytes in the socket from a peer to the proxy
    eof,        \* whether the peer has shut its end
    buf,        \* FrameReader::buf of a side
    pump,       \* where the loop stands: a branch of select!, a write, the end
    current,    \* the message the drain loop holds
    batch,      \* Batch::to_client, to_backend: bytes not yet written
    close,      \* Batch::close
    outbound,   \* bytes in the socket from the proxy to a peer
    got,        \* bytes a peer has read and not cut into frames
    arrived,    \* frames a peer has read in full
    sent,       \* the frames a peer has sent (for the abstract specification)
    handled,    \* the frames a handler has seen (for the abstract specification)
    emitted     \* the frames the handlers have emitted (for the abstract specification)

peers == << unsent, inbound, eof >>
ghosts == << sent, handled, emitted >>
vars == << peers, buf, pump, current, batch, close, outbound, got, arrived, ghosts >>

Bytes == Seq(Byte)

\* The type invariant; in particular a handler is only ever given whole frames
\* that a peer sent, and a peer gets only whole frames a handler emitted.
TypeOK ==
    /\ unsent \in [Sides -> Bytes] /\ inbound \in [Sides -> Bytes]
    /\ eof \in [Sides -> BOOLEAN]
    /\ buf \in [Sides -> Bytes]
    /\ pump \in {"select", "client", "backend", "to_backend", "to_client", "ended", "failed"}
    /\ current \in Bytes
    /\ batch \in [Sides -> Bytes] /\ close \in BOOLEAN
    /\ outbound \in [Sides -> Bytes] /\ got \in [Sides -> Bytes]
    /\ arrived \in [Sides -> Seq(Frames \cup ToSet(Refusal))]
    /\ sent \in [Sides -> Seq(Frames)] /\ handled \in [Sides -> Seq(Frames)]
    /\ emitted \in [Sides -> Seq(Frames \cup ToSet(Refusal))]

Init ==
    /\ unsent = [s \in Sides |-> << >>] /\ inbound = [s \in Sides |-> << >>]
    /\ eof = [s \in Sides |-> FALSE]
    /\ buf = [s \in Sides |-> << >>]
    /\ pump = "select"
    /\ current = << >>
    /\ batch = [s \in Sides |-> << >>] /\ close = FALSE
    /\ outbound = [s \in Sides |-> << >>] /\ got = [s \in Sides |-> << >>]
    /\ arrived = [s \in Sides |-> << >>]
    /\ sent = [s \in Sides |-> << >>] /\ handled = [s \in Sides |-> << >>]
    /\ emitted = [s \in Sides |-> << >>]

Over == pump \in {"ended", "failed"}

-----------------------------------------------------------------------------
(* The peers (external).  A client leaves at most Window requests without  *)
(* an answer and reads while it writes; a server writes its answers before *)
(* it reads on.                                                            *)

Unanswered(s) == Len(sent[s]) - Len(arrived[s])

MaySend(s) ==
    /\ ~eof[s]
    /\ Len(sent[s]) < Len(Scripts[s])
    /\ IF s = "client" THEN Unanswered(s) < Window
       ELSE unsent[s] = << >> /\ Len(sent[s]) < Len(arrived[s])

PeerSends(s) ==
    /\ MaySend(s)
    /\ LET f == Scripts[s][Len(sent[s]) + 1] IN
        /\ unsent' = [unsent EXCEPT ![s] = @ \o f]
        /\ sent' = [sent EXCEPT ![s] = Append(@, f)]
    /\ UNCHANGED << inbound, eof, buf, pump, current, batch, close, outbound, got, arrived,
                    handled, emitted >>

\* A peer that sends what is not a frame sends nothing after it.
PeerSendsGarbage(s) ==
    /\ MaySend(s)
    /\ \E g \in Garbage : unsent' = [unsent EXCEPT ![s] = @ \o g]
    /\ sent' = [sent EXCEPT ![s] = @]
    /\ eof' = [eof EXCEPT ![s] = TRUE]
    /\ UNCHANGED << inbound, buf, pump, current, batch, close, outbound, got, arrived,
                    handled, emitted >>

\* The kernel takes what fits.
PeerWrites(s) ==
    /\ unsent[s] # << >>
    /\ \E n \in 1 .. Len(unsent[s]) :
        /\ Len(inbound[s]) + n <= Room
        /\ inbound' = [inbound EXCEPT ![s] = @ \o SubSeq(unsent[s], 1, n)]
        /\ unsent' = [unsent EXCEPT ![s] = Drop(@, n)]
    /\ UNCHANGED << eof, buf, pump, current, batch, close, outbound, got, arrived, ghosts >>

\* A server whose answers are not written yet is not reading.
PeerReads(s) ==
    /\ outbound[s] # << >>
    /\ s = "backend" => unsent[s] = << >>
    /\ got' = [got EXCEPT ![s] = @ \o outbound[s]]
    /\ outbound' = [outbound EXCEPT ![s] = << >>]
    /\ UNCHANGED << peers, buf, pump, current, batch, close, arrived, ghosts >>

PeerTakes(s) ==
    LET next == TryTakeMessage(got[s]) IN
    /\ next.is = "frame"
    /\ got' = [got EXCEPT ![s] = next.rest]
    /\ arrived' = [arrived EXCEPT ![s] = Append(@, next.frame)]
    /\ UNCHANGED << peers, buf, pump, current, batch, close, outbound, ghosts >>

\* A peer may go away in the middle of a frame.
PeerHangsUp(s) ==
    /\ ~eof[s]
    /\ eof' = [eof EXCEPT ![s] = TRUE]
    /\ unsent' = [unsent EXCEPT ![s] = << >>]
    /\ UNCHANGED << inbound, buf, pump, current, batch, close, outbound, got, arrived, ghosts >>

-----------------------------------------------------------------------------
(* The pump.                                                               *)

\* Mutant: bytes that do not make a frame are lost with the dropped future.
ReadMessageUnbuffered(s, chunk) ==
    LET next == TryTakeMessage(buf[s] \o chunk) IN
    /\ inbound' = [inbound EXCEPT ![s] = Drop(@, Len(chunk))]
    /\ buf' = [buf EXCEPT ![s] = IF next.is = "frame" THEN next.rest ELSE << >>]
    /\ current' = next.frame
    /\ pump' = CASE next.is = "frame" -> s
                 [] next.is = "not yet" -> "select"
                 [] next.is = "malformed" -> "failed"

\* read_message: append what the socket has, then cut.  Dropping the future of
\* the branch that loses a select! keeps the buffer.
ReadMessage(s, chunk) ==
    LET next == TryTakeMessage(buf[s] \o chunk) IN
    /\ inbound' = [inbound EXCEPT ![s] = Drop(@, Len(chunk))]
    /\ buf' = [buf EXCEPT ![s] = IF next.is = "frame" THEN next.rest ELSE buf[s] \o chunk]
    /\ current' = next.frame
    /\ pump' = CASE next.is = "frame" -> s
                 [] next.is = "not yet" -> "select"
                 [] next.is = "malformed" -> "failed"

Selects(s) ==
    /\ pump = "select"
    /\ \E n \in 1 .. Len(inbound[s]) : ReadMessage(s, SubSeq(inbound[s], 1, n))
    /\ UNCHANGED << unsent, eof, batch, close, outbound, got, arrived, ghosts >>

\* A read of no bytes: the end of the session, or of half a frame.
SelectsEof(s) ==
    /\ pump = "select"
    /\ eof[s] /\ unsent[s] = << >> /\ inbound[s] = << >>
    /\ pump' = IF buf[s] = << >> THEN "ended" ELSE "failed"
    /\ UNCHANGED << peers, buf, current, batch, close, outbound, got, arrived, ghosts >>

\* What a handler may do with a message: where it goes, and as what.
Verdicts(s, message) ==
    {[to |-> s, frames |-> << >>, close |-> FALSE]}
        \cup [to : {Other(s)}, frames : {<< message >>}, close : BOOLEAN]
        \cup [to : {"client"}, frames : {Refusal}, close : BOOLEAN]

\* Mutant: one message per select, the rest of the buffer waits for more bytes.
DrainsOne(s, closing) == pump' = "to_backend" /\ current' = << >> /\ UNCHANGED buf

\* Mutant: the loop runs on after a handler has closed.
DrainsPastClose(s, closing) ==
    LET next == TryTakeMessage(buf[s]) IN
    IF next.is = "not yet"
    THEN pump' = "to_backend" /\ current' = << >> /\ UNCHANGED buf
    ELSE /\ pump' = IF next.is = "frame" THEN s ELSE "failed"
         /\ current' = next.frame
         /\ buf' = IF next.is = "frame" THEN [buf EXCEPT ![s] = next.rest] ELSE buf

\* try_buffered_message, until a handler closes or the buffer has no frame.
\* An error here is returned at once, and the batch is never written.
DrainsOn(s, closing) ==
    LET next == TryTakeMessage(buf[s]) IN
    IF closing \/ next.is = "not yet"
    THEN pump' = "to_backend" /\ current' = << >> /\ UNCHANGED buf
    ELSE /\ pump' = IF next.is = "frame" THEN s ELSE "failed"
         /\ current' = next.frame
         /\ buf' = IF next.is = "frame" THEN [buf EXCEPT ![s] = next.rest] ELSE buf

\* One call site per handler: handle_frontend or handle_backend.
Handles(s) ==
    /\ pump = s
    /\ handled' = [handled EXCEPT ![s] = Append(@, current)]
    /\ \E v \in Verdicts(s, current) :
        /\ batch' = [batch EXCEPT ![v.to] = @ \o FlattenSeq(v.frames)]
        /\ emitted' = [emitted EXCEPT ![v.to] = @ \o v.frames]
        /\ close' = (close \/ v.close)
        /\ DrainsOn(s, v.close)
    /\ UNCHANGED << peers, outbound, got, arrived, sent >>

\* write_all: as much as fits, again and again; nothing else moves meanwhile.
Writes(s) ==
    /\ pump = (IF s = "client" THEN "to_client" ELSE "to_backend")
    /\ batch[s] # << >>
    /\ \E n \in 1 .. Len(batch[s]) :
        /\ Len(outbound[s]) + n <= Room
        /\ outbound' = [outbound EXCEPT ![s] = @ \o SubSeq(batch[s], 1, n)]
        /\ batch' = [batch EXCEPT ![s] = Drop(@, n)]
    /\ UNCHANGED << peers, buf, pump, current, close, got, arrived, ghosts >>

\* A write to a peer that is gone fails, and with it the connection.
WriteFails(s) ==
    /\ pump = (IF s = "client" THEN "to_client" ELSE "to_backend")
    /\ batch[s] # << >> /\ eof[s]
    /\ pump' = "failed"
    /\ UNCHANGED << peers, buf, current, batch, close, outbound, got, arrived, ghosts >>

\* The backend is written first, then the client, then close is looked at.
Written ==
    /\ \/ pump = "to_backend" /\ batch["backend"] = << >> /\ pump' = "to_client"
       \/ /\ pump = "to_client" /\ batch["client"] = << >>
          /\ pump' = IF close THEN "ended" ELSE "select"
    /\ UNCHANGED << peers, buf, current, batch, close, outbound, got, arrived, ghosts >>

-----------------------------------------------------------------------------

Peer(s) ==
    \/ PeerSends(s)
    \/ PeerSendsGarbage(s)
    \/ PeerWrites(s)
    \/ PeerReads(s)
    \/ PeerTakes(s)
    \/ PeerHangsUp(s)

Pump(s) ==
    \/ Selects(s)
    \/ SelectsEof(s)
    \/ Handles(s)
    \/ Writes(s)
    \/ WriteFails(s)

Next == Written \/ \E s \in Sides : Peer(s) \/ Pump(s)

Spec == Init /\ [][Next]_vars

\* The kernel moves bytes, live peers read, and the runtime polls the task:
\* select! picks at random among the branches that are ready.
Fairness ==
    /\ WF_vars(Written \/ \E s \in Sides : Handles(s) \/ Writes(s) \/ WriteFails(s))
    /\ \A s \in Sides :
        /\ WF_vars(Selects(s) \/ SelectsEof(s))
        /\ WF_vars(PeerWrites(s))
        /\ WF_vars(PeerReads(s) \/ PeerTakes(s))

FairSpec == Spec /\ Fairness

-----------------------------------------------------------------------------
(* Properties.                                                             *)

\* However the bytes are cut into chunks, whichever branch wins each select!
\* and wherever the connection breaks, the pump does what the conduit allows:
\* every message handled once, whole and in order, every answer delivered in
\* order, and nothing handled once a handler has closed.
Pumps ==
    INSTANCE Conduit WITH
        Messages <- Frames \cup ToSet(Refusal),
        Burst <- Len(Refusal),
        open <- ~(close \/ Over)

RefinesConduit == Pumps!Spec

\* Handlers and peers are only given whole frames, and what waits in a buffer
\* at a select is less than one: a message that has arrived in full is never
\* left for bytes that may not come.
NothingWaitsWhole ==
    /\ TypeOK
    /\ pump = "select" => \A s \in Sides : TryTakeMessage(buf[s]).is = "not yet"

\* With no more in flight than the sockets hold, the pump always gets to where
\* every message is handled and every answer delivered, or the connection ends.
EverythingLands ==
    []<>(\/ \A s \in Sides : handled[s] = sent[s] /\ arrived[s] = emitted[s]
         \/ Over
         \/ \E s \in Sides : eof[s])
=============================================================================
