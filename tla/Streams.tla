------------------------------ MODULE Streams -------------------------------
(***************************************************************************)
(* The transports that carry messages in a stream of text: server-sent     *)
(* events, and the two over stdin and stdout.                              *)
(***************************************************************************)
EXTENDS Naturals, Sequences, FiniteSets, SequencesExt

(***************************************************************************)
(* Server-sent events (pkg/transport/sse.go): SSEServer with its           *)
(* connections, each an SSEWriter that handlers, broadcasts and a          *)
(* heartbeat write to, and an SSEClient that reads lines and puts events   *)
(* together.  Text is a sequence of lines, and the data of an event is the *)
(* sequence of its lines, of which "" is the empty one.                    *)
(***************************************************************************)
CONSTANTS
    Feed,        \* connections, each used once
    Caster,      \* goroutines that broadcast, each once
    SseEvents,   \* events they send: [id, data]
    MaxWrites    \* bound: writes on a connection

ASSUME StreamAssumption == MaxWrites \in Nat

VARIABLES
    serving,    \* Feed -> where its ServeHTTP is
    text,       \* Feed -> lines written
    written,    \* Feed -> history: what was written, events and heartbeats
    casting,    \* Caster -> its event and the writers it has yet to write to
    parsing,    \* Feed -> the client: lines read, the event so far, its data
    received,   \* Feed -> events ReceiveEvent has returned
    late        \* history: a ResponseWriter was used after ServeHTTP returned

streamVars == <<serving, text, written, casting, parsing, received, late>>

Heartbeat == [id |-> "", data |-> <<>>]
Empty == [read |-> 0, id |-> "", data |-> <<>>]

StreamInit ==
    /\ serving = [f \in Feed |-> "none"]
    /\ text = [f \in Feed |-> <<>>] /\ written = [f \in Feed |-> <<>>]
    /\ casting = [c \in Caster |-> [at |-> "new", event |-> Heartbeat, left |-> {}]]
    /\ parsing = [f \in Feed |-> Empty] /\ received = [f \in Feed |-> <<>>]
    /\ late = FALSE

(***************************************************************************)
(* ServeHTTP                                                               *)
(***************************************************************************)

\* "none" -> "headers" (NewSSEWriter) -> "listed" (in clients) -> "leaving" (no
\* longer) -> "closed" -> "returned".  The client may leave at any time.
ServeHTTP(f) ==
    /\ serving[f] # "returned"
    /\ serving' = [serving EXCEPT ![f] =
          CASE @ = "none" -> "headers" [] @ = "headers" -> "listed"
            [] @ = "listed" -> "leaving" [] @ = "leaving" -> "closed"
            [] @ = "closed" -> "returned"]
    /\ UNCHANGED <<text, written, casting, parsing, received, late>>

(***************************************************************************)
(* SSEWriter                                                               *)
(***************************************************************************)

TextLine(field, value) == [field |-> field, value |-> value]
Blank == TextLine("blank", "")

\* What WriteEvent, and the heartbeat, hand to the ResponseWriter in one piece.
Lines(e) ==
    IF e = Heartbeat THEN <<TextLine("comment", ""), Blank>>
    ELSE (IF e.id = "" THEN <<>> ELSE <<TextLine("id", e.id)>>)
         \o [i \in DOMAIN e.data |-> TextLine("data", e.data[i])]
         \o <<Blank>>

\* Mutant of WriterClosed: who leaves the list is not told.
WriterOpen(f) == serving[f] = "none"

WriterClosed(f) == serving[f] \in {"closed", "returned"}

\* Under the writer's mutex.
Write(f, e) ==
    IF WriterClosed(f)
    THEN UNCHANGED <<text, written, late>>
    ELSE /\ Len(written[f]) < MaxWrites
         /\ text' = [text EXCEPT ![f] = @ \o Lines(e)]
         /\ written' = [written EXCEPT ![f] = Append(@, e)]
         /\ late' = (late \/ serving[f] = "returned")

\* The connection's own handler, and its heartbeat, which may outlive it.
HandlerWrites(f, e) ==
    /\ serving[f] = "listed" \/ (e = Heartbeat /\ serving[f] \notin {"none", "headers"})
    /\ Write(f, e)
    /\ UNCHANGED <<serving, casting, parsing, received>>

\* Broadcast copies the list, and then writes to one after the other.
Broadcast(c, e) ==
    /\ casting[c].at = "new"
    /\ casting' = [casting EXCEPT ![c] =
          [at |-> "writing", event |-> e, left |-> {f \in Feed : serving[f] = "listed"}]]
    /\ UNCHANGED <<serving, text, written, parsing, received, late>>

BroadcastWrites(c, f) ==
    /\ f \in casting[c].left
    /\ Write(f, casting[c].event)
    /\ casting' = [casting EXCEPT ![c].left = @ \ {f}]
    /\ UNCHANGED <<serving, parsing, received>>

(***************************************************************************)
(* SSEClient                                                               *)
(***************************************************************************)

\* The buffer after a data line: an empty one adds nothing to an empty buffer.
AddData(data, value) == IF data = <<>> /\ value = "" THEN <<>> ELSE Append(data, value)

\* One turn of the loop of ReceiveEvent.  An empty line ends an event that has data;
\* one without goes on, and keeps its ID.
ReadLine(f) ==
    /\ parsing[f].read < Len(text[f])
    /\ LET p == [parsing[f] EXCEPT !.read = @ + 1]
           line == text[f][p.read]
       IN  \/ /\ line.field = "blank" /\ p.data # <<>>
              /\ received' = [received EXCEPT ![f] = Append(@, [id |-> p.id, data |-> p.data])]
              /\ parsing' = [parsing EXCEPT ![f] = [Empty EXCEPT !.read = p.read]]
           \/ /\ line.field # "blank" \/ p.data = <<>>
              /\ parsing' = [parsing EXCEPT ![f] =
                    CASE line.field = "data" -> [p EXCEPT !.data = AddData(@, line.value)]
                      [] line.field = "id" -> [p EXCEPT !.id = line.value]
                      [] OTHER -> p]
              /\ UNCHANGED received
    /\ UNCHANGED <<serving, text, written, casting, late>>

StreamNext ==
    \/ \E f \in Feed :
          \/ ServeHTTP(f) \/ ReadLine(f)
          \/ \E e \in SseEvents \cup {Heartbeat} : HandlerWrites(f, e)
          \/ \E c \in Caster : BroadcastWrites(c, f)
    \/ \E c \in Caster, e \in SseEvents : Broadcast(c, e)

(***************************************************************************)
(* Properties                                                              *)
(***************************************************************************)

StreamTypeOK ==
    /\ serving \in [Feed -> {"none", "headers", "listed", "leaving", "closed", "returned"}]
    /\ \A f \in Feed : parsing[f].read \in 0 .. Len(text[f]) /\ Len(written[f]) <= MaxWrites
    /\ \A c \in Caster : casting[c].left \subseteq Feed
    /\ late \in BOOLEAN

\* The data a client makes of the lines d: empty ones at the front are lost.
Kept(d) ==
    IF \A i \in DOMAIN d : d[i] = "" THEN <<>>
    ELSE SubSeq(d, CHOOSE i \in DOMAIN d : d[i] # "" /\ \A j \in 1 .. i - 1 : d[j] = "", Len(d))

\* The events a client makes of w: those that have data.  Each has its own ID, or
\* else the last of the events without data directly before it.
Understood(w) ==
    LET Swallowed(i) == Kept(w[i].data) = <<>>
        Ids(i) == {j \in 1 .. i : w[j].id # "" /\ \A k \in j .. i - 1 : Swallowed(k)}
        As(i) == [id |-> IF Ids(i) = {} THEN "" ELSE w[CHOOSE j \in Ids(i) : \A k \in Ids(i) : k <= j].id,
                  data |-> Kept(w[i].data)]
        kept == SelectSeq([i \in DOMAIN w |-> i], LAMBDA i : ~Swallowed(i))
    IN  [n \in DOMAIN kept |-> As(kept[n])]

\* Whoever writes at the same time, handlers, broadcasts and heartbeats, a client
\* receives the events that have data, whole and in the order they were written;
\* and no ResponseWriter is used after its ServeHTTP returned.
EventsArrive ==
    /\ \A f \in Feed : parsing[f].read = Len(text[f]) => received[f] = Understood(written[f])
    /\ ~late

(***************************************************************************)
(* The two transports over stdin and stdout (pkg/transport/stdio.go):      *)
(* StdioTransport, which puts a Content-Length header before a message,    *)
(* and LineTransport, which makes a line of it.  Goroutines send at the    *)
(* same time, and each Write of a Send may fail; what a reader makes of a  *)
(* message that was cut off is left out.  A message is a sequence of       *)
(* characters, of which " " and "newline" are white space.                 *)
(***************************************************************************)
CONSTANTS
    Sender,    \* goroutines that send a message each
    Messages,  \* what they send
    Json       \* those that are valid JSON

ASSUME StdioAssumption == Json \subseteq Messages

VARIABLES
    framing,   \* "length" (StdioTransport) | "line" (LineTransport)
    senders,   \* Sender -> where its Send is, and the pieces it has yet to write
    mutex,     \* the sender that holds the transport's mutex, if any
    out,       \* what has been written: characters, and the items of headers
    receiving, \* a Receive has begun, and so does not notice Close
    got,       \* messages that Receive has returned
    shut,      \* the transport is closed
    order,     \* history: messages in the order of their Sends
    torn       \* history: a Write failed

stdioVars == <<framing, senders, mutex, out, receiving, got, shut, order, torn>>

StdioInit ==
    /\ framing \in {"length", "line"}
    /\ senders = [s \in Sender |-> [at |-> "new", left |-> <<>>]]
    /\ mutex = {} /\ out = <<>> /\ receiving = FALSE /\ got = <<>> /\ shut = FALSE
    /\ order = <<>> /\ torn = FALSE

Char(c) == [item |-> c, n |-> 0]
Chars(m) == [i \in DOMAIN m |-> Char(m[i])]

\* The loop of LineTransport.Send does not look for strings.
Compact(m) == IF m \in Json THEN SelectSeq(m, LAMBDA c : c \notin {" ", "newline"}) ELSE m

\* The arguments of the Writes of a Send.
Pieces(m) ==
    IF framing = "length"
    THEN << <<Char("Content-Length")>>, <<[item |-> "length", n |-> Len(m)]>>,
            <<Char("separator")>>, Chars(m) >>
    ELSE << Chars(Compact(m)), <<Char("newline")>> >>

SendBegins(s, m) ==
    /\ senders[s].at = "new" /\ mutex = {}
    /\ IF shut
       THEN senders' = [senders EXCEPT ![s].at = "refused"] /\ UNCHANGED <<mutex, order>>
       ELSE /\ senders' = [senders EXCEPT ![s] = [at |-> "writing", left |-> Pieces(m)]]
            /\ mutex' = {s} /\ order' = Append(order, m)
    /\ UNCHANGED <<framing, out, receiving, got, shut, torn>>

\* Mutant of SendWrites: the mutex covers one Write, not all of them.
SendWritesEach(s) ==
    /\ senders[s].at = "writing"
    /\ out' = out \o Head(senders[s].left)
    /\ senders' = [senders EXCEPT ![s].left = Tail(@),
                                  ![s].at = IF Len(senders[s].left) = 1 THEN "sent" ELSE @]
    /\ mutex' = {}
    /\ UNCHANGED <<framing, receiving, got, shut, order, torn>>

\* The next Write; an error ends the Send where it is.
SendWrites(s) ==
    /\ senders[s].at = "writing"
    /\ \/ /\ out' = out \o Head(senders[s].left)
          /\ senders' = [senders EXCEPT ![s].left = Tail(@),
                                        ![s].at = IF Len(senders[s].left) = 1 THEN "sent" ELSE @]
          /\ mutex' = IF Len(senders[s].left) = 1 THEN {} ELSE {s}
          /\ UNCHANGED torn
       \/ /\ senders' = [senders EXCEPT ![s] = [at |-> "failed", left |-> <<>>]]
          /\ mutex' = {} /\ torn' = TRUE /\ UNCHANGED out
    /\ UNCHANGED <<framing, receiving, got, shut, order>>

\* Receive refuses on a closed transport, and otherwise waits for its input.
BeginReceive ==
    /\ ~receiving /\ ~shut /\ receiving' = TRUE
    /\ UNCHANGED <<framing, senders, mutex, out, got, shut, order, torn>>

\* StdioTransport.Receive: headers up to the empty line, then as many bytes.
ReceiveFrame ==
    /\ framing = "length" /\ receiving /\ Len(out) >= 3
    /\ <<out[1].item, out[2].item, out[3].item>> = <<"Content-Length", "length", "separator">>
    /\ Len(out) >= 3 + out[2].n
    /\ got' = Append(got, [i \in 1 .. out[2].n |-> out[3 + i].item])
    /\ out' = SubSeq(out, 4 + out[2].n, Len(out))
    /\ receiving' = FALSE
    /\ UNCHANGED <<framing, senders, mutex, shut, order, torn>>

\* LineTransport.Receive: up to the next newline.
ReceiveLine ==
    /\ framing = "line" /\ receiving
    /\ \E end \in DOMAIN out :
          /\ out[end].item = "newline" /\ \A i \in 1 .. end - 1 : out[i].item # "newline"
          /\ got' = Append(got, [i \in 1 .. end - 1 |-> out[i].item])
          /\ out' = SubSeq(out, end + 1, Len(out))
    /\ receiving' = FALSE
    /\ UNCHANGED <<framing, senders, mutex, shut, order, torn>>

StdioClose ==
    /\ mutex = {} /\ ~shut /\ shut' = TRUE
    /\ UNCHANGED <<framing, senders, mutex, out, receiving, got, order, torn>>

StdioNext ==
    \/ \E s \in Sender : SendWrites(s) \/ \E m \in Messages : SendBegins(s, m)
    \/ BeginReceive \/ ReceiveFrame \/ ReceiveLine \/ StdioClose

StdioTypeOK ==
    /\ framing \in {"length", "line"} /\ mutex \subseteq Sender
    /\ \A s \in Sender : senders[s].at \in {"new", "writing", "sent", "refused", "failed"}
    /\ order \in Seq(Messages) /\ {receiving, shut, torn} \subseteq BOOLEAN

\* As long as no Write fails, Receive returns the messages in the order of their
\* Sends, however these race: StdioTransport as they were, LineTransport without
\* white space provided all are JSON, since other text may hold line ends.
FramesArrive ==
    LET arrived == IF framing = "length" THEN order ELSE [i \in DOMAIN order |-> Compact(order[i])]
    IN  ~torn /\ (framing = "line" => \A i \in DOMAIN order : order[i] \in Json) =>
            /\ IsPrefix(got, arrived)
            /\ mutex = {} /\ out = <<>> => got = arrived

-----------------------------------------------------------------------------
\* The event stream and the transports over stdin and stdout deliver what was sent,
\* in order, whoever sends at the same time (EventsArrive, FramesArrive).
StreamsIntact == EventsArrive /\ FramesArrive

=============================================================================
