----------------------------- MODULE ChatStream -----------------------------
(***************************************************************************)
(* A streamed answer: Server.stream and writeSSE (internal/web/server.go), *)
(* Service.QueryStream (internal/rag/service.go) and BailianChat.Stream    *)
(* (internal/provider/bailian.go) between the model's event stream and the *)
(* client's, with a client that may leave and a connection that may break. *)
(*                                                                         *)
(* The lines of the model's stream are numbered deltas, [DONE], lines that *)
(* do not decode, and others: blank lines, comments, keep-alives and       *)
(* objects without a text, such as an error object.  The stream ends with  *)
(* a proper end of file or breaks.                                         *)
(*                                                                         *)
(* Not covered: the preparation of the question (module Retrieval), spans  *)
(* and metrics.                                                            *)
(***************************************************************************)
EXTENDS Integers, Sequences, FiniteSets, SequencesExt

CONSTANTS
    MaxDeltas,  \* bounds the deltas of an answer
    Window      \* bounds the lines that were sent and not yet read

ASSUME ChatStreamAssumption ==
    /\ MaxDeltas \in Nat \ {0}
    /\ Window \in Nat \ {0}

VARIABLES
    pc,         \* where the handler is
    wire,       \* lines of the model that were not read yet
    produced,   \* how many deltas the model has sent
    ending,     \* how the model ended its stream
    emitted,    \* a delta was passed on
    client,     \* the client is there
    late,       \* the 120 seconds of WriteTimeout are over
    broken,     \* a write to the connection failed: all later ones fail
    cancelled,  \* the context of the request
    delivered   \* history: the events that reached the client

model      == <<wire, produced, ending>>
connection == <<client, late, broken, cancelled>>
vars       == <<pc, wire, produced, ending, emitted, client, late, broken, cancelled, delivered>>

Token(n)  == [event |-> "token", n |-> n]
Event(e)  == [event |-> e, n |-> 0]
Delta(n)  == [line |-> "delta", n |-> n]
Line(l)   == [line |-> l, n |-> 0]

\* The last line of a stream, or how it ends without one.
Endings == {"[DONE]", "eof", "broken"}

Init ==
    /\ pc = "request"
    /\ wire = <<>>
    /\ produced = 0
    /\ ending = "none"
    /\ emitted = FALSE
    /\ client = TRUE
    /\ late = FALSE
    /\ broken = FALSE
    /\ cancelled = FALSE
    /\ delivered = <<>>

-----------------------------------------------------------------------------
(* The model.                                                              *)

\* It sends while its connection is open, which the context closes.
ModelSends(line) ==
    /\ pc = "read" /\ ~cancelled
    /\ ending = "none"
    /\ Len(wire) < Window
    /\ wire' = Append(wire, line)
    /\ UNCHANGED <<pc, emitted, connection, delivered>>

SendDelta ==
    /\ produced < MaxDeltas
    /\ produced' = produced + 1
    /\ ModelSends(Delta(produced + 1))
    /\ UNCHANGED ending

SendOther ==
    /\ \E l \in {"other", "garbage"} : ModelSends(Line(l))
    /\ UNCHANGED <<produced, ending>>

End ==
    /\ \E e \in Endings : ModelSends(Line(e)) /\ ending' = e
    /\ UNCHANGED produced

-----------------------------------------------------------------------------
(* The connection to the client.                                           *)

Disconnect ==
    /\ client /\ pc # "returned"
    /\ client' = FALSE
    /\ UNCHANGED <<pc, model, emitted, late, broken, cancelled, delivered>>

\* The server reads the end of the connection and cancels the request.
NoticeDisconnect ==
    /\ ~client /\ ~cancelled /\ pc # "returned"
    /\ cancelled' = TRUE
    /\ UNCHANGED <<pc, model, emitted, client, late, broken, delivered>>

WriteTimeout ==
    /\ ~late /\ pc # "returned"
    /\ late' = TRUE
    /\ UNCHANGED <<pc, model, emitted, client, broken, cancelled, delivered>>

\* writeSSE reaches the client.
Reaches(event) ==
    /\ ~broken /\ client /\ ~late
    /\ delivered' = Append(delivered, event)
    /\ UNCHANGED connection

\* The client is gone, which is not known yet: the event is lost.
Vanishes(event) ==
    /\ ~broken /\ ~client
    /\ UNCHANGED <<connection, delivered>>

\* The write fails, which cancels the request.  Flush returns no error: of an
\* event that fits the buffer only the next writeSSE learns it.
Breaks(event) ==
    /\ ~broken /\ (~client \/ late)
    /\ broken' = TRUE
    /\ cancelled' = TRUE
    /\ UNCHANGED <<client, late, delivered>>

Refused == broken /\ UNCHANGED <<connection, delivered>>

WriteSucceeds(event) == Reaches(event) \/ Vanishes(event) \/ Breaks(event)
WriteFails(event)    == Breaks(event) \/ Refused

-----------------------------------------------------------------------------
(* The handler.                                                            *)

\* A request that is no valid JSON is answered with a status.
RejectRequest ==
    /\ pc = "request"
    /\ pc' = "returned"
    /\ WriteSucceeds(Event("rejected")) \/ WriteFails(Event("rejected"))
    /\ UNCHANGED <<model, emitted>>

AcceptRequest ==
    /\ pc = "request"
    /\ pc' = "prepare"
    /\ UNCHANGED <<model, emitted, connection, delivered>>

\* The sources are found, then the model accepts the request.
Proceed ==
    /\ \/ pc = "prepare" /\ pc' = "connect"
       \/ pc = "connect" /\ pc' = "read"
    /\ UNCHANGED <<model, emitted, connection, delivered>>

\* A search or a provider fails.
CallFails ==
    /\ pc \in {"prepare", "connect"}
    /\ pc' = "failed"
    /\ UNCHANGED <<model, emitted, connection, delivered>>

\* Faulty variant: the request to the model does not carry the context.
CancelsBeforeOnly == cancelled /\ pc = "prepare"

\* Every call the handler waits for returns once the context is cancelled.
Cancels == cancelled /\ pc \in {"prepare", "connect", "read"}

Cancelled ==
    /\ Cancels
    /\ pc' = "failed"
    /\ UNCHANGED <<model, emitted, connection, delivered>>

Read(line) == pc = "read" /\ wire # <<>> /\ Head(wire).line = line /\ wire' = Tail(wire)

ReadDelta ==
    /\ Read("delta")
    /\ \/ /\ WriteSucceeds(Token(Head(wire).n))
          /\ emitted' = TRUE
          /\ UNCHANGED pc
       \/ /\ WriteFails(Token(Head(wire).n))
          /\ pc' = "failed"
          /\ UNCHANGED emitted
    /\ UNCHANGED <<produced, ending>>

ReadOther ==
    /\ Read("other")
    /\ UNCHANGED <<pc, produced, ending, emitted, connection, delivered>>

\* Faulty variant: the scanner's error is not asked for.
EndsStream == {"[DONE]", "eof", "broken"}

\* These end the answer, if there is one; others are errors.
EndsAnswer == {"[DONE]", "eof"}

ReadEnd ==
    /\ \E l \in Endings \cup {"garbage"} :
          /\ Read(l)
          /\ pc' = IF l \in EndsAnswer /\ emitted THEN "citations" ELSE "failed"
    /\ UNCHANGED <<produced, ending, emitted, connection, delivered>>

\* Faulty variant: an error is not reported to the client.
ReturnError ==
    /\ pc = "failed"
    /\ pc' = "returned"
    /\ UNCHANGED <<model, emitted, connection, delivered>>

\* Faulty variant: after the error the handler goes on.
GoOnAfterError ==
    /\ pc = "failed"
    /\ IF cancelled
       THEN pc' = "returned" /\ UNCHANGED <<connection, delivered>>
       ELSE pc' = "citations" /\ (WriteSucceeds(Event("error")) \/ WriteFails(Event("error")))
    /\ UNCHANGED <<model, emitted>>

\* An error is reported unless the request was cancelled.
ReportError ==
    /\ pc = "failed"
    /\ pc' = "returned"
    /\ IF cancelled
       THEN UNCHANGED <<connection, delivered>>
       ELSE WriteSucceeds(Event("error")) \/ WriteFails(Event("error"))
    /\ UNCHANGED <<model, emitted>>

SendCitations ==
    /\ pc = "citations"
    /\ \/ WriteSucceeds(Event("citations")) /\ pc' = "done"
       \/ WriteFails(Event("citations")) /\ pc' = "returned"
    /\ UNCHANGED <<model, emitted>>

SendDone ==
    /\ pc = "done"
    /\ WriteSucceeds(Event("done")) \/ WriteFails(Event("done"))
    /\ pc' = "returned"
    /\ UNCHANGED <<model, emitted>>

\* What the handler does without waiting for anyone else.
HandlerStep ==
    \/ Cancelled
    \/ ReadDelta \/ ReadOther \/ ReadEnd
    \/ ReportError
    \/ SendCitations \/ SendDone

Next ==
    \/ SendDelta \/ SendOther \/ End
    \/ Disconnect \/ NoticeDisconnect \/ WriteTimeout
    \/ RejectRequest \/ AcceptRequest \/ Proceed \/ CallFails
    \/ HandlerStep

\* The handler runs; the server reads the connection while it does.  The
\* providers may stay silent for ever: their clients have no timeout.
Fairness ==
    /\ WF_vars(RejectRequest \/ AcceptRequest)
    /\ WF_vars(HandlerStep)
    /\ WF_vars(NoticeDisconnect)

Spec == Init /\ [][Next]_vars /\ Fairness

-----------------------------------------------------------------------------
(* Properties.                                                             *)

\* Type correctness of every variable.
TypeOK ==
    /\ pc \in {"request", "prepare", "connect", "read", "failed", "citations", "done", "returned"}
    /\ wire \in BoundedSeq({Delta(n) : n \in 1..MaxDeltas}
                            \cup {Line(l) : l \in Endings \cup {"other", "garbage"}}, Window)
    /\ produced \in 0..MaxDeltas
    /\ ending \in Endings \cup {"none"}
    /\ {emitted, client, late, broken, cancelled} \subseteq BOOLEAN
    /\ Len(delivered) <= MaxDeltas + 2
    /\ ToSet(delivered) \subseteq {Token(n) : n \in 1..MaxDeltas}
          \cup {Event(e) : e \in {"rejected", "error", "citations", "done"}}

Got(e) == \E i \in DOMAIN delivered : delivered[i].event = e

\* An answer is called done only if the model ended it: its stream neither broke
\* nor held a line that could not be read, and the client got all that the model
\* sent, from the first delta on, without a gap and in order, and no error.
DoneIsComplete ==
    Got("done") =>
        /\ ending \in {"[DONE]", "eof"} /\ produced > 0
        /\ delivered = [n \in 1..produced |-> Token(n)] \o <<Event("citations"), Event("done")>>

\* A client that stays, within the time a response may take, is told exactly once
\* how the answer ended.
ClientLearns ==
    pc = "returned" /\ client /\ ~late =>
        \E i \in DOMAIN delivered :
            \A j \in DOMAIN delivered :
                delivered[j].event \in {"done", "error", "rejected"} <=> i = j

\* When the client leaves, the handler ends and with it the model's stream,
\* also if the model is silent (README: the request of the provider is
\* cancelled with the client's).
DisconnectStopsModel == ~client ~> pc = "returned"
=============================================================================
