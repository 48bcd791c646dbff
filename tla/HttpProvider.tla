---------------------------- MODULE HttpProvider ----------------------------
(***************************************************************************)
(* The providers over HTTP: open_ai_compatible_provider.cpp, and           *)
(* anthropic_provider.cpp and local_http_provider.cpp, built the same way. *)
(*                                                                         *)
(* A provider has one slot for its reply, one buffer and one accumulator,  *)
(* and every reply has handlers of its own, which work on whatever the     *)
(* slot holds when they are called.  The agent controller makes one call   *)
(* at a time; code completion makes the next one without waiting.          *)
(***************************************************************************)
EXTENDS Naturals, SequencesExt

CONSTANTS
    MaxCalls,    \* bound: calls of complete(), numbered in order
    MaxDeltas,   \* deltas of an answer
    Overlap      \* may a call be made while another is unanswered?

ASSUME HttpAssumption == MaxCalls \in Nat /\ MaxDeltas \in Nat /\ Overlap \in BOOLEAN

Calls == 1..MaxCalls

NoReply == 0

(* A delta comes in a line that may be split between two pieces of data:   *)
(* pieces 2n - 1 and 2n are the halves of delta n.                         *)
Piece == [call : Calls, no : 1..(2 * MaxDeltas)]

Delta == [call : Calls, no : 1..MaxDeltas]

Whole(c) == [n \in 1..MaxDeltas |-> [call |-> c, no |-> n]]

(* What a callback is given: an error, or a text.                          *)
Answer == [error : BOOLEAN, text : Seq(Delta)]

VARIABLE http

httpVars == <<http>>

Reply ==
    [streaming : BOOLEAN,
     network : {"none", "open", "done", "failed", "aborted"},
     sent : 0..(2 * MaxDeltas),        \* pieces that have arrived,
     unread : Seq(Piece),              \*   those not read yet
     life : {"alive", "doomed", "deleted"}]   \* doomed by deleteLater()

Provider ==
    [current : Calls \cup {NoReply},       \* current_reply
     buffer : Seq(Piece),                  \* sse_buffer
     accum : Seq(Delta),                   \* stream_accum
     reply : [Calls -> Reply],
     made : 0..MaxCalls,                   \* calls of complete()
     answers : [Calls -> Seq(Answer)],     \* history: calls of callback
     down : BOOLEAN]                       \* the process died of a null reply

HttpTypeOK == http \in Provider

HttpInit ==
    http = [current |-> NoReply, buffer |-> <<>>, accum |-> <<>>,
            reply |-> [c \in Calls |-> [streaming |-> FALSE, network |-> "none", sent |-> 0,
                                        unread |-> <<>>, life |-> "alive"]],
            made |-> 0, answers |-> [c \in Calls |-> <<>>], down |-> FALSE]

-----------------------------------------------------------------------------
(* Edits of the record.                                                    *)

Call(h, c, error, text) ==
    [h EXCEPT !.answers[c] = Append(@, [error |-> error, text |-> text])]

DeleteLater(h, c) == [h EXCEPT !.reply[c].life = "doomed"]

(* Mutant: a line is parsed before its end has come.                       *)
FeedUnterminated(stream, piece) ==
    [stream EXCEPT !.text = Append(@, [call |-> piece.call, no |-> piece.no \div 2])]

(* A piece joins the buffer; the end of a line takes the line out, which   *)
(* is skipped unless it parses, that is unless it has both its halves.     *)
Feed(stream, piece) ==
    IF piece.no % 2 = 1
    THEN [stream EXCEPT !.line = Append(@, piece)]
    ELSE [line |-> <<>>,
          text |-> IF stream.line = <<[piece EXCEPT !.no = @ - 1]>>
                   THEN Append(stream.text, [call |-> piece.call, no |-> piece.no \div 2])
                   ELSE stream.text]

Parse(line, text, pieces) == FoldLeft(Feed, [line |-> line, text |-> text], pieces)

(* The readyRead handler of a stream, whose data is read from the reply in *)
(* the slot; with none there the program reads through a null pointer.     *)
ReadyRead(h) ==
    IF h.current = NoReply
    THEN [h EXCEPT !.down = TRUE]
    ELSE LET stream == Parse(h.buffer, h.accum, h.reply[h.current].unread)
         IN  [h EXCEPT !.buffer = stream.line, !.accum = stream.text,
                       !.reply[h.current].unread = <<>>]

(* Mutant: accumulated text is left for the next call.                     *)
ClearStreamKeepsText(h) == [h EXCEPT !.buffer = <<>>]

ClearStream(h) == [h EXCEPT !.buffer = <<>>, !.accum = <<>>]

(* An error of the network, and a cancellation unless it is of a stream.   *)
Failed(h, r, streaming) ==
    \/ h.reply[r].network = "failed"
    \/ h.reply[r].network = "aborted" /\ ~streaming

(* The finished handler of a call without streaming: a body that is not    *)
(* complete does not parse.                                                *)
FinishedBody(h, c, r) ==
    LET body == Parse(<<>>, <<>>, h.reply[r].unread).text
    IN  DeleteLater(Call(h, c, h.reply[r].network # "done",
                         IF h.reply[r].network # "done" THEN <<>> ELSE body), r)

(* That of a stream, which takes a cancelled reply for a finished one.     *)
FinishedStream(h, c, r) == ClearStream(Call(DeleteLater(h, r), c, FALSE, h.accum))

(* Mutant: the error path does not return.                                 *)
FinishedFallsThrough(h, c) ==
    LET r == h.current
        freed == [h EXCEPT !.current = NoReply]
        warned == IF Failed(h, r, h.reply[c].streaming) THEN Call(freed, c, TRUE, <<>>) ELSE freed
    IN  IF h.reply[c].streaming THEN FinishedStream(warned, c, r) ELSE FinishedBody(warned, c, r)

(* The finished handler of call c, on the reply that the slot holds.       *)
Finished(h, c) ==
    LET r == h.current
        freed == [h EXCEPT !.current = NoReply]
    IN  IF r = NoReply THEN Call(h, c, TRUE, <<>>)
        ELSE IF Failed(h, r, h.reply[c].streaming)
        THEN DeleteLater(Call(freed, c, TRUE, <<>>), r)
        ELSE IF h.reply[c].streaming THEN FinishedStream(freed, c, r)
        ELSE FinishedBody(freed, c, r)

-----------------------------------------------------------------------------
(* Events.                                                                 *)

Made == 1..http.made

Unanswered(c) == http.answers[c] = <<>>

Next == http.made + 1

CallerReady ==
    /\ ~http.down
    /\ Next \in Calls
    /\ Overlap \/ \A c \in Made : ~Unanswered(c)

(* Mutant: a message that cannot be sent is only logged.                   *)
RejectSilently ==
    /\ CallerReady
    /\ http' = [http EXCEPT !.made = Next]

(* complete() with an attachment the provider cannot send.                 *)
Reject ==
    /\ CallerReady
    /\ http' = Call([http EXCEPT !.made = Next], Next, TRUE, <<>>)

(* complete() posts the request; a reply still in the slot is forgotten.   *)
Complete ==
    /\ CallerReady
    /\ \E streaming \in BOOLEAN :
        http' = [ClearStream(http) EXCEPT !.made = Next,
                                          !.current = Next,
                                          !.reply[Next].streaming = streaming,
                                          !.reply[Next].network = "open"]

Signals(c) ==
    /\ ~http.down
    /\ http.reply[c].network = "open"
    /\ http.reply[c].life # "deleted"

(* Data arrives for a reply, which emits readyRead.                        *)
DataArrives(c) ==
    LET sent == http.reply[c].sent + 1
        received == [http EXCEPT !.reply[c].sent = sent,
                                 !.reply[c].unread = Append(@, [call |-> c, no |-> sent])]
    IN  /\ Signals(c)
        /\ sent <= 2 * MaxDeltas
        /\ http' = IF http.reply[c].streaming THEN ReadyRead(received) ELSE received

(* A reply is complete or fails, and emits finished.                       *)
NetworkEnds(c) ==
    /\ Signals(c)
    /\ \E end \in {"done", "failed"} :
        /\ end = "done" => http.reply[c].sent = 2 * MaxDeltas
        /\ http' = Finished([http EXCEPT !.reply[c].network = end], c)

(* cancel(): abort() emits finished before it returns, and the handler     *)
(* empties the slot through which cancel() then calls deleteLater().  Qt   *)
(* may ignore the null receiver or die of it.                              *)
Cancel ==
    /\ ~http.down
    /\ http.current # NoReply
    /\ LET c == http.current
           aborted == Finished([http EXCEPT !.reply[c].network = "aborted"], c)
       IN  \E dies \in BOOLEAN : http' = [aborted EXCEPT !.down = dies]

(* The event loop deletes what deleteLater() was called for.               *)
DeferredDelete(c) ==
    /\ ~http.down
    /\ http.reply[c].life = "doomed"
    /\ http' = [http EXCEPT !.reply[c].life = "deleted", !.reply[c].unread = <<>>]

NetworkStep == \E c \in Calls : DataArrives(c) \/ NetworkEnds(c)

HttpNext ==
    \/ Reject
    \/ Complete
    \/ Cancel
    \/ NetworkStep
    \/ \E c \in Calls : DeferredDelete(c)

HttpSpec == HttpInit /\ [][HttpNext]_httpVars

(* The network goes on, or the caller's watchdog loses patience.           *)
HttpFairSpec == HttpSpec /\ WF_httpVars(NetworkStep \/ Cancel)
=============================================================================
