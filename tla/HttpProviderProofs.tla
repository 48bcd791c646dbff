-------------------------- MODULE HttpProviderProofs --------------------------
(***************************************************************************)
(* A caller that waits for each answer before it makes the next call gets  *)
(* exactly one of each, whatever the network does, and it is the text of   *)
(* that call, whole and in order.  The first half leaves open what the     *)
(* data says; the second is about the parser of the stream, a fold, whose  *)
(* value goes by least counterexamples.                                    *)
(***************************************************************************)
EXTENDS HttpProviderProperties, NaturalsInduction, WellFoundedInduction,
        FiniteSetTheorems, TLAPS

(* The fields of the records, whatever their values.                       *)
AReply(q) ==
    q \in [streaming : {q.streaming}, network : {q.network}, sent : {q.sent},
           unread : {q.unread}, life : {q.life}]

ARecord(h) ==
    h \in [current : {h.current}, buffer : {h.buffer}, accum : {h.accum}, reply : {h.reply},
           made : {h.made}, answers : {h.answers}, down : {h.down}]

Shaped(h) ==
    /\ ARecord(h)
    /\ h.reply = [c \in Calls |-> h.reply[c]]
    /\ \A c \in Calls : AReply(h.reply[c])
    /\ h.answers = [c \in Calls |-> h.answers[c]]
    /\ h.made \in 0..MaxCalls

(* The reply in the slot is the open one, and the only one.                *)
Slot(h) ==
    /\ h.current # NoReply => /\ h.current \in 1..h.made
                              /\ h.reply[h.current].network = "open"
    /\ \A c \in Calls : /\ h.reply[c].network = "open" => h.current = c
                        /\ h.reply[c].life # "alive" => h.reply[c].network # "open"
                        /\ c > h.made => h.reply[c].life = "alive"

(* The call whose reply is in the slot waits for its answer; all others    *)
(* that were made have had one.                                            *)
Answered(h) ==
    \A c \in Calls : IF c > h.made \/ h.current = c
                     THEN h.answers[c] = <<>>
                     ELSE \E a : h.answers[c] = <<a>>

HttpInv(h) == Shaped(h) /\ Slot(h) /\ Answered(h)

(* Calls are numbers, and no call stands for an empty slot.                *)
LEMMA NumberedCalls == Calls \subseteq Nat /\ NoReply \notin Calls
BY HttpAssumption DEF Calls, NoReply

(* At first no call has been made.                                         *)
LEMMA InitHttp == HttpInit => HttpInv(http)
<1> SUFFICES ASSUME HttpInit PROVE HttpInv(http)
  OBVIOUS
<1>1. Shaped(http)
  <2>1. ARecord(http) /\ http.made = 0
    BY DEF HttpInit, ARecord
  <2>2. \A c \in Calls : AReply(http.reply[c])
    BY DEF HttpInit, AReply
  <2>3. /\ http.reply = [c \in Calls |-> http.reply[c]]
        /\ http.answers = [c \in Calls |-> http.answers[c]]
    BY DEF HttpInit
  <2> QED
    BY <2>1, <2>2, <2>3, HttpAssumption DEF Shaped
<1>2. Slot(http)
  BY DEF HttpInit, Slot, Calls, NoReply
<1>3. Answered(http)
  BY DEF HttpInit, Answered, Calls, NoReply
<1> QED
  BY <1>1, <1>2, <1>3 DEF HttpInv

-----------------------------------------------------------------------------
(* Edits of the record.                                                    *)

(* The sequence of one answer.                                             *)
LEMMA OneOf == ASSUME NEW a PROVE Append(<<>>, a) = <<a>>
<1>1. <<>> \in Seq({a}) /\ a \in {a}
  OBVIOUS
<1> QED
  BY <1>1

(* A callback gives its call one answer and changes no other.              *)
LEMMA CallEdit ==
    ASSUME NEW h, Shaped(h), NEW c \in Calls, h.answers[c] = <<>>, NEW error, NEW text,
           NEW n, n = Call(h, c, error, text)
    PROVE  /\ Shaped(n)
           /\ n.current = h.current /\ n.made = h.made /\ n.reply = h.reply
           /\ \E a : n.answers[c] = <<a>>
           /\ \A d \in Calls \ {c} : n.answers[d] = h.answers[d]
<1> DEFINE a == [error |-> error, text |-> text]
<1> HIDE DEF a
<1>1. n = [h EXCEPT !.answers = [h.answers EXCEPT ![c] = <<a>>]]
  BY OneOf DEF Call, a
<1>2. /\ ARecord(n)
      /\ n.current = h.current /\ n.made = h.made /\ n.reply = h.reply
      /\ n.answers = [h.answers EXCEPT ![c] = <<a>>]
  BY <1>1 DEF Shaped, ARecord
<1>3. n.answers = [d \in Calls |-> n.answers[d]]
  BY <1>2 DEF Shaped
<1>4. n.answers[c] = <<a>> /\ \A d \in Calls \ {c} : n.answers[d] = h.answers[d]
  BY <1>2 DEF Shaped
<1> QED
  BY <1>2, <1>3, <1>4 DEF Shaped

SetReply(h, r, q) == [h EXCEPT !.reply = [h.reply EXCEPT ![r] = q]]

(* A change of a reply changes no other, and no answer.                    *)
LEMMA ReplyEdit ==
    ASSUME NEW h, Shaped(h), NEW r \in Calls, NEW q, AReply(q),
           NEW n, n = SetReply(h, r, q)
    PROVE  /\ Shaped(n)
           /\ n.current = h.current /\ n.made = h.made /\ n.answers = h.answers
           /\ n.reply[r] = q
           /\ \A d \in Calls \ {r} : n.reply[d] = h.reply[d]
<1>1. /\ ARecord(n)
      /\ n.current = h.current /\ n.made = h.made /\ n.answers = h.answers
      /\ n.reply = [h.reply EXCEPT ![r] = q]
  BY DEF Shaped, ARecord, SetReply
<1>2. n.reply[r] = q /\ \A d \in Calls \ {r} : n.reply[d] = h.reply[d]
  BY <1>1 DEF Shaped
<1>3. n.reply = [d \in Calls |-> n.reply[d]]
  BY <1>1 DEF Shaped
<1>4. \A d \in Calls : AReply(n.reply[d])
  BY <1>2 DEF Shaped
<1> QED
  BY <1>1, <1>2, <1>3, <1>4 DEF Shaped

(* Nor does marking a reply for deletion.                                  *)
LEMMA DeleteEdit ==
    ASSUME NEW h, Shaped(h), NEW r \in Calls, NEW n, n = DeleteLater(h, r)
    PROVE  /\ Shaped(n)
           /\ n.current = h.current /\ n.made = h.made /\ n.answers = h.answers
           /\ n.reply[r].network = h.reply[r].network
           /\ \A d \in Calls \ {r} : n.reply[d] = h.reply[d]
<1> DEFINE old == h.reply[r]
           q == [old EXCEPT !.life = "doomed"]
<1>1. AReply(old)
  BY DEF Shaped
<1>2. n = SetReply(h, r, q)
  BY DEF DeleteLater, SetReply
<1> HIDE DEF old
<1>3. AReply(q) /\ q.network = old.network
  BY <1>1 DEF AReply
<1> HIDE DEF q
<1> QED
  BY <1>2, <1>3, ReplyEdit DEF old

(* Clearing the stream leaves slot, replies and answers.                   *)
LEMMA ClearEdit ==
    ASSUME NEW h, Shaped(h), NEW n, n = ClearStream(h)
    PROVE  /\ Shaped(n)
           /\ n.current = h.current /\ n.made = h.made
           /\ n.answers = h.answers /\ n.reply = h.reply
<1>1. ARecord(n) /\ n.current = h.current /\ n.made = h.made
      /\ n.answers = h.answers /\ n.reply = h.reply
  BY DEF Shaped, ClearStream, ARecord
<1> QED
  BY <1>1 DEF Shaped

(* The finished handler answers the call in the slot, empties the slot,    *)
(* and dooms the reply, whatever ended it.                                 *)
Finishes(h, n, c) ==
    /\ Shaped(n)
    /\ n.current = NoReply /\ n.made = h.made
    /\ \E a : n.answers[c] = <<a>>
    /\ \A d \in Calls \ {c} : n.answers[d] = h.answers[d] /\ n.reply[d] = h.reply[d]
    /\ n.reply[c].network = h.reply[c].network

(* The finished handler answers its call and empties the slot.             *)
LEMMA FinishedEdit ==
    ASSUME NEW h, Shaped(h), NEW c \in Calls, h.current = c, h.answers[c] = <<>>
    PROVE  Finishes(h, Finished(h, c), c)
<1> DEFINE freed == [h EXCEPT !.current = NoReply]
<1>1. /\ Shaped(freed) /\ freed.current = NoReply /\ freed.made = h.made
      /\ freed.answers = h.answers /\ freed.reply = h.reply
  BY DEF Shaped, ARecord
<1> HIDE DEF freed
<1>2. c # NoReply
  BY DEF Calls, NoReply
<1>3. ASSUME NEW error, NEW text
      PROVE  Finishes(h, DeleteLater(Call(freed, c, error, text), c), c)
  <2> DEFINE called == Call(freed, c, error, text)
             n == DeleteLater(called, c)
  <2>1. /\ Shaped(called) /\ called.current = NoReply /\ called.made = h.made
        /\ called.reply = h.reply
        /\ \E a : called.answers[c] = <<a>>
        /\ \A d \in Calls \ {c} : called.answers[d] = h.answers[d]
    BY <1>1, CallEdit
  <2> HIDE DEF called
  <2>2. /\ Shaped(n) /\ n.current = called.current /\ n.made = called.made
        /\ n.answers = called.answers
        /\ n.reply[c].network = called.reply[c].network
        /\ \A d \in Calls \ {c} : n.reply[d] = called.reply[d]
    BY <2>1, DeleteEdit
  <2> QED
    BY <2>1, <2>2 DEF Finishes, called
<1>4. Finishes(h, FinishedStream(freed, c, c), c)
  <2> DEFINE doomed == DeleteLater(freed, c)
             error == FALSE
             text == freed.accum
             called == Call(doomed, c, error, text)
             n == ClearStream(called)
  <2> HIDE DEF error, text
  <2>1. /\ Shaped(doomed) /\ doomed.current = NoReply /\ doomed.made = h.made
        /\ doomed.answers = h.answers
        /\ doomed.reply[c].network = h.reply[c].network
        /\ \A d \in Calls \ {c} : doomed.reply[d] = h.reply[d]
    BY <1>1, DeleteEdit
  <2> HIDE DEF doomed
  <2>2. /\ Shaped(called) /\ called.current = NoReply /\ called.made = h.made
        /\ called.reply = doomed.reply
        /\ \E a : called.answers[c] = <<a>>
        /\ \A d \in Calls \ {c} : called.answers[d] = h.answers[d]
    <3>1. doomed.answers[c] = <<>>
      BY <2>1
    <3> HIDE DEF n
    <3> QED
      BY <2>1, <3>1, CallEdit
  <2> HIDE DEF called
  <2>3. /\ Shaped(n) /\ n.current = NoReply /\ n.made = h.made
        /\ n.answers = called.answers /\ n.reply = called.reply
    BY <2>2, ClearEdit
  <2>4. FinishedStream(freed, c, c) = n
    BY DEF FinishedStream, doomed, called, error, text
  <2> HIDE DEF n
  <2> QED
    BY <2>1, <2>2, <2>3, <2>4 DEF Finishes
<1>5. Finished(h, c) = IF Failed(h, c, h.reply[c].streaming)
                       THEN DeleteLater(Call(freed, c, TRUE, <<>>), c)
                       ELSE IF h.reply[c].streaming THEN FinishedStream(freed, c, c)
                       ELSE FinishedBody(freed, c, c)
  BY <1>2 DEF Finished, freed
<1>6. Finishes(h, FinishedBody(freed, c, c), c)
  BY <1>3 DEF FinishedBody
<1> QED
  BY <1>3, <1>4, <1>5, <1>6

-----------------------------------------------------------------------------
(* The events.                                                             *)

(* The reply in the slot ends, by the network or by abort().               *)
LEMMA EndInv ==
    ASSUME NEW h, HttpInv(h), NEW c \in Calls, h.current = c,
           NEW end \in {"done", "failed", "aborted"},
           NEW n, n = Finished([h EXCEPT !.reply[c].network = end], c)
    PROVE  HttpInv(n)
<1> DEFINE old == h.reply[c]
           q == [old EXCEPT !.network = end]
           ended == SetReply(h, c, q)
<1>1. AReply(old)
  BY DEF HttpInv, Shaped
<1> HIDE DEF old
<1>2. AReply(q) /\ q.network = end
  BY <1>1 DEF AReply
<1>3. [h EXCEPT !.reply[c].network = end] = ended
  BY DEF old, SetReply
<1> HIDE DEF q
<1>4. /\ Shaped(ended) /\ ended.current = c /\ ended.made = h.made
      /\ ended.answers = h.answers
      /\ ended.reply[c] = q /\ \A d \in Calls \ {c} : ended.reply[d] = h.reply[d]
  BY <1>2, ReplyEdit DEF HttpInv
<1> HIDE DEF ended
<1>5. c # NoReply /\ c \in 1..h.made /\ ~(c > h.made) /\ h.answers[c] = <<>>
  BY NumberedCalls DEF HttpInv, Shaped, Slot, Answered
<1>6. Finishes(ended, n, c)
  BY <1>3, <1>4, <1>5, FinishedEdit
<1>7. Slot(n)
  BY <1>2, <1>4, <1>5, <1>6 DEF Finishes, HttpInv, Slot
<1>8. Answered(n)
  <2> SUFFICES ASSUME NEW d \in Calls
               PROVE  IF d > n.made \/ n.current = d THEN n.answers[d] = <<>>
                      ELSE \E a : n.answers[d] = <<a>>
    BY DEF Answered
  <2>1. n.made = h.made /\ n.current # d
    BY <1>4, <1>6, NumberedCalls DEF Finishes
  <2>2. CASE d = c
    BY <1>5, <1>6, <2>1, <2>2 DEF Finishes
  <2>3. CASE d # c
    BY <1>4, <1>6, <2>1, <2>3 DEF Finishes, HttpInv, Answered
  <2> QED
    BY <2>2, <2>3
<1> QED
  BY <1>6, <1>7, <1>8 DEF HttpInv, Finishes

(* A change of one reply that leaves its network, and its life unless it   *)
(* is over.                                                                *)
LEMMA ReplyInv ==
    ASSUME NEW h, HttpInv(h), NEW c \in Calls, NEW n, Shaped(n),
           n.current = h.current, n.made = h.made, n.answers = h.answers,
           n.reply[c].network = h.reply[c].network,
           n.reply[c].life = h.reply[c].life \/ h.reply[c].life # "alive",
           \A d \in Calls \ {c} : n.reply[d] = h.reply[d]
    PROVE  HttpInv(n)
<1>1. Slot(n)
  <2>1. \A d \in Calls : n.reply[d].network = h.reply[d].network
    OBVIOUS
  <2>2. n.current # NoReply => /\ n.current \in 1..n.made
                               /\ n.reply[n.current].network = "open"
    BY <2>1, HttpAssumption DEF HttpInv, Shaped, Slot, Calls
  <2>3. ASSUME NEW d \in Calls
        PROVE  /\ n.reply[d].network = "open" => n.current = d
               /\ n.reply[d].life # "alive" => n.reply[d].network # "open"
               /\ d > n.made => n.reply[d].life = "alive"
    BY <2>1 DEF HttpInv, Slot
  <2> QED
    BY <2>2, <2>3 DEF Slot
<1>2. Answered(n)
  BY DEF HttpInv, Answered
<1> QED
  BY <1>1, <1>2 DEF HttpInv

(* Data arrives for a reply, and is parsed if it streams.                  *)
LEMMA DataInv ==
    ASSUME HttpInv(http), NEW c \in Calls, DataArrives(c)
    PROVE  HttpInv(http')
<1> DEFINE old == http.reply[c]
           q == [old EXCEPT !.sent = old.sent + 1,
                            !.unread = Append(@, [call |-> c, no |-> old.sent + 1])]
           received == SetReply(http, c, q)
<1>1. AReply(old)
  BY DEF HttpInv, Shaped
<1>2. received = [http EXCEPT !.reply[c].sent = old.sent + 1,
                              !.reply[c].unread = Append(@, [call |-> c, no |-> old.sent + 1])]
  BY DEF SetReply
<1>3. http' = IF http.reply[c].streaming THEN ReadyRead(received) ELSE received
  BY <1>2 DEF DataArrives
<1> HIDE DEF old
<1>4. AReply(q) /\ q.network = old.network /\ q.life = old.life
  BY <1>1 DEF AReply
<1> HIDE DEF q
<1>5. /\ Shaped(received) /\ received.current = http.current /\ received.made = http.made
      /\ received.answers = http.answers
      /\ received.reply[c] = q /\ \A d \in Calls \ {c} : received.reply[d] = http.reply[d]
  BY <1>4, ReplyEdit DEF HttpInv
<1> HIDE DEF received
<1>6. HttpInv(received)
  BY <1>4, <1>5, ReplyInv DEF old
<1>7. http.current = c /\ c # NoReply
  BY DEF DataArrives, Signals, HttpInv, Slot, Calls, NoReply
<1>8. ASSUME NEW line, NEW text, NEW n,
             n = [received EXCEPT !.buffer = line, !.accum = text,
                                  !.reply[received.current].unread = <<>>]
      PROVE  HttpInv(n)
  <2> DEFINE fed == [received EXCEPT !.buffer = line, !.accum = text]
             was == received.reply[c]
             p == [was EXCEPT !.unread = <<>>]
  <2>1. /\ Shaped(fed) /\ fed.current = received.current /\ fed.made = received.made
        /\ fed.answers = received.answers /\ fed.reply = received.reply
    BY <1>5 DEF Shaped, ARecord
  <2>2. n = SetReply(fed, c, p)
    BY <1>5, <1>7, <1>8, <2>1 DEF Shaped, ARecord, SetReply
  <2>3. AReply(was)
    BY <1>5 DEF Shaped
  <2> HIDE DEF was, fed
  <2>4. AReply(p) /\ p.network = was.network /\ p.life = was.life
    BY <2>3 DEF AReply
  <2> HIDE DEF p
  <2>5. /\ Shaped(n) /\ n.current = fed.current /\ n.made = fed.made
        /\ n.answers = fed.answers
        /\ n.reply[c] = p /\ \A d \in Calls \ {c} : n.reply[d] = fed.reply[d]
    BY <2>1, <2>2, <2>4, ReplyEdit
  <2> QED
    BY <1>6, <2>1, <2>4, <2>5, ReplyInv DEF was
<1>9. HttpInv(ReadyRead(received))
  BY <1>5, <1>7, <1>8 DEF ReadyRead
<1> QED
  BY <1>3, <1>6, <1>9

(* The end of the reply in the slot answers its call; another finds itself *)
(* replaced.                                                               *)
LEMMA NetworkEndsInv ==
    ASSUME HttpInv(http), NEW c \in Calls, NetworkEnds(c)
    PROVE  HttpInv(http')
<1>1. http.current = c
  BY DEF NetworkEnds, Signals, HttpInv, Slot
<1> QED
  BY <1>1, EndInv DEF NetworkEnds

(* cancel() ends the reply in the slot, which answers.                     *)
LEMMA CancelInv ==
    ASSUME HttpInv(http), Cancel
    PROVE  HttpInv(http')
<1> DEFINE c == http.current
           aborted == Finished([http EXCEPT !.reply[c].network = "aborted"], c)
<1>1. c \in Calls
  BY HttpAssumption DEF Cancel, HttpInv, Slot, Shaped, Calls
<1>2. HttpInv(aborted)
  BY <1>1, EndInv
<1>3. \E dies \in BOOLEAN : http' = [aborted EXCEPT !.down = dies]
  BY DEF Cancel
<1> HIDE DEF aborted
<1>4. /\ Shaped(http') /\ http'.current = aborted.current /\ http'.made = aborted.made
      /\ http'.reply = aborted.reply /\ http'.answers = aborted.answers
  BY <1>2, <1>3 DEF HttpInv, Shaped, ARecord
<1> QED
  BY <1>2, <1>4 DEF HttpInv, Slot, Answered

(* The event loop deletes a reply that was marked.                         *)
LEMMA DeferredDeleteInv ==
    ASSUME HttpInv(http), NEW c \in Calls, DeferredDelete(c)
    PROVE  HttpInv(http')
<1> DEFINE old == http.reply[c]
           q == [old EXCEPT !.life = "deleted", !.unread = <<>>]
<1>1. AReply(old)
  BY DEF HttpInv, Shaped
<1>2. http' = SetReply(http, c, q)
  BY DEF DeferredDelete, SetReply
<1> HIDE DEF old
<1>3. AReply(q) /\ q.network = old.network
  BY <1>1 DEF AReply
<1> HIDE DEF q
<1> DEFINE n == http'
<1>4. /\ Shaped(n) /\ n.current = http.current /\ n.made = http.made
      /\ n.answers = http.answers
      /\ n.reply[c] = q /\ \A d \in Calls \ {c} : n.reply[d] = http.reply[d]
  <2>1. n = SetReply(http, c, q)
    BY <1>2
  <2> HIDE DEF n
  <2> QED
    BY <2>1, <1>3, ReplyEdit DEF HttpInv
<1>5. http.reply[c].life # "alive"
  BY DEF DeferredDelete
<1> QED
  BY <1>3, <1>4, <1>5, ReplyInv DEF old

(* A caller that waits finds the slot empty.                               *)
LEMMA SlotIsEmpty ==
    ASSUME HttpInv(http), CallerReady, ~Overlap
    PROVE  http.current = NoReply /\ Next \in Calls /\ http.answers[Next] = <<>>
<1>1. \A c \in Made : http.answers[c] # <<>>
  BY DEF CallerReady, Unanswered
<1>2. Next \in Calls /\ http.answers[Next] = <<>>
  BY HttpAssumption DEF CallerReady, HttpInv, Shaped, Answered, Next, Calls
<1>3. ASSUME http.current # NoReply PROVE FALSE
  <2>1. http.current \in Made /\ http.current \in Calls
    BY <1>3, HttpAssumption DEF HttpInv, Slot, Shaped, Made, Calls
  <2> QED
    BY <1>1, <2>1 DEF HttpInv, Answered
<1> QED
  BY <1>2, <1>3

(* A call that is rejected is answered at once and leaves the slot alone.  *)
LEMMA RejectInv ==
    ASSUME HttpInv(http), Reject, ~Overlap
    PROVE  HttpInv(http')
<1> DEFINE made == [http EXCEPT !.made = Next]
           error == TRUE
<1>1. http.current = NoReply /\ Next \in Calls /\ http.answers[Next] = <<>>
  BY SlotIsEmpty DEF Reject
<1>2. /\ Shaped(made) /\ made.current = http.current /\ made.made = Next
      /\ made.answers = http.answers /\ made.reply = http.reply
  BY <1>1 DEF HttpInv, Shaped, ARecord, Calls
<1> HIDE DEF made, error
<1>3. http' = Call(made, Next, error, <<>>)
  BY DEF Reject, made, error
<1>4. /\ Shaped(http') /\ http'.current = made.current /\ http'.made = made.made
      /\ http'.reply = made.reply
      /\ \E a : http'.answers[Next] = <<a>>
      /\ \A d \in Calls \ {Next} : http'.answers[d] = made.answers[d]
  BY <1>1, <1>2, <1>3, CallEdit
<1>5. Slot(http')
  BY <1>1, <1>2, <1>4 DEF HttpInv, Slot, Shaped, Next, Calls
<1>6. Answered(http')
  BY <1>1, <1>2, <1>4 DEF HttpInv, Answered, Shaped, Next, Calls, NoReply
<1> QED
  BY <1>4, <1>5, <1>6 DEF HttpInv

(* A new call finds the slot empty, as calls do not overlap.               *)
LEMMA CompleteInv ==
    ASSUME HttpInv(http), Complete, ~Overlap
    PROVE  HttpInv(http')
<1>1. http.current = NoReply /\ Next \in Calls /\ http.answers[Next] = <<>>
  BY SlotIsEmpty DEF Complete
<1> DEFINE cleared == ClearStream(http)
           old == http.reply[Next]
<1>2. PICK streaming \in BOOLEAN :
        http' = [cleared EXCEPT !.made = Next, !.current = Next,
                                !.reply[Next].streaming = streaming,
                                !.reply[Next].network = "open"]
  BY DEF Complete
<1> DEFINE q == [old EXCEPT !.streaming = streaming, !.network = "open"]
           posted == [cleared EXCEPT !.made = Next, !.current = Next]
<1>3. /\ Shaped(cleared) /\ cleared.answers = http.answers /\ cleared.reply = http.reply
  BY ClearEdit DEF HttpInv
<1> HIDE DEF cleared
<1>4. /\ Shaped(posted) /\ posted.current = Next /\ posted.made = Next
      /\ posted.answers = http.answers /\ posted.reply = http.reply
  <2>1. ARecord(posted) /\ posted.current = Next /\ posted.made = Next
        /\ posted.answers = http.answers /\ posted.reply = http.reply
    BY <1>3 DEF Shaped, ARecord
  <2> HIDE DEF posted
  <2>2. Next \in 0..MaxCalls
    BY <1>1, HttpAssumption DEF Calls
  <2>3. /\ posted.reply = [c \in Calls |-> posted.reply[c]]
        /\ posted.answers = [c \in Calls |-> posted.answers[c]]
        /\ \A c \in Calls : AReply(posted.reply[c])
    BY <1>3, <2>1 DEF Shaped
  <2> QED
    BY <2>1, <2>2, <2>3 DEF Shaped
<1>5. http' = SetReply(posted, Next, q)
  BY <1>1, <1>2, <1>3 DEF Shaped, ARecord, SetReply
<1>6. AReply(old)
  BY <1>1 DEF HttpInv, Shaped
<1> HIDE DEF posted, old
<1>7. AReply(q) /\ q.network = "open" /\ q.life = old.life
  BY <1>6 DEF AReply
<1> DEFINE n == http'
<1> HIDE DEF q
<1>8. /\ Shaped(n) /\ n.current = Next /\ n.made = Next
      /\ n.answers = http.answers
      /\ n.reply[Next] = q /\ \A d \in Calls \ {Next} : n.reply[d] = http.reply[d]
  <2>1. n = SetReply(posted, Next, q)
    BY <1>5
  <2> HIDE DEF n
  <2> QED
    BY <2>1, <1>1, <1>4, <1>7, ReplyEdit
<1>9. Slot(http')
  BY <1>1, <1>7, <1>8 DEF HttpInv, Slot, Shaped, Next, Calls, NoReply, old
<1>10. Answered(http')
  BY <1>1, <1>8 DEF HttpInv, Answered, Shaped, Next, Calls, NoReply
<1> QED
  BY <1>8, <1>9, <1>10 DEF HttpInv

(* Every step keeps the invariant.                                         *)
LEMMA NextHttp ==
    ASSUME HttpInv(http), [HttpNext]_httpVars, ~Overlap
    PROVE  HttpInv(http')
<1>1. CASE UNCHANGED httpVars
  BY <1>1 DEF httpVars
<1> QED
  BY <1>1, RejectInv, CompleteInv, CancelInv, DataInv, NetworkEndsInv, DeferredDeleteInv
     DEF HttpNext, NetworkStep

(* One call, one answer (iai_provider.h): for a caller that waits for the  *)
(* answer of each call, complete(), cancel() and the handlers of the reply *)
(* call each callback once, and while they have not, the reply that will   *)
(* is alive and open.                                                      *)
THEOREM OneAnswer ==
    ASSUME ~Overlap
    PROVE  HttpSpec => []CalledOnce
<1>1. HttpInv(http) => CalledOnce
  <2> SUFFICES ASSUME HttpInv(http), NEW c \in Made
               PROVE  /\ Len(http.answers[c]) <= 1
                      /\ Unanswered(c) => /\ http.reply[c].network = "open"
                                          /\ http.reply[c].life # "deleted"
    BY DEF CalledOnce
  <2>1. c \in Calls /\ ~(c > http.made)
    BY HttpAssumption DEF HttpInv, Shaped, Made, Calls
  <2>2. CASE http.current = c
    <3>1. http.answers[c] = <<>>
      BY <2>1, <2>2 DEF HttpInv, Answered
    <3>2. http.reply[c].network = "open" /\ http.reply[c].life = "alive"
      BY <2>1, <2>2, NumberedCalls DEF HttpInv, Slot
    <3> QED
      BY <3>1, <3>2
  <2>3. CASE http.current # c
    <3>1. PICK a : http.answers[c] = <<a>>
      BY <2>1, <2>3 DEF HttpInv, Answered
    <3>2. Len(<<a>>) = 1 /\ <<a>> # <<>>
      OBVIOUS
    <3> QED
      BY <3>1, <3>2 DEF Unanswered
  <2> QED
    BY <2>2, <2>3
<1>2. HttpInv(http) /\ [HttpNext]_httpVars => HttpInv(http)'
  BY NextHttp
<1> QED
  BY <1>1, <1>2, InitHttp, PTL DEF HttpSpec
-----------------------------------------------------------------------------
(* Folds.  A fold is the solution of a recursive equation on sets; that    *)
(* one exists, and what it is, goes by least counterexamples.              *)

(* A set of numbers has a least one.                                       *)
LEMMA LeastNumber ==
    ASSUME NEW T, T \subseteq Nat, T # {}
    PROVE  \E m \in T : \A k \in T : m <= k
<1>1. PICK m \in T : \A k \in T : <<k, m>> \notin OpToRel(<, Nat)
  BY WFMin, NatLessThanWellFounded, Zenon
<1>2. \A k \in T : ~(k < m)
  BY <1>1, Zenon DEF OpToRel
<1> QED
  BY <1>2

(* g is a fold over the elements of D, taken in the order that ch says.    *)
Folds(g, D, ch, base, step) ==
    g = [s \in SUBSET D |-> IF s = {} THEN base ELSE step[<<g[s \ {ch[s]}], ch[s]>>]]

(* There is one.                                                           *)
LEMMA FoldExists ==
    ASSUME NEW D, IsFiniteSet(D), NEW ch, \A s \in SUBSET D : s # {} => ch[s] \in s,
           NEW X, NEW base \in X, NEW step \in [X \X D -> X]
    PROVE  \E g \in [SUBSET D -> X] : Folds(g, D, ch, base, step)
<1> DEFINE next(g) == [s \in SUBSET D |-> IF s = {} THEN base ELSE step[<<g[s \ {ch[s]}], ch[s]>>]]
           Upto(k) == \E g \in [SUBSET D -> X] :
                         \A s \in SUBSET D : Cardinality(s) < k => g[s] = next(g)[s]
           T == {k \in Nat : ~Upto(k)}
<1>1. ASSUME NEW g \in [SUBSET D -> X] PROVE next(g) \in [SUBSET D -> X]
  <2> SUFFICES ASSUME NEW s \in SUBSET D, s # {}
               PROVE  step[<<g[s \ {ch[s]}], ch[s]>>] \in X
    OBVIOUS
  <2>1. ch[s] \in D /\ g[s \ {ch[s]}] \in X
    OBVIOUS
  <2> QED
    BY <2>1
<1>2. \A s \in SUBSET D : Cardinality(s) \in Nat /\ IsFiniteSet(s)
  BY FS_Subset, FS_CardinalityType
<1>3. ASSUME NEW k \in Nat, Upto(k) PROVE Upto(k + 1)
  <2>1. PICK g \in [SUBSET D -> X] :
          \A s \in SUBSET D : Cardinality(s) < k => g[s] = next(g)[s]
    BY <1>3
  <2> DEFINE n == next(g)
  <2>2. ASSUME NEW s \in SUBSET D, Cardinality(s) < k + 1
        PROVE  n[s] = next(n)[s]
    <3>1. CASE s = {}
      BY <3>1
    <3>2. CASE s # {}
      <4> DEFINE r == s \ {ch[s]}
      <4>1. r \in SUBSET D /\ Cardinality(r) = Cardinality(s) - 1
        BY <1>2, <3>2, FS_RemoveElement
      <4>2. Cardinality(r) < k
        BY <1>2, <2>2, <4>1
      <4> HIDE DEF next
      <4>3. g[r] = n[r]
        BY <2>1, <4>1, <4>2
      <4> QED
        BY <3>2, <4>3 DEF next
    <3> QED
      BY <3>1, <3>2
  <2> HIDE DEF next
  <2> QED
    BY <1>1, <2>2
<1>4. Upto(0)
  <2> DEFINE g == [s \in SUBSET D |-> base]
  <2>1. g \in [SUBSET D -> X]
    OBVIOUS
  <2>2. \A s \in SUBSET D : Cardinality(s) < 0 => g[s] = next(g)[s]
    BY <1>2
  <2> HIDE DEF next, g
  <2> QED
    BY <2>1, <2>2
<1>5. T = {}
  <2> SUFFICES ASSUME T # {} PROVE FALSE
    OBVIOUS
  <2> HIDE DEF Upto
  <2>1. PICK m \in T : \A k \in T : m <= k
    BY LeastNumber
  <2>2. m # 0
    BY <1>4, <2>1
  <2>3. m - 1 \in Nat /\ m - 1 \notin T
    BY <2>1, <2>2
  <2> QED
    BY <1>3, <2>1, <2>3
<1>6. Upto(Cardinality(D) + 1)
  <2> HIDE DEF Upto
  <2> QED
    BY <1>2, <1>5
<1>7. PICK g \in [SUBSET D -> X] : \A s \in SUBSET D : g[s] = next(g)[s]
  <2>1. \A s \in SUBSET D : Cardinality(s) < Cardinality(D) + 1
    BY <1>2, FS_Subset
  <2> HIDE DEF next
  <2> QED
    BY <1>6, <2>1
<1>8. g = next(g)
  <2> DEFINE n == next(g)
  <2>1. n \in [SUBSET D -> X] /\ \A s \in SUBSET D : g[s] = n[s]
    BY <1>1, <1>7
  <2> HIDE DEF n
  <2>2. g = n
    BY <2>1
  <2> QED
    BY <2>2 DEF n
<1> QED
  BY <1>8 DEF Folds

(* The greatest of some numbers up to n.                                   *)
LEMMA GreatestNumber ==
    ASSUME NEW n \in Nat, NEW s \in SUBSET (1..n), s # {}
    PROVE  Max(s) \in s /\ \A x \in s : x <= Max(s)
<1> DEFINE T == {k \in Nat : \E x \in s : k = n - x}
<1>1. T \subseteq Nat /\ T # {}
  <2>1. PICK x \in s : TRUE
    OBVIOUS
  <2>2. n - x \in T
    OBVIOUS
  <2> QED
    BY <2>2
<1>2. PICK m \in T : \A k \in T : m <= k
  <2> HIDE DEF T
  <2> QED
    BY <1>1, LeastNumber
<1>3. PICK x \in s : m = n - x
  BY <1>2
<1>4. \A y \in s : x >= y
  <2> SUFFICES ASSUME NEW y \in s PROVE x >= y
    OBVIOUS
  <2>1. n - y \in T
    OBVIOUS
  <2>2. n - x <= n - y
    BY <1>2, <1>3, <2>1
  <2> QED
    BY <2>2
<1> QED
  BY <1>4 DEF Max

(* The numbers up to n, without the last.                                  *)
LEMMA LastNumber ==
    ASSUME NEW n \in Nat \ {0}
    PROVE  1..n # {} /\ Max(1..n) = n /\ (1..n) \ {Max(1..n)} = 1..(n - 1)
<1>1. 1..n # {} /\ n \in 1..n
  OBVIOUS
<1>2. Max(1..n) \in 1..n /\ \A x \in 1..n : x <= Max(1..n)
  BY <1>1, GreatestNumber
<1>3. Max(1..n) = n
  BY <1>1, <1>2
<1> QED
  BY <1>1, <1>3

-----------------------------------------------------------------------------
(* What is in the buffer and the accumulator.                              *)
Streams == [line : Seq(Piece), text : Seq(Delta)]

(* A piece of data gives another such stream.                              *)
LEMMA FeedType ==
    ASSUME NEW stream \in Streams, NEW piece \in Piece
    PROVE  Feed(stream, piece) \in Streams
<1>1. CASE piece.no % 2 = 1
  <2>1. Feed(stream, piece) = [stream EXCEPT !.line = Append(@, piece)]
    BY <1>1 DEF Feed
  <2>2. Append(stream.line, piece) \in Seq(Piece)
    BY DEF Streams
  <2> QED
    BY <2>1, <2>2 DEF Streams
<1>2. CASE piece.no % 2 # 1
  <2>1. piece.no \div 2 \in 1..MaxDeltas
    BY <1>2, HttpAssumption DEF Piece
  <2>2. [call |-> piece.call, no |-> piece.no \div 2] \in Delta
    BY <2>1 DEF Piece, Delta
  <2> QED
    BY <1>2, <2>2 DEF Feed, Streams
<1> QED
  BY <1>1, <1>2

(* The streams that parsing goes through, piece by piece.                  *)
Parses(v, line, text, pieces) ==
    /\ v \in [0..Len(pieces) -> Streams]
    /\ v[0] = [line |-> line, text |-> text]
    /\ \A n \in 1..Len(pieces) : v[n] = Feed(v[n - 1], pieces[n])
    /\ Parse(line, text, pieces) = v[Len(pieces)]

(* Parsing takes the pieces one by one, in order.                          *)
LEMMA ParseSteps ==
    ASSUME NEW line \in Seq(Piece), NEW text \in Seq(Delta), NEW pieces \in Seq(Piece)
    PROVE  \E v : Parses(v, line, text, pieces)
<1> DEFINE N == Len(pieces)
           D == DOMAIN pieces
           base == [line |-> line, text |-> text]
           Solves(f) == f = [s \in SUBSET D |->
                               IF s = {} THEN base ELSE Feed(f[s \ {Max(s)}], pieces[Max(s)])]
           f == CHOOSE f : Solves(f)
<1>1. Parse(line, text, pieces) = f[D]
  BY DEF Parse, FoldLeft, MapThenFoldSet
<1>2. N \in Nat /\ D = 1..N /\ IsFiniteSet(D) /\ base \in Streams
  BY FS_Interval DEF Streams
<1>3. \A s \in SUBSET D : s # {} => Max(s) \in s
  BY <1>2, GreatestNumber
<1>4. \E g : Solves(g)
  <2> DEFINE ch == [s \in SUBSET D |-> Max(s)]
             step == [p \in Streams \X D |-> Feed(p[1], pieces[p[2]])]
  <2>1. \A s \in SUBSET D : s # {} => ch[s] \in s
    BY <1>3
  <2>2. step \in [Streams \X D -> Streams]
    <3> SUFFICES ASSUME NEW p \in Streams \X D PROVE Feed(p[1], pieces[p[2]]) \in Streams
      OBVIOUS
    <3>1. p[1] \in Streams /\ pieces[p[2]] \in Piece
      BY <1>2
    <3> QED
      BY <3>1, FeedType
  <2>3. PICK g \in [SUBSET D -> Streams] : Folds(g, D, ch, base, step)
    <3> HIDE DEF D, ch, step, base
    <3> QED
      BY <1>2, <2>1, <2>2, FoldExists
  <2>4. ASSUME NEW s \in SUBSET D, s # {}
        PROVE  g[s] = Feed(g[s \ {Max(s)}], pieces[Max(s)])
    <3>1. g[s] = step[<<g[s \ {ch[s]}], ch[s]>>]
      BY <2>3, <2>4 DEF Folds
    <3>2. ch[s] = Max(s) /\ Max(s) \in D /\ g[s \ {Max(s)}] \in Streams
      BY <1>3, <2>4
    <3> QED
      BY <3>1, <3>2
  <2>5. g[{}] = base
    BY <2>3 DEF Folds
  <2>6. Solves(g)
    BY <2>3, <2>4, <2>5
  <2> QED
    BY <2>6
<1>5. Solves(f)
  <2> HIDE DEF Solves
  <2> QED
    BY <1>4, Zenon
<1> HIDE DEF f
<1> DEFINE v == [n \in 0..N |-> f[1..n]]
<1>6. v[0] = base
  <2>1. 1..0 = {} /\ {} \in SUBSET D
    OBVIOUS
  <2> HIDE DEF base, D
  <2>2. f[{}] = base
    BY <1>5, <2>1
  <2>3. v[0] = f[1..0]
    BY <1>2
  <2> HIDE DEF v
  <2> QED
    BY <2>1, <2>2, <2>3
<1>7. \A n \in 1..N : v[n] = Feed(v[n - 1], pieces[n])
  <2> SUFFICES ASSUME NEW n \in 1..N PROVE f[1..n] = Feed(f[1..(n - 1)], pieces[n])
    <3>1. \A n \in 1..N : n \in 0..N /\ n - 1 \in 0..N
      BY <1>2
    <3> QED
      BY <3>1
  <2>1. 1..n # {} /\ Max(1..n) = n /\ (1..n) \ {Max(1..n)} = 1..(n - 1)
    BY <1>2, LastNumber
  <2>2. 1..n \in SUBSET D
    BY <1>2
  <2>3. f[1..n] = Feed(f[(1..n) \ {Max(1..n)}], pieces[Max(1..n)])
    <3> HIDE DEF D
    <3> QED
      BY <1>5, <2>1, <2>2
  <2> QED
    BY <2>1, <2>3
<1>8. \A n \in 0..N : v[n] \in Streams
  <2> DEFINE T == {n \in 0..N : v[n] \notin Streams}
  <2> SUFFICES ASSUME T # {} PROVE FALSE
    OBVIOUS
  <2>1. PICK m \in T : \A k \in T : m <= k
    <3>1. T \subseteq Nat
      BY <1>2
    <3> HIDE DEF T
    <3> QED
      BY <3>1, LeastNumber
  <2> HIDE DEF v
  <2>2. m \in 1..N
    BY <1>2, <1>6, <2>1
  <2>3. m - 1 \in 0..N /\ v[m - 1] \in Streams
    BY <1>2, <2>1, <2>2
  <2>4. pieces[m] \in Piece
    BY <2>2
  <2> QED
    BY <1>7, <2>1, <2>2, <2>3, <2>4, FeedType
<1>9. f[D] = v[N]
  BY <1>2
<1> HIDE DEF D
<1>10. v \in [0..N -> Streams]
  BY <1>8
<1> HIDE DEF v
<1> QED
  BY <1>1, <1>6, <1>7, <1>9, <1>10 DEF Parses

(* The first k pieces, or deltas, of the answer to call c.                 *)
Upto(c, k) == [n \in 1..k |-> [call |-> c, no |-> n]]

(* The stream when n pieces have been read: half a line, or none, and the  *)
(* deltas whose lines are whole.                                           *)
StreamAt(c, n) ==
    [line |-> IF n % 2 = 1 THEN <<[call |-> c, no |-> n]>> ELSE <<>>,
     text |-> Upto(c, n \div 2)]

(* They are sequences.                                                     *)
LEMMA UptoType ==
    ASSUME NEW c \in Calls, NEW k \in Nat
    PROVE  /\ Upto(c, k) \in Seq([call : Calls, no : 1..k])
           /\ Len(Upto(c, k)) = k
           /\ k <= 2 * MaxDeltas => Upto(c, k) \in Seq(Piece)
           /\ k <= MaxDeltas => Upto(c, k) \in Seq(Delta)
           /\ Upto(c, 0) = <<>>
<1>1. ASSUME NEW m \in Nat, k <= m PROVE Upto(c, k) \in Seq([call : Calls, no : 1..m])
  BY <1>1 DEF Upto
<1>2. Len(Upto(c, k)) = k
  BY DEF Upto
<1>3. Upto(c, 0) = <<>>
  <2>1. Upto(c, 0) \in Seq([call : Calls, no : 1..0]) /\ Len(Upto(c, 0)) = 0
    BY DEF Upto
  <2> QED
    BY <2>1
<1>4. 2 * MaxDeltas \in Nat /\ MaxDeltas \in Nat
  BY HttpAssumption
<1> QED
  BY <1>1, <1>2, <1>3, <1>4 DEF Piece, Delta

(* One more delta.                                                         *)
LEMMA UptoNext ==
    ASSUME NEW c \in Calls, NEW k \in Nat
    PROVE  Append(Upto(c, k), [call |-> c, no |-> k + 1]) = Upto(c, k + 1)
<1> DEFINE S == [call : Calls, no : 1..(k + 1)]
           e == [call |-> c, no |-> k + 1]
           s == Append(Upto(c, k), e)
           t == Upto(c, k + 1)
<1>1. Upto(c, k) \in Seq(S) /\ Len(Upto(c, k)) = k /\ e \in S
  <2>1. Upto(c, k) \in Seq(S)
    BY DEF Upto
  <2>2. k + 1 \in 1..(k + 1)
    OBVIOUS
  <2>3. e \in S
    BY <2>2
  <2> HIDE DEF e, S
  <2> QED
    BY <2>1, <2>3, UptoType
<1>2. \A n \in 1..k : Upto(c, k)[n] = [call |-> c, no |-> n]
  BY DEF Upto
<1>3. t \in Seq(S) /\ Len(t) = k + 1 /\ \A n \in 1..(k + 1) : t[n] = [call |-> c, no |-> n]
  BY DEF Upto
<1> HIDE DEF e, S, t
<1>4. /\ s \in Seq(S) /\ Len(s) = k + 1
      /\ \A n \in 1..(k + 1) : s[n] = IF n <= k THEN Upto(c, k)[n] ELSE e
  BY <1>1
<1> HIDE DEF s
<1>5. \A n \in 1..(k + 1) : s[n] = t[n]
  BY <1>2, <1>3, <1>4 DEF e
<1>6. s = t
  BY <1>3, <1>4, <1>5
<1> QED
  BY <1>6 DEF s, t, e

(* Reading the next piece of a reply, in order.                            *)
LEMMA FeedNext ==
    ASSUME NEW c \in Calls, NEW n \in 1..(2 * MaxDeltas)
    PROVE  Feed(StreamAt(c, n - 1), [call |-> c, no |-> n]) = StreamAt(c, n)
<1> DEFINE p == [call |-> c, no |-> n]
           s == StreamAt(c, n - 1)
<1>1. n \in Nat /\ n >= 1 /\ n - 1 \in Nat
  BY HttpAssumption
<1>2. CASE n % 2 = 1
  <2>1. (n - 1) % 2 # 1 /\ (n - 1) \div 2 = n \div 2
    BY <1>1, <1>2
  <2>2. s = [line |-> <<>>, text |-> Upto(c, n \div 2)]
    BY <2>1 DEF StreamAt
  <2>3. Feed(s, p) = [s EXCEPT !.line = Append(@, p)]
    BY <1>2 DEF Feed
  <2>4. Feed(s, p) = [line |-> <<p>>, text |-> Upto(c, n \div 2)]
    <3> HIDE DEF s, p
    <3> QED
      BY <2>2, <2>3, OneOf
  <2> QED
    BY <1>2, <2>4 DEF StreamAt
<1>3. CASE n % 2 # 1
  <2> DEFINE k == (n - 1) \div 2
  <2>1. (n - 1) % 2 = 1 /\ n \div 2 = k + 1 /\ k \in Nat
    BY <1>1, <1>3
  <2>2. s = [line |-> <<[call |-> c, no |-> n - 1]>>, text |-> Upto(c, k)]
    BY <2>1 DEF StreamAt
  <2>3. [p EXCEPT !.no = @ - 1] = [call |-> c, no |-> n - 1]
    OBVIOUS
  <2>4. Feed(s, p) = [line |-> <<>>, text |-> Append(Upto(c, k), [call |-> c, no |-> k + 1])]
    <3>1. s.line = <<[p EXCEPT !.no = @ - 1]>> /\ s.text = Upto(c, k)
      BY <2>2, <2>3
    <3>2. p.no % 2 # 1 /\ p.call = c /\ p.no \div 2 = k + 1
      BY <1>3, <2>1
    <3> HIDE DEF s, p, k
    <3> QED
      BY <3>1, <3>2 DEF Feed
  <2> HIDE DEF s, p, k
  <2>5. Feed(s, p) = [line |-> <<>>, text |-> Upto(c, n \div 2)]
    BY <2>1, <2>4, UptoNext
  <2> QED
    BY <1>3, <2>5 DEF StreamAt, s, p
<1> QED
  BY <1>2, <1>3

(* Parsing a body, or its beginning.                                       *)
LEMMA ParseBody ==
    ASSUME NEW c \in Calls, NEW k \in 0..(2 * MaxDeltas)
    PROVE  Parse(<<>>, <<>>, Upto(c, k)) = StreamAt(c, k)
<1> DEFINE pieces == Upto(c, k)
<1>1. k \in Nat /\ k <= 2 * MaxDeltas /\ 2 * MaxDeltas \in Nat
  BY HttpAssumption
<1>2. pieces \in Seq(Piece) /\ Len(pieces) = k /\ \A n \in 1..k : pieces[n] = [call |-> c, no |-> n]
  BY <1>1, UptoType DEF Upto
<1> HIDE DEF pieces
<1>3. PICK v : Parses(v, <<>>, <<>>, pieces)
  <2>1. <<>> \in Seq(Piece) /\ <<>> \in Seq(Delta)
    OBVIOUS
  <2> QED
    BY <1>2, <2>1, ParseSteps
<1>4. v[0] = StreamAt(c, 0)
  <2>1. 0 % 2 # 1 /\ 0 \div 2 = 0
    OBVIOUS
  <2> QED
    BY <1>3, <2>1, UptoType DEF StreamAt, Parses
<1> DEFINE T == {n \in 0..k : v[n] # StreamAt(c, n)}
<1>5. T = {}
  <2> SUFFICES ASSUME T # {} PROVE FALSE
    OBVIOUS
  <2>1. PICK m \in T : \A n \in T : m <= n
    <3>1. T \subseteq Nat
      BY <1>1
    <3> HIDE DEF T
    <3> QED
      BY <3>1, LeastNumber
  <2>2. m \in 1..k /\ m \in 1..(2 * MaxDeltas) /\ m - 1 \in 0..k
    BY <1>1, <1>4, <2>1
  <2>3. v[m - 1] = StreamAt(c, m - 1)
    BY <1>1, <2>1, <2>2
  <2>4. v[m] = Feed(StreamAt(c, m - 1), [call |-> c, no |-> m])
    BY <1>2, <1>3, <2>2, <2>3 DEF Parses
  <2>5. v[m] = StreamAt(c, m)
    BY <2>2, <2>4, FeedNext
  <2> QED
    BY <2>1, <2>5
<1> QED
  BY <1>1, <1>2, <1>3, <1>5 DEF pieces, Parses

(* Parsing one piece.                                                      *)
LEMMA ParseOne ==
    ASSUME NEW line \in Seq(Piece), NEW text \in Seq(Delta), NEW piece \in Piece
    PROVE  Parse(line, text, <<piece>>) = Feed([line |-> line, text |-> text], piece)
<1> DEFINE pieces == <<piece>>
<1>1. pieces \in Seq(Piece) /\ Len(pieces) = 1 /\ pieces[1] = piece
  OBVIOUS
<1> HIDE DEF pieces
<1>2. PICK v : Parses(v, line, text, pieces)
  BY <1>1, ParseSteps
<1>3. v[1] = Feed(v[1 - 1], pieces[1])
  BY <1>1, <1>2 DEF Parses
<1> QED
  BY <1>1, <1>2, <1>3 DEF pieces, Parses
-----------------------------------------------------------------------------
(* The types.                                                              *)

(* Parsing gives a line and deltas.                                        *)
LEMMA ParseType ==
    ASSUME NEW line \in Seq(Piece), NEW text \in Seq(Delta), NEW pieces \in Seq(Piece)
    PROVE  Parse(line, text, pieces) \in Streams
<1>1. PICK v : Parses(v, line, text, pieces)
  BY ParseSteps
<1>2. Len(pieces) \in 0..Len(pieces)
  OBVIOUS
<1> QED
  BY <1>1, <1>2 DEF Parses

(* Nothing is a sequence of anything.                                      *)
LEMMA Nothing == \A S : <<>> \in Seq(S)
OBVIOUS

(* A stream that has ended.                                                *)
LEMMA ClearType ==
    ASSUME NEW h \in Provider
    PROVE  ClearStream(h) \in Provider /\ ClearStream(h).reply = h.reply
<1> DEFINE none == <<>>
<1>1. none \in Seq(Piece) /\ none \in Seq(Delta)
  BY Nothing
<1>2. ClearStream(h) = [h EXCEPT !.buffer = none, !.accum = none]
  BY DEF ClearStream
<1> HIDE DEF none
<1> QED
  BY <1>1, <1>2 DEF Provider

(* A call of a callback.                                                   *)
LEMMA CallType ==
    ASSUME NEW h \in Provider, NEW c \in Calls, NEW error \in BOOLEAN, NEW text \in Seq(Delta)
    PROVE  Call(h, c, error, text) \in Provider
<1> DEFINE a == [error |-> error, text |-> text]
<1>1. a \in Answer
  BY DEF Answer
<1> HIDE DEF a
<1>2. Append(h.answers[c], a) \in Seq(Answer)
  BY <1>1 DEF Provider
<1>3. [h.answers EXCEPT ![c] = Append(@, a)] \in [Calls -> Seq(Answer)]
  BY <1>2 DEF Provider
<1>4. Call(h, c, error, text) = [h EXCEPT !.answers = [h.answers EXCEPT ![c] = Append(@, a)]]
  BY DEF Call, a
<1> QED
  BY <1>3, <1>4 DEF Provider

(* A change of a reply.                                                    *)
LEMMA ReplyType ==
    ASSUME NEW h \in Provider, NEW r \in Calls, NEW q \in Reply
    PROVE  SetReply(h, r, q) \in Provider
<1>1. [h.reply EXCEPT ![r] = q] \in [Calls -> Reply]
  BY DEF Provider
<1> QED
  BY <1>1 DEF Provider, SetReply

(* A reply is marked for deletion.                                         *)
LEMMA DeleteType ==
    ASSUME NEW h \in Provider, NEW r \in Calls
    PROVE  DeleteLater(h, r) \in Provider
<1> DEFINE old == h.reply[r]
           q == [old EXCEPT !.life = "doomed"]
<1>1. old \in Reply
  BY DEF Provider
<1>2. DeleteLater(h, r) = SetReply(h, r, q)
  BY DEF DeleteLater, SetReply
<1> HIDE DEF old
<1>3. q \in Reply
  BY <1>1 DEF Reply
<1> HIDE DEF q
<1> QED
  BY <1>2, <1>3, ReplyType

(* The finished handler, whatever is in the slot.                          *)
LEMMA FinishedType ==
    ASSUME NEW h \in Provider, NEW c \in Calls
    PROVE  Finished(h, c) \in Provider
<1> DEFINE r == h.current
           freed == [h EXCEPT !.current = NoReply]
           none == <<>>
<1>1. none \in Seq(Delta)
  OBVIOUS
<1>2. freed \in Provider
  BY DEF Provider
<1>3. CASE r = NoReply
  <2>1. Finished(h, c) = Call(h, c, TRUE, none)
    BY <1>3 DEF Finished
  <2> HIDE DEF none
  <2> QED
    BY <1>1, <2>1, CallType
<1>4. CASE r # NoReply
  <2>1. r \in Calls /\ h.reply[r] \in Reply
    BY <1>4 DEF Provider
  <2> DEFINE body == FinishedBody(freed, c, r)
             stream == FinishedStream(freed, c, r)
             failed == DeleteLater(Call(freed, c, TRUE, none), r)
  <2>2. Finished(h, c) \in {failed, stream, body}
    BY <1>4 DEF Finished
  <2>3. failed \in Provider
    <3> HIDE DEF none, freed, r
    <3> QED
      BY <1>1, <1>2, <2>1, CallType, DeleteType
  <2>4. stream \in Provider
    <3>1. freed.accum \in Seq(Delta)
      BY <1>2 DEF Provider
    <3> HIDE DEF freed, r
    <3> DEFINE called == Call(DeleteLater(freed, r), c, FALSE, freed.accum)
    <3>2. called \in Provider
      BY <1>2, <2>1, <3>1, CallType, DeleteType
    <3>3. stream = ClearStream(called)
      BY DEF FinishedStream
    <3> HIDE DEF called, stream
    <3> QED
      BY <3>2, <3>3, ClearType
  <2>5. body \in Provider
    <3> DEFINE unread == freed.reply[r].unread
               parsed == Parse(none, none, unread)
               error == freed.reply[r].network # "done"
               text == IF error THEN none ELSE parsed.text
    <3>1. unread \in Seq(Piece) /\ none \in Seq(Piece)
      BY <2>1 DEF Reply
    <3>2. parsed \in Streams
      <4> HIDE DEF none, unread
      <4> QED
        BY <1>1, <3>1, ParseType
    <3>3. body = DeleteLater(Call(freed, c, error, text), r)
      BY DEF FinishedBody
    <3> HIDE DEF parsed, none
    <3>4. text \in Seq(Delta) /\ error \in BOOLEAN
      BY <1>1, <3>2 DEF Streams
    <3> HIDE DEF text, error, freed, body, r
    <3> QED
      BY <1>2, <2>1, <3>3, <3>4, CallType, DeleteType
  <2> QED
    BY <2>2, <2>3, <2>4, <2>5
<1> QED
  BY <1>3, <1>4

(* The readyRead handler.                                                  *)
LEMMA ReadyReadType ==
    ASSUME NEW h \in Provider
    PROVE  ReadyRead(h) \in Provider
<1>1. CASE h.current = NoReply
  BY <1>1 DEF ReadyRead, Provider
<1>2. CASE h.current # NoReply
  <2> DEFINE r == h.current
             stream == Parse(h.buffer, h.accum, h.reply[r].unread)
             old == h.reply[r]
             none == <<>>
             q == [old EXCEPT !.unread = none]
             fed == [h EXCEPT !.buffer = stream.line, !.accum = stream.text]
  <2>1. r \in Calls /\ old \in Reply /\ h.buffer \in Seq(Piece) /\ h.accum \in Seq(Delta)
    BY <1>2 DEF Provider
  <2>2. stream \in Streams
    <3>1. h.reply[r].unread \in Seq(Piece)
      BY <2>1 DEF Reply
    <3> QED
      BY <2>1, <3>1, ParseType
  <2>3. ReadyRead(h) = [h EXCEPT !.buffer = stream.line, !.accum = stream.text,
                                 !.reply[r].unread = <<>>]
    BY <1>2 DEF ReadyRead
  <2> HIDE DEF stream
  <2>4. fed \in Provider /\ fed.reply = h.reply
    BY <2>2 DEF Provider, Streams
  <2>5. ReadyRead(h) = SetReply(fed, r, q)
    BY <2>3 DEF SetReply, Provider
  <2>6. none \in Seq(Piece)
    BY Nothing
  <2> HIDE DEF old, none
  <2>7. q \in Reply
    BY <2>1, <2>6 DEF Reply
  <2> HIDE DEF fed, q, r
  <2> QED
    BY <2>1, <2>4, <2>5, <2>7, ReplyType
<1> QED
  BY <1>1, <1>2

(* Data for a reply joins what is unread.                                  *)
LEMMA ReceivedType ==
    ASSUME NEW h \in Provider, NEW c \in Calls, NEW sent \in 1..(2 * MaxDeltas)
    PROVE  [h EXCEPT !.reply[c].sent = sent,
                     !.reply[c].unread = Append(@, [call |-> c, no |-> sent])] \in Provider
<1> DEFINE old == h.reply[c]
           p == [call |-> c, no |-> sent]
           q == [old EXCEPT !.sent = sent, !.unread = Append(@, p)]
<1>1. old \in Reply
  BY DEF Provider
<1>2. [h EXCEPT !.reply[c].sent = sent, !.reply[c].unread = Append(@, [call |-> c, no |-> sent])]
      = SetReply(h, c, q)
  BY DEF SetReply
<1>3. p \in Piece /\ sent \in 0..(2 * MaxDeltas)
  BY HttpAssumption DEF Piece
<1> HIDE DEF old, p
<1>4. q \in Reply
  <2> DEFINE unread == Append(old.unread, p)
  <2>1. unread \in Seq(Piece)
    BY <1>1, <1>3 DEF Reply
  <2> HIDE DEF unread
  <2>2. [old EXCEPT !.sent = sent, !.unread = unread] \in Reply
    BY <1>1, <1>3, <2>1 DEF Reply
  <2> QED
    BY <2>2 DEF unread
<1> HIDE DEF q
<1> QED
  BY <1>2, <1>4, ReplyType

(* The end of a reply.                                                     *)
LEMMA EndType ==
    ASSUME NEW h \in Provider, NEW c \in Calls, NEW end \in {"done", "failed", "aborted"}
    PROVE  [h EXCEPT !.reply[c].network = end] \in Provider
<1> DEFINE old == h.reply[c]
           q == [old EXCEPT !.network = end]
<1>1. old \in Reply
  BY DEF Provider
<1>2. [h EXCEPT !.reply[c].network = end] = SetReply(h, c, q)
  BY DEF SetReply
<1> HIDE DEF old
<1>3. q \in Reply
  BY <1>1 DEF Reply
<1> HIDE DEF q
<1> QED
  BY <1>2, <1>3, ReplyType

(* Every step keeps the types.                                             *)
LEMMA NextHttpType ==
    ASSUME HttpTypeOK, [HttpNext]_httpVars
    PROVE  HttpTypeOK'
<1> USE DEF HttpTypeOK
<1>1. CASE Reject
  <2> DEFINE made == [http EXCEPT !.made = Next]
             none == <<>>
  <2>1. Next \in Calls /\ Next \in 0..MaxCalls /\ none \in Seq(Delta)
    BY <1>1, HttpAssumption DEF Reject, CallerReady, Calls
  <2>2. made \in Provider
    BY <2>1 DEF Provider
  <2>3. http' = Call(made, Next, TRUE, none)
    BY <1>1 DEF Reject
  <2> HIDE DEF made, none
  <2> QED
    BY <2>1, <2>2, <2>3, CallType
<1>2. CASE Complete
  <2>1. Next \in Calls /\ Next \in 0..MaxCalls
    BY <1>2, HttpAssumption DEF Complete, CallerReady, Calls
  <2>2. PICK streaming \in BOOLEAN :
          http' = [ClearStream(http) EXCEPT !.made = Next, !.current = Next,
                                            !.reply[Next].streaming = streaming,
                                            !.reply[Next].network = "open"]
    BY <1>2 DEF Complete
  <2> DEFINE cleared == ClearStream(http)
             posted == [cleared EXCEPT !.made = Next, !.current = Next]
             old == http.reply[Next]
             q == [old EXCEPT !.streaming = streaming, !.network = "open"]
  <2>3. cleared \in Provider /\ cleared.reply = http.reply /\ old \in Reply
    BY <2>1, ClearType DEF Provider
  <2>4. http' = SetReply(posted, Next, q)
    <3>1. http' = [cleared EXCEPT !.made = Next, !.current = Next,
                                  !.reply[Next].streaming = streaming,
                                  !.reply[Next].network = "open"]
      BY <2>2
    <3> HIDE DEF cleared
    <3> QED
      BY <2>1, <2>3, <3>1 DEF SetReply, Provider
  <2>6. posted \in Provider
    <3> HIDE DEF cleared
    <3> QED
      BY <2>1, <2>3 DEF Provider
  <2> HIDE DEF old
  <2>5. q \in Reply
    BY <2>3 DEF Reply
  <2> HIDE DEF q, posted
  <2> QED
    BY <2>1, <2>4, <2>5, <2>6, ReplyType
<1>3. CASE Cancel
  <2> DEFINE c == http.current
             ended == [http EXCEPT !.reply[c].network = "aborted"]
             aborted == Finished(ended, c)
  <2>1. c \in Calls
    BY <1>3 DEF Cancel, Provider
  <2>2. ended \in Provider
    BY <2>1, EndType
  <2>3. \E dies \in BOOLEAN : http' = [aborted EXCEPT !.down = dies]
    BY <1>3 DEF Cancel
  <2> HIDE DEF ended, c
  <2>4. aborted \in Provider
    BY <2>1, <2>2, FinishedType
  <2> HIDE DEF aborted
  <2> QED
    BY <2>3, <2>4 DEF Provider
<1>4. ASSUME NEW c \in Calls, DataArrives(c) PROVE HttpTypeOK'
  <2> DEFINE sent == http.reply[c].sent + 1
             received == [http EXCEPT !.reply[c].sent = sent,
                                      !.reply[c].unread = Append(@, [call |-> c, no |-> sent])]
  <2>1. sent \in 1..(2 * MaxDeltas)
    <3>1. http.reply[c] \in Reply
      BY DEF Provider
    <3>2. http.reply[c].sent \in 0..(2 * MaxDeltas)
      BY <3>1 DEF Reply
    <3> QED
      BY <1>4, <3>2, HttpAssumption DEF DataArrives
  <2>2. http' = IF http.reply[c].streaming THEN ReadyRead(received) ELSE received
    BY <1>4 DEF DataArrives
  <2> HIDE DEF sent
  <2>3. received \in Provider
    BY <2>1, ReceivedType
  <2> HIDE DEF received
  <2> QED
    BY <2>2, <2>3, ReadyReadType
<1>5. ASSUME NEW c \in Calls, NetworkEnds(c) PROVE HttpTypeOK'
  BY <1>5, EndType, FinishedType DEF NetworkEnds
<1>6. ASSUME NEW c \in Calls, DeferredDelete(c) PROVE HttpTypeOK'
  <2> DEFINE old == http.reply[c]
             none == <<>>
             q == [old EXCEPT !.life = "deleted", !.unread = none]
  <2>1. old \in Reply /\ none \in Seq(Piece)
    BY Nothing DEF Provider
  <2>2. http' = SetReply(http, c, q)
    BY <1>6 DEF DeferredDelete, SetReply
  <2> HIDE DEF old, none
  <2>3. q \in Reply
    BY <2>1 DEF Reply
  <2> HIDE DEF q
  <2> QED
    BY <2>2, <2>3, ReplyType
<1>7. CASE UNCHANGED httpVars
  BY <1>7 DEF httpVars
<1> QED
  BY <1>1, <1>2, <1>3, <1>4, <1>5, <1>6, <1>7 DEF HttpNext, NetworkStep

(* Nothing has come yet.                                                   *)
LEMMA InitHttpType == HttpInit => HttpTypeOK
<1> SUFFICES ASSUME HttpInit PROVE http \in Provider
  BY DEF HttpTypeOK
<1> DEFINE q == [streaming |-> FALSE, network |-> "none", sent |-> 0,
                 unread |-> <<>>, life |-> "alive"]
<1>1. q \in Reply
  BY HttpAssumption DEF Reply
<1>2. http = [current |-> NoReply, buffer |-> <<>>, accum |-> <<>>,
              reply |-> [c \in Calls |-> q],
              made |-> 0, answers |-> [c \in Calls |-> <<>>], down |-> FALSE]
  BY DEF HttpInit
<1> HIDE DEF q
<1> QED
  BY <1>1, <1>2, HttpAssumption DEF Provider

(* Slot, buffer, accumulator, replies and answers are what they are        *)
(* declared to be, whatever calls are made, overlapping or not, and        *)
(* whatever the network does: parsing makes deltas of the pieces.          *)
THEOREM HttpTypes == HttpSpec => []HttpTypeOK
BY InitHttpType, NextHttpType, PTL DEF HttpSpec
-----------------------------------------------------------------------------
(* Every answer is the text of its own call.                               *)

(* What has come for a reply is whole and in order: in its body, or, of a  *)
(* stream, parsed as far as it goes.                                       *)
Received(h) ==
    \A c \in Calls :
        LET q == h.reply[c]
        IN  /\ c > h.made => q.network = "none"
            /\ q.network = "none" => q.sent = 0 /\ q.unread = <<>>
            /\ q.network = "open" =>
                 IF q.streaming
                 THEN /\ q.unread = <<>>
                      /\ [line |-> h.buffer, text |-> h.accum] = StreamAt(c, q.sent)
                 ELSE q.unread = Upto(c, q.sent)

(* Answers are of their own reply.                                         *)
OwnText(h) ==
    \A c \in Calls : \A a \in ToSet(h.answers[c]) :
        ~a.error => IF h.reply[c].network = "done" THEN a.text = Whole(c)
                    ELSE IsPrefix(a.text, Whole(c))

TextInv(h) == h \in Provider /\ HttpInv(h) /\ Received(h) /\ OwnText(h)

(* The first deltas of an answer are its beginning.                        *)
LEMMA UptoPrefix ==
    ASSUME NEW c \in Calls, NEW k \in 0..MaxDeltas
    PROVE  IsPrefix(Upto(c, k), Whole(c)) /\ Upto(c, MaxDeltas) = Whole(c)
<1>1. k \in Nat /\ k <= MaxDeltas /\ MaxDeltas \in Nat
  BY HttpAssumption
<1>2. Upto(c, MaxDeltas) = Whole(c)
  BY DEF Upto, Whole
<1> DEFINE s == Upto(c, k)
           t == Upto(c, MaxDeltas)
<1>3. s \in Seq(Delta) /\ Len(s) = k /\ t \in Seq(Delta) /\ Len(t) = MaxDeltas
  <2>1. s \in Seq(Delta) /\ Len(s) = k
    BY <1>1, UptoType
  <2>2. MaxDeltas <= MaxDeltas
    BY <1>1
  <2>3. t \in Seq(Delta) /\ Len(t) = MaxDeltas
    BY <1>1, <2>2, UptoType
  <2> QED
    BY <2>1, <2>3
<1>4. \A n \in 1..k : s[n] = t[n]
  BY <1>1 DEF Upto
<1> HIDE DEF s, t
<1>5. SubSeq(s, 1, k) = SubSeq(t, 1, k)
  BY <1>1, <1>3, <1>4
<1>6. IsPrefix(s, t)
  BY <1>1, <1>3, <1>5 DEF IsPrefix
<1> QED
  BY <1>2, <1>6 DEF s, t

(* What the answer of a stream says is what was accumulated, and that of   *)
(* a body, what it holds.                                                  *)
Says(h, c, text) ==
    IF h.reply[c].streaming
    THEN h.reply[c].network # "failed" /\ text = h.accum
    ELSE h.reply[c].network = "done" /\ text = Parse(<<>>, <<>>, h.reply[c].unread).text

(* The finished handler gives the call in the slot such an answer, unless  *)
(* it is an error.                                                         *)
LEMMA FinishedText ==
    ASSUME NEW h \in Provider, NEW c \in Calls, h.current = c, h.answers[c] = <<>>,
           NEW n, n = Finished(h, c)
    PROVE  \E error, text : /\ n.answers[c] = <<[error |-> error, text |-> text]>>
                            /\ ~error => Says(h, c, text)
<1> DEFINE freed == [h EXCEPT !.current = NoReply]
<1>1. c # NoReply
  BY NumberedCalls
<1>2. /\ freed \in Provider /\ freed.answers = h.answers /\ freed.reply = h.reply
      /\ freed.accum = h.accum
  BY DEF Provider
<1>3. Finished(h, c) = IF Failed(h, c, h.reply[c].streaming)
                       THEN DeleteLater(Call(freed, c, TRUE, <<>>), c)
                       ELSE IF h.reply[c].streaming THEN FinishedStream(freed, c, c)
                       ELSE FinishedBody(freed, c, c)
  BY <1>1 DEF Finished
<1> HIDE DEF freed
<1>4. ASSUME NEW g, g.answers \in [Calls -> Seq(Answer)], g.answers[c] = <<>>,
             ARecord(g), NEW error, NEW text
      PROVE  Call(g, c, error, text).answers[c] = <<[error |-> error, text |-> text]>>
  <2> DEFINE a == [error |-> error, text |-> text]
  <2> HIDE DEF a
  <2>1. Call(g, c, error, text) = [g EXCEPT !.answers = [g.answers EXCEPT ![c] = <<a>>]]
    BY <1>4, OneOf DEF Call, a
  <2>2. Call(g, c, error, text).answers[c] = <<a>>
    BY <1>4, <2>1 DEF ARecord
  <2> QED
    BY <2>2 DEF a
<1>5. /\ ARecord(freed) /\ freed.answers[c] = <<>> /\ freed.answers \in [Calls -> Seq(Answer)]
  BY <1>2 DEF ARecord, Provider
<1>6. ASSUME NEW g, ARecord(g) PROVE DeleteLater(g, c).answers = g.answers
                                     /\ ARecord(DeleteLater(g, c))
  BY <1>6 DEF ARecord, DeleteLater
<1>7. ASSUME NEW error, NEW text
      PROVE  DeleteLater(Call(freed, c, error, text), c).answers[c]
               = <<[error |-> error, text |-> text]>>
  <2> DEFINE called == Call(freed, c, error, text)
  <2>1. ARecord(called)
    BY <1>5 DEF ARecord, Call
  <2>2. called.answers[c] = <<[error |-> error, text |-> text]>>
    BY <1>4, <1>5
  <2> HIDE DEF called
  <2>3. DeleteLater(called, c).answers = called.answers
    BY <1>6, <2>1
  <2> QED
    BY <2>2, <2>3 DEF called
<1>8. CASE Failed(h, c, h.reply[c].streaming)
  <2>1. n.answers[c] = <<[error |-> TRUE, text |-> <<>>]>>
    BY <1>3, <1>7, <1>8
  <2> QED
    BY <2>1
<1>9. CASE ~Failed(h, c, h.reply[c].streaming) /\ h.reply[c].streaming
  <2> DEFINE doomed == DeleteLater(freed, c)
             error == FALSE
             text == freed.accum
             called == Call(doomed, c, error, text)
  <2>1. doomed.answers = freed.answers /\ ARecord(doomed)
    BY <1>5, <1>6
  <2>2. called.answers[c] = <<[error |-> error, text |-> text]>>
    <3> HIDE DEF doomed, error, text
    <3> QED
      BY <1>4, <1>5, <2>1
  <2>3. ARecord(called)
    <3> HIDE DEF doomed
    <3> QED
      BY <2>1 DEF ARecord, Call
  <2>4. n = ClearStream(called)
    BY <1>3, <1>9 DEF FinishedStream
  <2> HIDE DEF called
  <2>5. n.answers = called.answers
    BY <2>3, <2>4 DEF ARecord, ClearStream
  <2>6. h.reply[c].network # "failed"
    BY <1>9 DEF Failed
  <2> QED
    BY <1>2, <1>9, <2>2, <2>5, <2>6 DEF Says
<1>10. CASE ~Failed(h, c, h.reply[c].streaming) /\ ~h.reply[c].streaming
  <2> DEFINE error == h.reply[c].network # "done"
             body == Parse(<<>>, <<>>, h.reply[c].unread).text
             text == IF error THEN <<>> ELSE body
  <2>1. n = DeleteLater(Call(freed, c, error, text), c)
    BY <1>2, <1>3, <1>10 DEF FinishedBody
  <2> HIDE DEF body
  <2>2. ~error => h.reply[c].network = "done" /\ text = body
    OBVIOUS
  <2> HIDE DEF error, text
  <2>3. n.answers[c] = <<[error |-> error, text |-> text]>>
    BY <1>7, <2>1
  <2> QED
    BY <1>10, <2>2, <2>3 DEF body, Says
<1> QED
  BY <1>8, <1>9, <1>10

(* The reply in the slot ends.  A reply that is done has been received     *)
(* whole.                                                                  *)
LEMMA EndText ==
    ASSUME NEW h, TextInv(h), NEW c \in Calls, h.current = c,
           NEW end \in {"done", "failed", "aborted"},
           end = "done" => h.reply[c].sent = 2 * MaxDeltas,
           NEW n, n = Finished([h EXCEPT !.reply[c].network = end], c)
    PROVE  TextInv(n)
<1> DEFINE old == h.reply[c]
           q == [old EXCEPT !.network = end]
           ended == [h EXCEPT !.reply[c].network = end]
<1>1. HttpInv(n)
  BY EndInv DEF TextInv
<1>2. ended = SetReply(h, c, q)
  BY DEF SetReply
<1>3. h \in Provider /\ HttpInv(h) /\ old \in Reply
  BY DEF TextInv, Provider
<1>4. ended \in Provider
  BY <1>3, EndType
<1>5. c # NoReply /\ c \in 1..h.made /\ h.answers[c] = <<>> /\ old.network = "open"
  BY <1>3, NumberedCalls DEF HttpInv, Slot, Answered
<1>6. old.sent \in 0..(2 * MaxDeltas)
  BY <1>3 DEF Reply
<1>7. IF old.streaming
      THEN old.unread = <<>> /\ [line |-> h.buffer, text |-> h.accum] = StreamAt(c, old.sent)
      ELSE old.unread = Upto(c, old.sent)
  BY <1>5 DEF TextInv, Received
<1> HIDE DEF old
<1>8. q.network = end /\ q.streaming = old.streaming /\ q.unread = old.unread
  BY <1>3 DEF Reply
<1>9. AReply(q)
  BY <1>3 DEF Reply, AReply
<1> HIDE DEF q, ended
<1>10. /\ Shaped(ended) /\ ended.current = c /\ ended.made = h.made
       /\ ended.answers = h.answers /\ ended.accum = h.accum
       /\ ended.reply[c] = q /\ \A d \in Calls \ {c} : ended.reply[d] = h.reply[d]
  <2>1. ended.accum = h.accum
    BY <1>2, <1>3 DEF SetReply, Provider
  <2> QED
    BY <1>2, <1>3, <1>9, <2>1, ReplyEdit DEF HttpInv
<1>11. n = Finished(ended, c)
  BY DEF ended
<1>12. Finishes(ended, n, c)
  BY <1>5, <1>10, <1>11, FinishedEdit
<1>13. PICK error, text :
             /\ n.answers[c] = <<[error |-> error, text |-> text]>>
             /\ ~error => IF old.streaming
                          THEN end # "failed" /\ text = h.accum
                          ELSE end = "done" /\ text = Parse(<<>>, <<>>, old.unread).text
  <2>1. PICK error, text : /\ n.answers[c] = <<[error |-> error, text |-> text]>>
                           /\ ~error => Says(ended, c, text)
    BY <1>4, <1>5, <1>10, <1>11, FinishedText
  <2>2. Says(ended, c, text) => IF old.streaming
                                THEN end # "failed" /\ text = h.accum
                                ELSE end = "done" /\ text = Parse(<<>>, <<>>, old.unread).text
    BY <1>8, <1>10 DEF Says
  <2> QED
    BY <2>1, <2>2
<1>14. n \in Provider
  BY <1>4, <1>11, FinishedType
<1>15. ~error => text = Upto(c, old.sent \div 2)
  <2>1. CASE old.streaming
    <3> HIDE DEF TextInv
    <3> QED
      BY <1>7, <1>13, <2>1 DEF StreamAt
  <2>2. CASE ~old.streaming
    <3>1. Parse(<<>>, <<>>, Upto(c, old.sent)) = StreamAt(c, old.sent)
      BY <1>6, ParseBody
    <3>2. StreamAt(c, old.sent).text = Upto(c, old.sent \div 2)
      BY DEF StreamAt
    <3> QED
      BY <1>7, <1>13, <2>2, <3>1, <3>2
  <2> QED
    BY <2>1, <2>2
<1>16. ~error => IF end = "done" THEN text = Whole(c) ELSE IsPrefix(text, Whole(c))
  <2>1. old.sent \div 2 \in 0..MaxDeltas /\ (2 * MaxDeltas) \div 2 = MaxDeltas
    BY <1>6, HttpAssumption
  <2>2. end = "done" => old.sent \div 2 = MaxDeltas
    BY <2>1 DEF old
  <2> QED
    BY <1>15, <2>1, <2>2, UptoPrefix
<1>17. OwnText(n)
  <2> SUFFICES ASSUME NEW d \in Calls, NEW a \in ToSet(n.answers[d]), ~a.error
               PROVE  IF n.reply[d].network = "done" THEN a.text = Whole(d)
                      ELSE IsPrefix(a.text, Whole(d))
    BY DEF OwnText
  <2>1. CASE d = c
    <3> DEFINE b == [error |-> error, text |-> text]
    <3>1. b.error = error /\ b.text = text
      OBVIOUS
    <3> HIDE DEF b
    <3>2. n.answers[c] = <<b>>
      BY <1>13 DEF b
    <3>3. ToSet(<<b>>) = {b}
      BY DEF ToSet
    <3>4. a = b
      BY <2>1, <3>2, <3>3
    <3>5. n.reply[c].network = end
      BY <1>8, <1>10, <1>12 DEF Finishes
    <3> QED
      BY <1>16, <2>1, <3>1, <3>4, <3>5
  <2>2. CASE d # c
    <3>1. n.answers[d] = h.answers[d] /\ n.reply[d] = h.reply[d]
      BY <1>10, <1>12, <2>2 DEF Finishes
    <3> QED
      BY <3>1 DEF TextInv, OwnText
  <2> QED
    BY <2>1, <2>2
<1>18. Received(n)
  <2> SUFFICES ASSUME NEW d \in Calls
               PROVE  /\ d > n.made => n.reply[d].network = "none"
                      /\ n.reply[d].network = "none"
                           => n.reply[d].sent = 0 /\ n.reply[d].unread = <<>>
                      /\ n.reply[d].network # "open"
    BY DEF Received
  <2>1. n.reply[d].network # "open"
    BY <1>1, <1>12, NumberedCalls DEF HttpInv, Slot, Finishes
  <2>2. CASE d = c
    <3>1. n.reply[c].network = end /\ n.made = h.made
      BY <1>8, <1>10, <1>12 DEF Finishes
    <3>2. ~(c > h.made)
      BY <1>5, NumberedCalls, <1>3 DEF Provider
    <3> QED
      BY <2>1, <2>2, <3>1, <3>2
  <2>3. CASE d # c
    <3>1. n.reply[d] = h.reply[d] /\ n.made = h.made
      BY <1>10, <1>12, <2>3 DEF Finishes
    <3> QED
      BY <2>1, <3>1 DEF TextInv, Received
  <2> QED
    BY <2>2, <2>3
<1> QED
  BY <1>1, <1>14, <1>17, <1>18 DEF TextInv

(* An edit that leaves the answers, and changes no reply but one.          *)
LEMMA SameAnswers ==
    ASSUME NEW h, TextInv(h), NEW c \in Calls, NEW n,
           n.answers = h.answers,
           n.reply[c].network = h.reply[c].network \/ h.answers[c] = <<>>,
           \A d \in Calls \ {c} : n.reply[d] = h.reply[d]
    PROVE  OwnText(n)
<1> SUFFICES ASSUME NEW d \in Calls, NEW a \in ToSet(n.answers[d]), ~a.error
             PROVE  IF n.reply[d].network = "done" THEN a.text = Whole(d)
                    ELSE IsPrefix(a.text, Whole(d))
  BY DEF OwnText
<1>1. a \in ToSet(h.answers[d])
  OBVIOUS
<1>2. h.answers[d] # <<>>
  BY <1>1 DEF ToSet
<1>3. n.reply[d].network = h.reply[d].network
  BY <1>2
<1> QED
  BY <1>1, <1>3 DEF TextInv, OwnText

(* Data of the reply in the slot.                                          *)
LEMMA DataText ==
    ASSUME TextInv(http), HttpInv(http'), http' \in Provider,
           NEW c \in Calls, DataArrives(c)
    PROVE  TextInv(http')
<1> DEFINE old == http.reply[c]
           sent == old.sent + 1
           p == [call |-> c, no |-> sent]
           unread == Append(old.unread, p)
           q == [old EXCEPT !.sent = sent, !.unread = unread]
           received == SetReply(http, c, q)
<1>1. http \in Provider /\ HttpInv(http) /\ old \in Reply
  BY DEF TextInv, Provider
<1>2. old.network = "open" /\ sent <= 2 * MaxDeltas
  BY DEF DataArrives, Signals
<1>3. http.current = c /\ c # NoReply /\ c \in 1..http.made
  BY <1>1, <1>2, NumberedCalls DEF HttpInv, Slot
<1>4. sent \in 1..(2 * MaxDeltas) /\ sent - 1 = old.sent /\ old.sent \in Nat
  <2>1. old.sent \in 0..(2 * MaxDeltas)
    BY <1>1 DEF Reply
  <2> QED
    BY <1>2, <2>1, HttpAssumption
<1>5. IF old.streaming
      THEN old.unread = <<>> /\ [line |-> http.buffer, text |-> http.accum] = StreamAt(c, old.sent)
      ELSE old.unread = Upto(c, old.sent)
  BY <1>2 DEF TextInv, Received
<1>6. http' = IF old.streaming THEN ReadyRead(received) ELSE received
  <2>1. received = [http EXCEPT !.reply[c].sent = sent,
                                !.reply[c].unread = Append(@, [call |-> c, no |-> sent])]
    BY DEF SetReply
  <2> QED
    BY <2>1 DEF DataArrives
<1>7. p \in Piece
  BY <1>4 DEF Piece
<1>8. Feed(StreamAt(c, old.sent), p) = StreamAt(c, sent)
  <2> HIDE DEF sent, old
  <2> QED
    BY <1>4, FeedNext
<1> HIDE DEF old, unread, p
<1>9. q.network = old.network /\ q.streaming = old.streaming /\ q.sent = sent /\ q.unread = unread
      /\ AReply(q)
  BY <1>1 DEF Reply, AReply
<1> HIDE DEF q
<1>10. /\ received.current = c /\ received.made = http.made /\ received.answers = http.answers
       /\ received.buffer = http.buffer /\ received.accum = http.accum
       /\ received.reply = [http.reply EXCEPT ![c] = q]
       /\ ARecord(received)
  BY <1>1, <1>3 DEF SetReply, Provider, ARecord
<1> HIDE DEF received
<1>11. received.reply[c] = q /\ \A d \in Calls \ {c} : received.reply[d] = http.reply[d]
  BY <1>1, <1>10 DEF Provider
<1>12. CASE ~old.streaming
  <2>1. http' = received
    BY <1>6, <1>12
  <2>2. unread = Upto(c, sent)
    BY <1>4, <1>5, <1>12, UptoNext DEF unread, p
  <2>3. Received(http')
    <3> SUFFICES ASSUME NEW d \in Calls
                 PROVE  LET r == http'.reply[d]
                        IN  /\ d > http'.made => r.network = "none"
                            /\ r.network = "none" => r.sent = 0 /\ r.unread = <<>>
                            /\ r.network = "open" =>
                                 IF r.streaming
                                 THEN /\ r.unread = <<>>
                                      /\ [line |-> http'.buffer, text |-> http'.accum]
                                           = StreamAt(d, r.sent)
                                 ELSE r.unread = Upto(d, r.sent)
      BY DEF Received
    <3>1. CASE d = c
      <4>1. ~(c > http.made)
        BY <1>3, NumberedCalls, <1>1 DEF Provider
      <4> HIDE DEF sent
      <4> QED
        BY <1>2, <1>9, <1>10, <1>11, <1>12, <2>1, <2>2, <3>1, <4>1
    <3>2. CASE d # c
      <4>1. http'.reply[d] = http.reply[d] /\ http'.made = http.made
            /\ http'.buffer = http.buffer /\ http'.accum = http.accum
        BY <1>10, <1>11, <2>1, <3>2
      <4> QED
        BY <4>1 DEF TextInv, Received
    <3> QED
      BY <3>1, <3>2
  <2>4. OwnText(http')
    <3> DEFINE n == http'
    <3>1. /\ n.answers = http.answers /\ n.reply[c].network = http.reply[c].network
          /\ \A d \in Calls \ {c} : n.reply[d] = http.reply[d]
      BY <1>9, <1>10, <1>11, <2>1 DEF old
    <3> HIDE DEF n
    <3>2. OwnText(n)
      BY <3>1, SameAnswers
    <3> QED
      BY <3>2 DEF n
  <2> QED
    BY <2>3, <2>4 DEF TextInv
<1>13. CASE old.streaming
  <2> DEFINE stream == Parse(received.buffer, received.accum, received.reply[c].unread)
             none == <<>>
             q2 == [q EXCEPT !.unread = none]
  <2>1. stream = StreamAt(c, sent)
    <3>1. unread = <<p>>
      BY <1>5, <1>13, OneOf DEF unread
    <3>2. http.buffer \in Seq(Piece) /\ http.accum \in Seq(Delta)
      BY <1>1 DEF Provider
    <3>3. Parse(http.buffer, http.accum, <<p>>)
            = Feed([line |-> http.buffer, text |-> http.accum], p)
      BY <1>7, <3>2, ParseOne
    <3> HIDE DEF sent
    <3> QED
      BY <1>5, <1>8, <1>9, <1>10, <1>11, <1>13, <3>1, <3>3
  <2>2. ReadyRead(received) = [received EXCEPT !.buffer = stream.line, !.accum = stream.text,
                                               !.reply[c].unread = none]
    BY <1>3, <1>10 DEF ReadyRead
  <2>3. http' = ReadyRead(received)
    BY <1>6, <1>13
  <2> HIDE DEF stream, none
  <2>4. /\ http'.current = c /\ http'.made = http.made /\ http'.answers = http.answers
        /\ http'.buffer = stream.line /\ http'.accum = stream.text
        /\ http'.reply = [received.reply EXCEPT ![c].unread = none]
    BY <1>10, <2>2, <2>3 DEF ARecord
  <2>5. http'.reply[c] = q2 /\ \A d \in Calls \ {c} : http'.reply[d] = http.reply[d]
    <3>1. received.reply = [d \in Calls |-> received.reply[d]]
      BY <1>1, <1>10 DEF Provider
    <3> QED
      BY <1>11, <2>4, <3>1
  <2>6. q2.network = q.network /\ q2.streaming = q.streaming /\ q2.sent = q.sent /\ q2.unread = none
    BY <1>9 DEF AReply
  <2> HIDE DEF q2
  <2>7. [line |-> http'.buffer, text |-> http'.accum] = StreamAt(c, sent)
    BY <2>1, <2>4 DEF StreamAt
  <2>8. Received(http')
    <3> SUFFICES ASSUME NEW d \in Calls
                 PROVE  LET r == http'.reply[d]
                        IN  /\ d > http'.made => r.network = "none"
                            /\ r.network = "none" => r.sent = 0 /\ r.unread = <<>>
                            /\ r.network = "open" =>
                                 IF r.streaming
                                 THEN /\ r.unread = <<>>
                                      /\ [line |-> http'.buffer, text |-> http'.accum]
                                           = StreamAt(d, r.sent)
                                 ELSE r.unread = Upto(d, r.sent)
      BY DEF Received
    <3>1. CASE d = c
      <4>1. ~(c > http.made)
        BY <1>3, NumberedCalls, <1>1 DEF Provider
      <4> HIDE DEF sent
      <4> QED
        BY <1>2, <1>9, <1>13, <2>4, <2>5, <2>6, <2>7, <3>1, <4>1 DEF none
    <3>2. CASE d # c
      <4>1. http'.reply[d] = http.reply[d] /\ http'.made = http.made
        BY <2>4, <2>5, <3>2
      <4>2. http'.reply[d].network # "open"
        BY <1>3, <3>2, <4>1, <1>1 DEF HttpInv, Slot
      <4> QED
        BY <4>1, <4>2 DEF TextInv, Received
    <3> QED
      BY <3>1, <3>2
  <2>9. OwnText(http')
    <3> DEFINE n == http'
    <3>1. /\ n.answers = http.answers /\ n.reply[c].network = http.reply[c].network
          /\ \A d \in Calls \ {c} : n.reply[d] = http.reply[d]
      BY <1>9, <2>4, <2>5, <2>6 DEF old
    <3> HIDE DEF n
    <3>2. OwnText(n)
      BY <3>1, SameAnswers
    <3> QED
      BY <3>2 DEF n
  <2> QED
    BY <2>8, <2>9 DEF TextInv
<1> QED
  BY <1>12, <1>13

(* A call is posted, or rejected: with nothing in the slot, no text yet is *)
(* anybody's.                                                              *)
LEMMA CompleteText ==
    ASSUME TextInv(http), HttpInv(http'), http' \in Provider, Complete, ~Overlap
    PROVE  TextInv(http')
<1> DEFINE none == <<>>
           old == http.reply[Next]
<1>1. http \in Provider /\ HttpInv(http)
  BY DEF TextInv
<1>2. http.current = NoReply /\ Next \in Calls /\ http.answers[Next] = <<>>
  BY <1>1, SlotIsEmpty DEF Complete
<1>3. PICK streaming \in BOOLEAN :
        http' = [ClearStream(http) EXCEPT !.made = Next, !.current = Next,
                                          !.reply[Next].streaming = streaming,
                                          !.reply[Next].network = "open"]
  BY DEF Complete
<1> DEFINE q == [old EXCEPT !.streaming = streaming, !.network = "open"]
<1>4. Next \in Nat /\ Next > http.made /\ old \in Reply
  BY <1>1, <1>2, NumberedCalls DEF Provider, Next
<1>5. old.sent = 0 /\ old.unread = <<>>
  BY <1>2, <1>4 DEF TextInv, Received
<1>6. /\ http'.made = Next /\ http'.answers = http.answers
      /\ http'.buffer = none /\ http'.accum = none
      /\ http'.reply = [http.reply EXCEPT ![Next] = q]
  <2> DEFINE cleared == ClearStream(http)
  <2>1. /\ cleared \in Provider /\ cleared.reply = http.reply /\ cleared.answers = http.answers
        /\ cleared.buffer = none /\ cleared.accum = none
    <3>1. cleared \in Provider /\ cleared.reply = http.reply
      BY <1>1, ClearType
    <3>2. cleared = [http EXCEPT !.buffer = none, !.accum = none]
      BY DEF ClearStream
    <3> HIDE DEF none, cleared
    <3> QED
      BY <1>1, <3>1, <3>2 DEF Provider
  <2> HIDE DEF none, cleared
  <2>2. http' = [cleared EXCEPT !.made = Next, !.current = Next,
                                !.reply[Next].streaming = streaming,
                                !.reply[Next].network = "open"]
    BY <1>3 DEF cleared
  <2> QED
    BY <1>2, <2>1, <2>2 DEF Provider
<1>7. http'.reply[Next] = q /\ \A d \in Calls \ {Next} : http'.reply[d] = http.reply[d]
  BY <1>1, <1>2, <1>6 DEF Provider
<1> HIDE DEF old
<1>8. q.network = "open" /\ q.sent = 0 /\ q.unread = <<>>
  BY <1>4, <1>5 DEF Reply
<1> HIDE DEF q
<1>9. StreamAt(Next, 0) = [line |-> <<>>, text |-> <<>>] /\ Upto(Next, 0) = <<>>
  <2>1. 0 % 2 # 1 /\ 0 \div 2 = 0
    OBVIOUS
  <2>2. Upto(Next, 0) = <<>>
    BY <1>2, UptoType
  <2> QED
    BY <2>1, <2>2 DEF StreamAt
<1>10. Received(http')
  <2> SUFFICES ASSUME NEW d \in Calls
               PROVE  LET r == http'.reply[d]
                      IN  /\ d > http'.made => r.network = "none"
                          /\ r.network = "none" => r.sent = 0 /\ r.unread = <<>>
                          /\ r.network = "open" =>
                               IF r.streaming
                               THEN /\ r.unread = <<>>
                                    /\ [line |-> http'.buffer, text |-> http'.accum]
                                         = StreamAt(d, r.sent)
                               ELSE r.unread = Upto(d, r.sent)
    BY DEF Received
  <2>1. CASE d = Next
    BY <1>4, <1>6, <1>7, <1>8, <1>9, <2>1
  <2>2. CASE d # Next
    <3>1. http'.reply[d] = http.reply[d]
      BY <1>7, <2>2
    <3>2. http'.reply[d].network # "open"
      BY <1>1, <1>2, <3>1, NumberedCalls DEF HttpInv, Slot
    <3>3. d > http'.made => d > http.made
      BY <1>1, <1>4, <1>6, NumberedCalls DEF Provider
    <3> QED
      BY <3>1, <3>2, <3>3 DEF TextInv, Received
  <2> QED
    BY <2>1, <2>2
<1>11. OwnText(http')
  BY <1>2, <1>6, <1>7, SameAnswers
<1> QED
  BY <1>10, <1>11 DEF TextInv

(* The rejection says nothing.                                             *)
LEMMA RejectText ==
    ASSUME TextInv(http), HttpInv(http'), http' \in Provider, Reject, ~Overlap
    PROVE  TextInv(http')
<1> DEFINE a == [error |-> TRUE, text |-> <<>>]
<1>1. http \in Provider /\ HttpInv(http)
  BY DEF TextInv
<1>2. http.current = NoReply /\ Next \in Calls /\ http.answers[Next] = <<>>
  BY <1>1, SlotIsEmpty DEF Reject
<1>3. Next \in Nat /\ Next > http.made
  BY <1>1, <1>2, NumberedCalls DEF Provider, Next
<1>4. a.error
  OBVIOUS
<1>5. http' = [[http EXCEPT !.made = Next] EXCEPT !.answers[Next] = Append(@, a)]
  BY DEF Reject, Call
<1> HIDE DEF a
<1>6. /\ http'.made = Next /\ http'.reply = http.reply
      /\ http'.buffer = http.buffer /\ http'.accum = http.accum
      /\ http'.answers = [http.answers EXCEPT ![Next] = <<a>>]
  BY <1>1, <1>2, <1>5, OneOf DEF Provider
<1>7. http'.answers[Next] = <<a>> /\ \A d \in Calls \ {Next} : http'.answers[d] = http.answers[d]
  BY <1>1, <1>2, <1>6 DEF Provider
<1>8. Received(http')
  <2>1. \A d \in Calls : d > http'.made => d > http.made
    BY <1>1, <1>3, <1>6, NumberedCalls DEF Provider
  <2> QED
    BY <1>6, <2>1 DEF TextInv, Received
<1>9. OwnText(http')
  <2> SUFFICES ASSUME NEW d \in Calls, NEW b \in ToSet(http'.answers[d]), ~b.error
               PROVE  IF http'.reply[d].network = "done" THEN b.text = Whole(d)
                      ELSE IsPrefix(b.text, Whole(d))
    BY DEF OwnText
  <2>1. CASE d = Next
    <3>1. ToSet(<<a>>) = {a}
      BY DEF ToSet
    <3> QED
      BY <1>4, <1>7, <2>1, <3>1
  <2>2. CASE d # Next
    BY <1>6, <1>7, <2>2 DEF TextInv, OwnText
  <2> QED
    BY <2>1, <2>2
<1> QED
  BY <1>8, <1>9 DEF TextInv

(* A deleted reply had been read, or had ended.                            *)
LEMMA DeferredDeleteText ==
    ASSUME TextInv(http), HttpInv(http'), http' \in Provider,
           NEW c \in Calls, DeferredDelete(c)
    PROVE  TextInv(http')
<1> DEFINE old == http.reply[c]
           none == <<>>
           q == [old EXCEPT !.life = "deleted", !.unread = none]
<1>1. http \in Provider /\ HttpInv(http) /\ old \in Reply
  BY DEF TextInv, Provider
<1>2. old.network # "open"
  BY <1>1 DEF DeferredDelete, HttpInv, Slot
<1>3. /\ http'.made = http.made /\ http'.answers = http.answers
      /\ http'.buffer = http.buffer /\ http'.accum = http.accum
      /\ http'.reply = [http.reply EXCEPT ![c] = q]
  BY <1>1 DEF DeferredDelete, Provider
<1>4. http'.reply[c] = q /\ \A d \in Calls \ {c} : http'.reply[d] = http.reply[d]
  BY <1>1, <1>3 DEF Provider
<1>5. c > http.made => old.network = "none"
  BY DEF TextInv, Received
<1>6. old.network = "none" => old.sent = 0
  BY DEF TextInv, Received
<1> HIDE DEF old
<1>7. q.network = old.network /\ q.sent = old.sent /\ q.unread = <<>>
  BY <1>1 DEF Reply
<1> HIDE DEF q
<1>8. Received(http')
  <2> SUFFICES ASSUME NEW d \in Calls
               PROVE  LET r == http'.reply[d]
                      IN  /\ d > http'.made => r.network = "none"
                          /\ r.network = "none" => r.sent = 0 /\ r.unread = <<>>
                          /\ r.network = "open" =>
                               IF r.streaming
                               THEN /\ r.unread = <<>>
                                    /\ [line |-> http'.buffer, text |-> http'.accum]
                                         = StreamAt(d, r.sent)
                               ELSE r.unread = Upto(d, r.sent)
    BY DEF Received
  <2>1. CASE d = c
    BY <1>2, <1>3, <1>4, <1>5, <1>6, <1>7, <2>1
  <2>2. CASE d # c
    <3>1. http'.reply[d] = http.reply[d]
      BY <1>4, <2>2
    <3> QED
      BY <1>3, <3>1 DEF TextInv, Received
  <2> QED
    BY <2>1, <2>2
<1>9. OwnText(http')
  BY <1>3, <1>4, <1>7, SameAnswers DEF old
<1> QED
  BY <1>8, <1>9 DEF TextInv

(* cancel() ends the reply in the slot, with what has come of a stream.    *)
LEMMA CancelText ==
    ASSUME TextInv(http), HttpInv(http'), http' \in Provider, Cancel
    PROVE  TextInv(http')
<1> DEFINE c == http.current
           aborted == Finished([http EXCEPT !.reply[c].network = "aborted"], c)
<1>1. c \in Calls
  BY DEF Cancel, TextInv, Provider
<1>2. TextInv(aborted)
  BY <1>1, EndText
<1>3. \E dies \in BOOLEAN : http' = [aborted EXCEPT !.down = dies]
  BY DEF Cancel
<1> HIDE DEF aborted
<1>4. /\ http'.made = aborted.made /\ http'.answers = aborted.answers
      /\ http'.buffer = aborted.buffer /\ http'.accum = aborted.accum
      /\ http'.reply = aborted.reply
  BY <1>2, <1>3 DEF TextInv, Provider
<1> QED
  BY <1>2, <1>4 DEF TextInv, Received, OwnText

(* Every step keeps the text.                                              *)
LEMMA NextText ==
    ASSUME TextInv(http), [HttpNext]_httpVars, ~Overlap
    PROVE  TextInv(http')
<1>1. HttpInv(http')
  BY NextHttp DEF TextInv
<1>2. http' \in Provider
  BY NextHttpType DEF TextInv, HttpTypeOK
<1>3. ASSUME NEW c \in Calls, NetworkEnds(c) PROVE TextInv(http')
  <2>1. http.current = c
    BY <1>3 DEF NetworkEnds, Signals, TextInv, HttpInv, Slot
  <2> QED
    BY <1>3, <2>1, EndText DEF NetworkEnds
<1>4. CASE UNCHANGED httpVars
  BY <1>4 DEF httpVars
<1> QED
  BY <1>1, <1>2, <1>3, <1>4, RejectText, CompleteText, CancelText, DataText,
     DeferredDeleteText DEF HttpNext, NetworkStep

(* For a caller that waits for the answer of each call, the text it is     *)
(* given is that of its own reply, put together from the pieces in which   *)
(* it came: all of it, or the beginning of it when the call was cancelled. *)
THEOREM OwnAnswer ==
    ASSUME ~Overlap
    PROVE  HttpSpec => []AnswerIsOwnText
<1>1. HttpInit => TextInv(http)
  <2> SUFFICES ASSUME HttpInit PROVE TextInv(http)
    OBVIOUS
  <2>1. HttpInv(http) /\ http \in Provider
    BY InitHttp, InitHttpType DEF HttpTypeOK
  <2>2. Received(http)
    BY DEF HttpInit, Received
  <2>3. OwnText(http)
    BY DEF HttpInit, OwnText, ToSet
  <2> QED
    BY <2>1, <2>2, <2>3 DEF TextInv
<1>2. TextInv(http) => AnswerIsOwnText
  <2>1. TextInv(http) => \A c \in Made : c \in Calls
    BY HttpAssumption DEF TextInv, Provider, Made, Calls
  <2> QED
    BY <2>1 DEF TextInv, OwnText, AnswerIsOwnText
<1>3. TextInv(http) /\ [HttpNext]_httpVars => TextInv(http)'
  BY NextText
<1> QED
  BY <1>1, <1>2, <1>3, PTL DEF HttpSpec
=============================================================================
