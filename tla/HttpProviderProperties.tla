----------------------- MODULE HttpProviderProperties -----------------------
(***************************************************************************)
(* What a caller of complete() relies on.                                  *)
(***************************************************************************)
EXTENDS HttpProvider

(* iai_provider.h says of the callback that it is called once: never twice *)
(* (by a rejection, an error path, the abort of cancel()), and not yet     *)
(* only while the reply that will call it lives.                           *)
CalledOnce ==
    \A c \in Made :
        /\ Len(http.answers[c]) <= 1
        /\ Unanswered(c) => http.reply[c].network = "open" /\ http.reply[c].life # "deleted"

(* The text of an answer is the text of its own reply: nothing left in the *)
(* buffer or the accumulator by a reply that failed or was cancelled, no   *)
(* line lost or put together wrongly where data was split, and all of it,  *)
(* unless the reply was cancelled, which a stream reports as a success.    *)
AnswerIsOwnText ==
    \A c \in Made : \A a \in ToSet(http.answers[c]) :
        ~a.error => IF http.reply[c].network = "done" THEN a.text = Whole(c)
                    ELSE IsPrefix(a.text, Whole(c))

(* Every call is answered, however its reply ends.                         *)
CallsAreAnswered == \A c \in Calls : (c \in Made) ~> ~Unanswered(c)
=============================================================================
